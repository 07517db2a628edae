-------------------------------- MODULE Lexer --------------------------------
(***************************************************************************)
(* The lexer (lexer.l): it turns the words of a source file into tokens,   *)
(* and gives every different name a number.                                *)
(*                                                                         *)
(* A source is a sequence of words; what separates them, and the automaton *)
(* flex makes to find them, are left out.  A token has the grammar's name  *)
(* for its type (LParen for tokenLParen: the two have the same number).    *)
(***************************************************************************)
EXTENDS Integers, Sequences

CONSTANTS
  Sources,      \* the files: sequences of words
  Literals,     \* the number that each int_const among the words denotes
  MaxInt        \* INT_MAX

ASSUME SourcesAssumption == \A words \in Sources : words \in Seq(STRING)

ASSUME LiteralsAssumption == Literals \in [DOMAIN Literals -> Nat]

ASSUME LexerMaxIntAssumption == MaxInt \in Nat \ {0}

VARIABLES
  source,         \* the file
  tokens,         \* tok_vec
  name_map,       \* the names seen, with their numbers
  next_int_name,  \* the number of the next new name
  lexer_result    \* what do_analysis returns

lexerVars == <<source, tokens, name_map, next_int_name, lexer_result>>

Keyword ==
  [word \in {"(", ")", "{", "}", ",", "while", "do", ":=", ";", "return", "+", "-"} |->
     CASE word = "(" -> "LParen" [] word = ")" -> "RParen"
       [] word = "{" -> "LCurly" [] word = "}" -> "RCurly"
       [] word = "," -> "Comma"  [] word = "while" -> "While"
       [] word = "do" -> "Do"    [] word = ":=" -> "Assign"
       [] word = ";" -> "Semi"   [] word = "return" -> "Return"
       [] word = "+" -> "Add"    [] word = "-" -> "Sub"]

(* Characters that begin no token; one of them is a token of its own. *)
Unknown == {"*", "?"}

(* atoi: a literal that is too large is cut to the width of an int. *)
atoi(number) ==
  LET word == number % (2 * (MaxInt + 1))
  IN  IF word > MaxInt THEN word - 2 * (MaxInt + 1) ELSE word

TokenType == {"LParen", "RParen", "LCurly", "RCurly", "Comma", "While", "Do", "Assign",
              "Semi", "Return", "Add", "Sub", "Name", "Int", "endOfInput", "error"}

Token == [type : TokenType, str : STRING \cup {"EOF"}, name : Int]
Token_init(ty, text, number) == [type |-> ty, str |-> text, name |-> number]

StringIntPair == [sval : STRING, ival : Int]

LexerResult == [tokens : Seq(Token), name_map : Seq(STRING)]
NoResult == [tokens |-> <<>>, name_map |-> <<>>]

Lexed == lexer_result.tokens # <<>>

(* ---------------------------------------------------------------------- *)
LexInit ==
  /\ source \in Sources
  /\ tokens = <<>>
  /\ name_map = <<>>
  /\ next_int_name = 0
  /\ lexer_result = NoResult

AtEnd == Len(tokens) = Len(source)
NextWord == source[Len(tokens) + 1]

(* MAKE_TOKEN, for a word whose token carries the given number. *)
MakeToken(type, number) ==
  tokens' = Append(tokens, Token_init(type, NextWord, number))

Reading(type) ==
  /\ ~Lexed
  /\ ~AtEnd
  /\ type = CASE NextWord \in DOMAIN Keyword  -> "Keyword"
              [] NextWord \in DOMAIN Literals -> "Int"
              [] NextWord \in Unknown         -> "error"
              [] OTHER                        -> "Name"
  /\ UNCHANGED <<source, lexer_result>>

(* The entries lease_int_name would stop at; it takes the first. *)
EntriesFor(name) == {idx \in DOMAIN name_map : name_map[idx].sval = name}
FirstEntry(name) ==
  CHOOSE idx \in EntriesFor(name) : \A jdx \in EntriesFor(name) : idx <= jdx

(* lease_int_name finds the name. *)
ReadKnownName ==
  /\ Reading("Name")
  /\ EntriesFor(NextWord) # {}
  /\ MakeToken("Name", name_map[FirstEntry(NextWord)].ival)
  /\ UNCHANGED <<name_map, next_int_name>>

(* Mutant: the next new name gets the same number. *)
ReadNewNameAgain ==
  /\ Reading("Name")
  /\ EntriesFor(NextWord) = {}
  /\ MakeToken("Name", next_int_name)
  /\ name_map' = Append(name_map, [sval |-> NextWord, ival |-> next_int_name])
  /\ UNCHANGED next_int_name

(* lease_int_name adds the name. *)
ReadNewName ==
  /\ Reading("Name")
  /\ EntriesFor(NextWord) = {}
  /\ MakeToken("Name", next_int_name)
  /\ name_map' = Append(name_map, [sval |-> NextWord, ival |-> next_int_name])
  /\ next_int_name' = next_int_name + 1

ReadInt ==
  /\ Reading("Int")
  /\ MakeToken("Int", atoi(Literals[NextWord]))
  /\ UNCHANGED <<name_map, next_int_name>>

ReadKeyword ==
  /\ Reading("Keyword")
  /\ MakeToken(Keyword[NextWord], -1)
  /\ UNCHANGED <<name_map, next_int_name>>

ReadUnknown ==
  /\ Reading("error")
  /\ MakeToken("error", -1)
  /\ UNCHANGED <<name_map, next_int_name>>

(* The entries with a number.  flip_name_map looks for one for each number
   up to the size of the map, and Vector_get ends the process if there is
   none. *)
EntriesWith(number) == {idx \in DOMAIN name_map : name_map[idx].ival = number}
CanFlip == \A number \in 0 .. Len(name_map) - 1 : EntriesWith(number) # {}
flip_name_map ==
  [idx \in DOMAIN name_map |->
     name_map[CHOOSE jdx \in EntriesWith(idx - 1) :
                \A kdx \in EntriesWith(idx - 1) : jdx <= kdx].sval]

(* The last token, after which do_analysis returns. *)
ReadEnd ==
  LET eof == Token_init("endOfInput", "EOF", -1)
  IN  /\ ~Lexed
      /\ AtEnd
      /\ CanFlip
      /\ tokens' = Append(tokens, eof)
      /\ lexer_result' = [tokens |-> Append(tokens, eof), name_map |-> flip_name_map]
      /\ UNCHANGED <<source, name_map, next_int_name>>

LexNext ==
  \/ ReadKnownName
  \/ ReadNewName
  \/ ReadInt
  \/ ReadKeyword
  \/ ReadUnknown
  \/ ReadEnd

LexSpec == LexInit /\ [][LexNext]_lexerVars

(* ------------------------------ Properties ----------------------------- *)
LexTypeOK ==
  /\ source \in Seq(STRING)
  /\ tokens \in Seq(Token)
  /\ name_map \in Seq(StringIntPair)
  /\ next_int_name \in Nat
  /\ lexer_result \in LexerResult

(* What the numbers of names are for (lease_int_name, flip_name_map): two
   name tokens have the same number exactly if they are the same word, and
   the map that goes on to the parser takes every number back to its word,
   although it is built by another search, from a map with its own numbers. *)
NamesAreTheirNumbers ==
  \A k \in DOMAIN tokens : tokens[k].type = "Name" =>
    /\ \A l \in DOMAIN tokens :
         tokens[l].type = "Name" =>
           (tokens[k].name = tokens[l].name <=> source[k] = source[l])
    /\ Lexed => /\ tokens[k].name + 1 \in DOMAIN lexer_result.name_map
                /\ lexer_result.name_map[tokens[k].name + 1] = source[k]
=============================================================================
