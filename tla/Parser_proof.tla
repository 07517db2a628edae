---------------------------- MODULE Parser_proof ----------------------------
(***************************************************************************)
(* Proofs about the front end, for every source.  Parts 1 to 3 are about   *)
(* names: the numbers that the lexer gives them (lexer.l), the maps in     *)
(* which the linking leases indices for those (lease_name of parser.y),    *)
(* and its walks through the trees.  The others are about the parser:      *)
(* bison's machine and what it reads, the values that the actions make,    *)
(* the linked program, what the stack derives, and that in every state     *)
(* there is one step to take.                                              *)
(***************************************************************************)
EXTENDS Parser, Induction, TLAPS

(***************************************************************************)
(* Part 1: the lexer. The invariant.  A name's number is its place in the  *)
(* name map, counted from 0; no name is in the map twice; and each name    *)
(* token carries the number of its own word.  The counter next_int_name    *)
(* and the length of the map are two counters that only happen to agree,   *)
(* and flip_name_map depends on it.                                        *)
(***************************************************************************)
Numbered ==
  /\ next_int_name = Len(name_map)
  /\ \A i \in DOMAIN name_map : name_map[i].ival = i - 1

NoNameTwice ==
  \A i, j \in DOMAIN name_map : name_map[i].sval = name_map[j].sval => i = j

TokensNamed ==
  \A k \in DOMAIN tokens : tokens[k].type = "Name" =>
    /\ tokens[k].name + 1 \in DOMAIN name_map
    /\ name_map[tokens[k].name + 1].sval = source[k]

Flipped ==
  Lexed => /\ DOMAIN lexer_result.name_map = DOMAIN name_map
           /\ \A i \in DOMAIN name_map : lexer_result.name_map[i] = name_map[i].sval

InSource == ~Lexed => Len(tokens) <= Len(source)

LexInv == LexTypeOK /\ Numbered /\ NoNameTwice /\ TokensNamed /\ Flipped /\ InSource

----------------------------------------------------------------------------
(* While there is a next word, it is a string. *)
LEMMA NextWordType ==
  ASSUME LexTypeOK, InSource, ~AtEnd, ~Lexed
  PROVE  NextWord \in STRING /\ Len(tokens) + 1 \in DOMAIN source
BY DEF LexTypeOK, InSource, AtEnd, NextWord, Token

LEMMA AtoiType ==
  ASSUME NEW number \in Nat
  PROVE  atoi(number) \in Int
<1>1. 2 * (MaxInt + 1) \in Nat \ {0}
  BY LexerMaxIntAssumption
<1>2. number % (2 * (MaxInt + 1)) \in Int
  BY <1>1
<1> QED
  BY <1>1, <1>2 DEF atoi

(* The search of lease_int_name finds the one entry there is. *)
LEMMA FirstEntryFound ==
  ASSUME LexTypeOK, NoNameTwice, NEW name, EntriesFor(name) # {}
  PROVE  /\ FirstEntry(name) \in DOMAIN name_map
         /\ name_map[FirstEntry(name)].sval = name
<1>1. PICK idx \in EntriesFor(name) : TRUE
  OBVIOUS
<1>2. idx \in Nat
  BY <1>1 DEF EntriesFor, LexTypeOK
<1>3. \A jdx \in EntriesFor(name) : jdx = idx
  BY <1>1 DEF EntriesFor, NoNameTwice
<1>4. \A jdx \in EntriesFor(name) : idx <= jdx
  BY <1>2, <1>3
<1>5. FirstEntry(name) \in EntriesFor(name)
  BY <1>1, <1>4 DEF FirstEntry
<1> QED
  BY <1>5 DEF EntriesFor

(* So does the search of flip_name_map: the map that goes on to the parser
   is the lexer's own without its numbers. *)
LEMMA FlipKeepsOrder ==
  ASSUME LexTypeOK, Numbered
  PROVE  /\ flip_name_map \in Seq(STRING)
         /\ DOMAIN flip_name_map = DOMAIN name_map
         /\ \A i \in DOMAIN name_map : flip_name_map[i] = name_map[i].sval
<1>1. name_map \in Seq(StringIntPair) /\ DOMAIN name_map = 1 .. Len(name_map)
  BY DEF LexTypeOK
<1>2. ASSUME NEW i \in DOMAIN name_map
      PROVE  /\ flip_name_map[i] = name_map[i].sval
             /\ flip_name_map[i] \in STRING
  <2>1. i \in Nat
    BY <1>1
  <2>2. EntriesWith(i - 1) = {i}
    BY <1>1, <2>1 DEF EntriesWith, Numbered
  <2>3. (CHOOSE jdx \in EntriesWith(i - 1) :
           \A kdx \in EntriesWith(i - 1) : jdx <= kdx) = i
    BY <2>1, <2>2
  <2>4. flip_name_map[i] = name_map[i].sval
    BY <2>3 DEF flip_name_map
  <2>5. name_map[i] \in StringIntPair
    BY <1>1
  <2>6. name_map[i].sval \in STRING
    BY <2>5 DEF StringIntPair
  <2> QED
    BY <2>4, <2>6
<1>3. DOMAIN flip_name_map = 1 .. Len(name_map)
  BY <1>1 DEF flip_name_map
<1>4. Len(name_map) \in Nat
  BY <1>1
<1>5. \A i \in 1 .. Len(name_map) : flip_name_map[i] \in STRING
  BY <1>1, <1>2
<1>6. flip_name_map \in [1 .. Len(name_map) -> STRING]
  BY <1>3, <1>5 DEF flip_name_map
<1>7. flip_name_map \in Seq(STRING)
  BY <1>4, <1>6
<1> QED
  BY <1>1, <1>2, <1>3, <1>7

----------------------------------------------------------------------------
LEMMA LexInitInv == LexInit => LexInv
BY SourcesAssumption
   DEF LexInit, LexInv, LexTypeOK, Numbered, NoNameTwice, TokensNamed, Flipped, InSource,
       Lexed, NoResult, LexerResult, Token, StringIntPair

(* A step that appends a token for the next word, and leaves the name map
   alone, keeps the invariant if the token is right. *)
LEMMA TokenAppended ==
  ASSUME LexInv, ~Lexed, ~AtEnd, NEW ty \in TokenType, NEW number \in Int,
         MakeToken(ty, number),
         ty = "Name" => /\ number + 1 \in DOMAIN name_map
                        /\ name_map[number + 1].sval = NextWord,
         UNCHANGED <<source, lexer_result, name_map, next_int_name>>
  PROVE  LexInv'
<1>1. NextWord \in STRING /\ Len(tokens) + 1 \in DOMAIN source
  BY NextWordType DEF LexInv
<1> DEFINE token == Token_init(ty, NextWord, number)
<1>2. token \in Token /\ token.type = ty /\ token.name = number
  BY <1>1 DEF Token, Token_init
<1>3. tokens' = Append(tokens, token)
  BY DEF MakeToken
<1> HIDE DEF token
<1>4. tokens \in Seq(Token)
  BY DEF LexInv, LexTypeOK
<1>5. LexTypeOK'
  BY <1>2, <1>3, <1>4 DEF LexInv, LexTypeOK
<1>6. Numbered' /\ NoNameTwice' /\ Flipped'
  BY DEF LexInv, Numbered, NoNameTwice, Flipped, Lexed
<1>7. InSource'
  BY <1>1, <1>3, <1>4 DEF LexInv, LexTypeOK, InSource, Lexed
<1>8. TokensNamed'
  <2> SUFFICES ASSUME NEW k \in DOMAIN tokens', tokens'[k].type = "Name"
               PROVE  /\ tokens'[k].name + 1 \in DOMAIN name_map
                      /\ name_map[tokens'[k].name + 1].sval = source[k]
    BY DEF TokensNamed
  <2>1. CASE k \in DOMAIN tokens
    BY <1>3, <1>4, <2>1 DEF LexInv, TokensNamed
  <2>2. CASE k = Len(tokens) + 1
    BY <1>2, <1>3, <1>4, <2>2 DEF NextWord
  <2> QED
    BY <1>3, <1>4, <2>1, <2>2
<1> QED
  BY <1>5, <1>6, <1>7, <1>8 DEF LexInv

LEMMA KnownNameInv == ASSUME LexInv, ReadKnownName PROVE LexInv'
<1>1. /\ FirstEntry(NextWord) \in DOMAIN name_map
      /\ name_map[FirstEntry(NextWord)].sval = NextWord
  BY FirstEntryFound DEF LexInv, ReadKnownName
<1> DEFINE number == name_map[FirstEntry(NextWord)].ival
<1>2. number = FirstEntry(NextWord) - 1 /\ FirstEntry(NextWord) \in Int
  BY <1>1 DEF LexInv, LexTypeOK, Numbered
<1>3. number \in Int /\ number + 1 = FirstEntry(NextWord)
  BY <1>2
<1>4. /\ ~Lexed /\ ~AtEnd /\ MakeToken("Name", number)
      /\ UNCHANGED <<source, lexer_result, name_map, next_int_name>>
  BY DEF ReadKnownName, Reading
<1> HIDE DEF number
<1> QED
  BY <1>1, <1>3, <1>4, TokenAppended DEF TokenType

LEMMA NewNameInv == ASSUME LexInv, ReadNewName PROVE LexInv'
<1> DEFINE pair == [sval |-> NextWord, ival |-> next_int_name]
           token == Token_init("Name", NextWord, next_int_name)
<1>1. /\ ~Lexed /\ ~AtEnd
      /\ EntriesFor(NextWord) = {}
      /\ tokens' = Append(tokens, token)
      /\ name_map' = Append(name_map, pair)
      /\ next_int_name' = next_int_name + 1
      /\ source' = source /\ lexer_result' = lexer_result
  BY DEF ReadNewName, Reading, MakeToken
<1>2. NextWord \in STRING /\ Len(tokens) + 1 \in DOMAIN source
  BY <1>1, NextWordType DEF LexInv
<1>3. /\ tokens \in Seq(Token) /\ name_map \in Seq(StringIntPair)
      /\ next_int_name \in Nat /\ next_int_name = Len(name_map)
  BY DEF LexInv, LexTypeOK, Numbered
<1>4. pair \in StringIntPair /\ pair.sval = NextWord /\ pair.ival = Len(name_map)
  BY <1>2, <1>3 DEF StringIntPair
<1>5. token \in Token /\ token.type = "Name" /\ token.name = Len(name_map)
  BY <1>2, <1>3 DEF Token, Token_init, TokenType
<1> HIDE DEF pair, token
<1>6. /\ DOMAIN name_map' = 1 .. Len(name_map) + 1
      /\ Len(name_map') = Len(name_map) + 1
      /\ name_map'[Len(name_map) + 1] = pair
      /\ \A i \in DOMAIN name_map : i \in DOMAIN name_map' /\ name_map'[i] = name_map[i]
      /\ DOMAIN name_map = 1 .. Len(name_map) /\ Len(name_map) \in Nat
  BY <1>1, <1>3
<1>7. LexTypeOK'
  BY <1>1, <1>3, <1>4, <1>5 DEF LexInv, LexTypeOK
<1>8. Numbered'
  <2> SUFFICES ASSUME NEW i \in DOMAIN name_map'
               PROVE  name_map'[i].ival = i - 1
    BY <1>1, <1>3, <1>6 DEF Numbered
  <2>1. CASE i \in DOMAIN name_map
    BY <1>6, <2>1 DEF LexInv, Numbered
  <2>2. CASE i = Len(name_map) + 1
    BY <1>4, <1>6, <2>2
  <2> QED
    BY <1>6, <2>1, <2>2
<1>9. NoNameTwice'
  <2>1. \A i \in DOMAIN name_map : name_map[i].sval # NextWord
    BY <1>1 DEF EntriesFor
  <2>2. \A i \in DOMAIN name_map' : i \in DOMAIN name_map \/ i = Len(name_map) + 1
    BY <1>6
  <2> QED
    BY <1>4, <1>6, <2>1, <2>2 DEF LexInv, NoNameTwice
<1>10. TokensNamed'
  <2> SUFFICES ASSUME NEW k \in DOMAIN tokens', tokens'[k].type = "Name"
               PROVE  /\ tokens'[k].name + 1 \in DOMAIN name_map'
                      /\ name_map'[tokens'[k].name + 1].sval = source[k]
    BY <1>1 DEF TokensNamed
  <2>1. CASE k \in DOMAIN tokens
    <3>1. tokens'[k] = tokens[k]
      BY <1>1, <1>3, <2>1
    <3> QED
      BY <1>6, <2>1, <3>1 DEF LexInv, TokensNamed
  <2>2. CASE k = Len(tokens) + 1
    <3>1. tokens'[k] = token
      BY <1>1, <1>3, <2>2
    <3> QED
      BY <1>4, <1>5, <1>6, <2>2, <3>1 DEF NextWord
  <2> QED
    BY <1>1, <1>3, <2>1, <2>2
<1>11. Flipped'
  BY <1>1 DEF Flipped, Lexed
<1>12. InSource'
  BY <1>1, <1>2, <1>3 DEF LexInv, LexTypeOK, InSource, Lexed
<1> QED
  BY <1>7, <1>8, <1>9, <1>10, <1>11, <1>12 DEF LexInv

LEMMA OtherWordInv ==
  ASSUME LexInv, ReadInt \/ ReadKeyword \/ ReadUnknown
  PROVE  LexInv'
<1>1. CASE ReadInt
  <2>1. /\ ~Lexed /\ ~AtEnd /\ MakeToken("Int", atoi(Literals[NextWord]))
        /\ UNCHANGED <<source, lexer_result, name_map, next_int_name>>
    BY <1>1 DEF ReadInt, Reading
  <2>2. NextWord \in DOMAIN Literals
    BY <1>1 DEF ReadInt, Reading
  <2>3. atoi(Literals[NextWord]) \in Int
    BY <2>2, AtoiType, LiteralsAssumption
  <2> QED
    BY <2>1, <2>3, TokenAppended DEF TokenType
<1>2. CASE ReadKeyword
  <2>1. /\ ~Lexed /\ ~AtEnd /\ MakeToken(Keyword[NextWord], -1)
        /\ UNCHANGED <<source, lexer_result, name_map, next_int_name>>
    BY <1>2 DEF ReadKeyword, Reading
  <2>2. NextWord \in DOMAIN Keyword
    BY <1>2 DEF ReadKeyword, Reading
  <2>3. Keyword[NextWord] \in TokenType \ {"Name"}
    BY <2>2 DEF Keyword, TokenType
  <2> QED
    BY <2>1, <2>3, TokenAppended
<1>3. CASE ReadUnknown
  <2>1. /\ ~Lexed /\ ~AtEnd /\ MakeToken("error", -1)
        /\ UNCHANGED <<source, lexer_result, name_map, next_int_name>>
    BY <1>3 DEF ReadUnknown, Reading
  <2> QED
    BY <2>1, TokenAppended DEF TokenType
<1> QED
  BY <1>1, <1>2, <1>3

LEMMA EndInv == ASSUME LexInv, ReadEnd PROVE LexInv'
<1> DEFINE eof == Token_init("endOfInput", "EOF", -1)
<1>1. /\ tokens' = Append(tokens, eof)
      /\ lexer_result' = [tokens |-> Append(tokens, eof), name_map |-> flip_name_map]
      /\ UNCHANGED <<source, name_map, next_int_name>>
  BY DEF ReadEnd
<1>2. eof \in Token /\ eof.type = "endOfInput"
  BY DEF Token, Token_init, TokenType
<1> HIDE DEF eof
<1>3. tokens \in Seq(Token)
  BY DEF LexInv, LexTypeOK
<1>4. Append(tokens, eof) \in Seq(Token) /\ Append(tokens, eof) # <<>>
  <2>1. Append(tokens, eof) \in Seq(Token)
    BY <1>2, <1>3
  <2>2. Len(Append(tokens, eof)) = Len(tokens) + 1 /\ Len(tokens) \in Nat
    BY <1>3
  <2>3. Len(Append(tokens, eof)) # Len(<<>>)
    BY <2>2
  <2> QED
    BY <2>1, <2>3
<1>5. /\ flip_name_map \in Seq(STRING)
      /\ DOMAIN flip_name_map = DOMAIN name_map
      /\ \A i \in DOMAIN name_map : flip_name_map[i] = name_map[i].sval
  BY FlipKeepsOrder DEF LexInv
<1>6. LexTypeOK'
  BY <1>1, <1>4, <1>5 DEF LexInv, LexTypeOK, LexerResult
<1>7. Numbered' /\ NoNameTwice'
  BY <1>1 DEF LexInv, Numbered, NoNameTwice
<1>8. TokensNamed'
  BY <1>1, <1>2, <1>3 DEF LexInv, TokensNamed
<1>9. Lexed' /\ Flipped' /\ InSource'
  BY <1>1, <1>4, <1>5 DEF Lexed, Flipped, InSource
<1> QED
  BY <1>6, <1>7, <1>8, <1>9 DEF LexInv

LEMMA LexNextInv == LexInv /\ [LexNext]_lexerVars => LexInv'
<1> SUFFICES ASSUME LexInv, [LexNext]_lexerVars
             PROVE  LexInv'
  OBVIOUS
<1>1. CASE UNCHANGED lexerVars
  BY <1>1 DEF lexerVars, LexInv, LexTypeOK, Numbered, NoNameTwice, TokensNamed, Flipped,
              InSource, Lexed
<1>2. CASE LexNext
  BY <1>2, KnownNameInv, NewNameInv, OtherWordInv, EndInv DEF LexNext
<1> QED
  BY <1>1, <1>2

(* The invariant holds throughout. *)
LEMMA LexInvariant == LexSpec => []LexInv
BY LexInitInv, LexNextInv, PTL DEF LexSpec

----------------------------------------------------------------------------
(* The lexer's state keeps its types, for every source (LexTypeOK): what it
   hands to the parser is a sequence of tokens and a map of strings. *)
THEOREM LexTypeCorrect == LexSpec => []LexTypeOK
<1>1. LexInv => LexTypeOK
  BY DEF LexInv
<1> QED
  BY <1>1, LexInvariant, PTL

(* The search of flip_name_map finds every number it looks for, and never
   reads the map behind its end (CanFlip). *)
THEOREM FlipFindsEveryNumber == LexSpec => []CanFlip
<1>1. ASSUME LexInv PROVE CanFlip
  <2> SUFFICES ASSUME NEW number \in 0 .. Len(name_map) - 1
               PROVE  EntriesWith(number) # {}
    BY DEF CanFlip
  <2>1. Len(name_map) \in Nat /\ DOMAIN name_map = 1 .. Len(name_map)
    BY <1>1 DEF LexInv, LexTypeOK
  <2>2. number + 1 \in DOMAIN name_map /\ (number + 1) - 1 = number
    BY <2>1
  <2>3. name_map[number + 1].ival = number
    BY <1>1, <2>2 DEF LexInv, Numbered
  <2> QED
    BY <2>2, <2>3 DEF EntriesWith
<1> QED
  BY <1>1, LexInvariant, PTL

(* Equal names get equal numbers, different names different ones, and the
   flipped map takes each number back to its name (lease_int_name,
   flip_name_map), for every source. *)
THEOREM NamesKeepTheirNumbers == LexSpec => []NamesAreTheirNumbers
<1>1. LexInv => NamesAreTheirNumbers
  <2> SUFFICES ASSUME LexInv, NEW k \in DOMAIN tokens, tokens[k].type = "Name"
               PROVE  /\ \A l \in DOMAIN tokens :
                           tokens[l].type = "Name" =>
                             (tokens[k].name = tokens[l].name <=> source[k] = source[l])
                      /\ Lexed => /\ tokens[k].name + 1 \in DOMAIN lexer_result.name_map
                                  /\ lexer_result.name_map[tokens[k].name + 1] = source[k]
    BY DEF NamesAreTheirNumbers
  <2>1. ASSUME NEW l \in DOMAIN tokens PROVE tokens[l].name \in Int
    <3>1. tokens[l] \in Token
      BY DEF LexInv, LexTypeOK
    <3> QED
      BY <3>1 DEF Token
  <2>2. /\ tokens[k].name + 1 \in DOMAIN name_map
        /\ name_map[tokens[k].name + 1].sval = source[k]
    BY DEF LexInv, TokensNamed
  <2>3. ASSUME NEW l \in DOMAIN tokens, tokens[l].type = "Name"
        PROVE  tokens[k].name = tokens[l].name <=> source[k] = source[l]
    <3>1. /\ tokens[l].name + 1 \in DOMAIN name_map
          /\ name_map[tokens[l].name + 1].sval = source[l]
      BY <2>3 DEF LexInv, TokensNamed
    <3>2. source[k] = source[l] => tokens[k].name + 1 = tokens[l].name + 1
      BY <2>2, <3>1 DEF LexInv, NoNameTwice
    <3> QED
      BY <2>1, <2>2, <3>1, <3>2
  <2> QED
    BY <2>2, <2>3 DEF LexInv, Flipped
<1> QED
  BY <1>1, LexInvariant, PTL

(***************************************************************************)
(* Part 2: name maps.  Leased is defined by a recursive function, which    *)
(* RecursionHasSolution unfolds.                                           *)
(***************************************************************************)
(* A set of numbers has a least one. *)
LEMMA LeastNumber ==
  ASSUME NEW T, T # {}, T \subseteq Nat
  PROVE  \E x \in T : \A y \in T : x <= y
<1>1. PICK x \in T : \A y \in T : ~(<<y, x>> \in OpToRel(<, Nat))
  BY NatLessThanWellFounded, WFMin
<1>2. \A y \in T : ~(y < x)
  BY <1>1 DEF OpToRel
<1> QED
  BY <1>2

(* One name after the other. *)
Added(map, names, i) ==
  IF names[i] \in KnownBefore(map, names, i) THEN <<>> ELSE <<names[i]>>

LeasingOf(f, map, names) ==
  /\ f[0] = map
  /\ \A i \in 1 .. Len(names) : f[i] = f[i - 1] \o Added(map, names, i)

(* The function by which Leased is defined goes on as its recursion says. *)
LEMMA LeasedGoesOn ==
  ASSUME NEW map \in Seq(Int), NEW names \in Seq(Int)
  PROVE  \E f : LeasingOf(f, map, names) /\ Leased(map, names) = f[Len(names)]
<1> DEFINE n == Len(names)
           V == Seq(Int)
           step == [i \in 1 .. n |-> [v \in V |-> v \o Added(map, names, i)]]
           Is(f) == f = [i \in 0 .. n |-> IF i = 0 THEN map
                                          ELSE f[i - 1] \o Added(map, names, i)]
           upto == CHOOSE f : Is(f)
<1>1. n \in Nat /\ \A i \in 1 .. n : names[i] \in Int
  OBVIOUS
<1>2. Leased(map, names) = upto[n]
  BY DEF Leased, Added
<1> HIDE DEF n
<1>3. step \in Steps(V, n)
  <2>1. ASSUME NEW i \in 1 .. n, NEW v \in V
        PROVE  v \o Added(map, names, i) \in V
    <3>1. Added(map, names, i) \in Seq(Int)
      BY <1>1 DEF Added
    <3> QED
      BY <3>1
  <2> HIDE DEF V
  <2>2. \A i \in 1 .. n : [v \in V |-> v \o Added(map, names, i)] \in [V -> V]
    BY <2>1
  <2> QED
    BY <2>2 DEF Steps
<1>4. PICK f \in [0 .. n -> V] : Solves(f, map, step, n)
  <2> HIDE DEF step, V
  <2>1. map \in V
    BY DEF V
  <2> QED
    BY <1>1, <1>3, <2>1, RecursionHasSolution
<1>5. ASSUME NEW i \in 1 .. n
      PROVE  step[i][f[i - 1]] = f[i - 1] \o Added(map, names, i)
  <2>1. i - 1 \in 0 .. n
    BY <1>1
  <2>2. f[i - 1] \in V
    BY <2>1
  <2> HIDE DEF V
  <2> QED
    BY <2>2
<1>6. Is(f)
  <2> HIDE DEF step, V
  <2>1. f[0] = map
    BY <1>4 DEF Solves
  <2>2. ASSUME NEW i \in 1 .. n
        PROVE  f[i] = f[i - 1] \o Added(map, names, i)
    BY <1>4, <1>5, <2>2 DEF Solves
  <2>3. \A i \in 0 .. n :
          f[i] = IF i = 0 THEN map ELSE f[i - 1] \o Added(map, names, i)
    <3> SUFFICES ASSUME NEW i \in 0 .. n, i # 0
                 PROVE  f[i] = f[i - 1] \o Added(map, names, i)
      BY <2>1
    <3>1. i \in 1 .. n
      BY <1>1
    <3> QED
      BY <2>2, <3>1
  <2> QED
    BY <2>3
<1>7. Is(upto)
  <2> HIDE DEF Is
  <2> QED
    BY <1>6
<1> HIDE DEF upto
<1>8. LeasingOf(upto, map, names)
  <2>1. upto[0] = map
    BY <1>1, <1>7
  <2>2. ASSUME NEW i \in 1 .. n
        PROVE  upto[i] = upto[i - 1] \o Added(map, names, i)
    <3>1. i \in 0 .. n /\ i # 0
      BY <1>1
    <3> QED
      BY <1>7, <3>1
  <2> QED
    BY <2>1, <2>2 DEF LeasingOf, n
<1> QED
  BY <1>2, <1>8 DEF n

(* What a name map is: names that have been added to those it began with, each once. *)
Extends(longer, map, new) ==
  /\ longer \in Seq(Int)
  /\ Len(map) <= Len(longer)
  /\ \A k \in 1 .. Len(map) : longer[k] = map[k]
  /\ \A k, l \in DOMAIN longer : k < l /\ longer[k] = longer[l] => l <= Len(map)
  /\ Range(longer) = Range(map) \cup new

(* A name that is not in a map yet is put at its end. *)
LEMMA ExtendsByOne ==
  ASSUME NEW map \in Seq(Int), NEW longer, NEW new, Extends(longer, map, new),
         NEW name \in Int
  PROVE  IF name \in Range(map) \cup new
           THEN Extends(longer, map, new \cup {name})
           ELSE Extends(Append(longer, name), map, new \cup {name})
<1>1. CASE name \in Range(map) \cup new
  BY <1>1 DEF Extends
<1>2. CASE name \notin Range(map) \cup new
  <2> DEFINE s == Append(longer, name)
  <2>1. longer \in Seq(Int) /\ Len(longer) \in Nat /\ Len(map) \in Nat
    BY DEF Extends
  <2>2. /\ s \in Seq(Int)
        /\ Len(s) = Len(longer) + 1
        /\ \A k \in 1 .. Len(longer) : s[k] = longer[k]
        /\ s[Len(longer) + 1] = name
        /\ DOMAIN s = 1 .. Len(longer) + 1
        /\ DOMAIN longer = 1 .. Len(longer)
    BY <2>1
  <2> HIDE DEF s
  <2>3. \A k \in 1 .. Len(longer) : longer[k] # name
    BY <1>2, <2>2 DEF Extends, Range
  <2>4. \A k, l \in DOMAIN s : k < l /\ s[k] = s[l] => l <= Len(map)
    <3> SUFFICES ASSUME NEW k \in 1 .. Len(longer) + 1, NEW l \in 1 .. Len(longer) + 1,
                        k < l, s[k] = s[l]
                 PROVE  l <= Len(map)
      BY <2>2
    <3>1. k \in 1 .. Len(longer)
      BY <2>1
    <3>2. l # Len(longer) + 1
      BY <2>2, <2>3, <3>1
    <3>3. l \in 1 .. Len(longer)
      BY <2>1, <3>2
    <3>4. longer[k] = longer[l]
      BY <2>2, <3>1, <3>3
    <3>5. k \in DOMAIN longer /\ l \in DOMAIN longer
      BY <2>2, <3>1, <3>3
    <3> QED
      BY <3>4, <3>5 DEF Extends
  <2>5. Range(s) = Range(map) \cup (new \cup {name})
    <3>1. \A k \in DOMAIN longer : k \in DOMAIN s /\ s[k] = longer[k]
      BY <2>1, <2>2
    <3>2. Len(longer) + 1 \in DOMAIN s
      BY <2>1, <2>2
    <3>3. \A k \in DOMAIN s : k \in DOMAIN longer \/ k = Len(longer) + 1
      BY <2>1, <2>2
    <3>4. Range(s) = Range(longer) \cup {name}
      BY <2>2, <3>1, <3>2, <3>3, Zenon DEF Range
    <3> QED
      BY <3>4 DEF Extends
  <2> QED
    BY <1>2, <2>1, <2>2, <2>4, <2>5 DEF Extends, s
<1> QED
  BY <1>1, <1>2

(* After i names the map has been extended by them; ... *)
LEMMA LeasedSoFar ==
  ASSUME NEW map \in Seq(Int), NEW names \in Seq(Int),
         NEW f, LeasingOf(f, map, names), NEW i \in 0 .. Len(names)
  PROVE  Extends(f[i], map, {names[j] : j \in 1 .. i})
<1> DEFINE n == Len(names)
           seen(k) == {names[j] : j \in 1 .. k}
           S == {k \in Nat : k <= n => Extends(f[k], map, seen(k))}
<1>1. n \in Nat /\ (\A k \in 1 .. n : names[k] \in Int)
  OBVIOUS
<1>0. \A k, l \in DOMAIN map : k < l => l <= Len(map)
  OBVIOUS
<1>2. 0 \in S
  <2>1. f[0] = map /\ seen(0) = {}
    BY DEF LeasingOf
  <2> QED
    BY <1>0, <2>1 DEF Extends
<1>3. ASSUME NEW k \in Nat, k \in S
      PROVE  k + 1 \in S
  <2>1. SUFFICES ASSUME k + 1 <= n PROVE Extends(f[k + 1], map, seen(k + 1))
    OBVIOUS
  <2> DEFINE name == names[k + 1]
  <2>2. Extends(f[k], map, seen(k)) /\ name \in Int
    BY <1>1, <1>3, <2>1
  <2>3. seen(k + 1) = seen(k) \cup {name}
    OBVIOUS
  <2>4. KnownBefore(map, names, k + 1) = Range(map) \cup seen(k)
    BY DEF KnownBefore
  <2>5. f[k + 1] = f[k] \o Added(map, names, k + 1)
    <3>1. k + 1 \in 1 .. Len(names) /\ (k + 1) - 1 = k
      BY <1>1, <2>1
    <3> QED
      BY <3>1 DEF LeasingOf
  <2>6. f[k] \in Seq(Int)
    BY <2>2 DEF Extends
  <2> HIDE DEF name
  <2>7. f[k] \o <<>> = f[k] /\ f[k] \o <<name>> = Append(f[k], name)
    BY <2>2, <2>6
  <2>8. f[k + 1] = IF name \in Range(map) \cup seen(k) THEN f[k] ELSE Append(f[k], name)
    BY <2>4, <2>5, <2>7 DEF Added, name
  <2> HIDE DEF seen
  <2>9. IF name \in Range(map) \cup seen(k)
          THEN Extends(f[k], map, seen(k) \cup {name})
          ELSE Extends(Append(f[k], name), map, seen(k) \cup {name})
    BY <2>2, ExtendsByOne
  <2> QED
    BY <2>3, <2>8, <2>9
<1>4. Nat \subseteq S
  <2> HIDE DEF S
  <2> QED
    BY <1>2, <1>3, SetInduction
<1>5. i \in Nat /\ i <= n
  BY <1>1
<1> QED
  BY <1>4, <1>5

(* What lease_name leaves of a map: the map, and behind it the other names, each once. *)
LEMMA LeasedExtends ==
  ASSUME NEW map \in Seq(Int), NEW names \in Seq(Int)
  PROVE  Extends(Leased(map, names), map, Range(names))
<1>1. PICK f : LeasingOf(f, map, names) /\ Leased(map, names) = f[Len(names)]
  BY LeasedGoesOn
<1>2. Len(names) \in 0 .. Len(names)
  OBVIOUS
<1>3. Extends(f[Len(names)], map, {names[j] : j \in 1 .. Len(names)})
  BY <1>1, <1>2, LeasedSoFar
<1>4. Range(names) = {names[j] : j \in 1 .. Len(names)}
  <2>1. DOMAIN names = 1 .. Len(names)
    OBVIOUS
  <2> QED
    BY <2>1 DEF Range
<1> QED
  BY <1>1, <1>3, <1>4

(* If the first names differ, they have the first places of a new map. *)
LEMMA FirstNamesFirst ==
  ASSUME NEW names \in Seq(Int), NEW m \in 0 .. Len(names),
         \A i, j \in 1 .. m : names[i] = names[j] => i = j
  PROVE  /\ m <= Len(Leased(<<>>, names))
         /\ \A i \in 1 .. m : Leased(<<>>, names)[i] = names[i]
<1> DEFINE n == Len(names)
<1>1. n \in Nat /\ m \in Nat /\ m <= n /\ \A k \in 1 .. n : names[k] \in Int
  OBVIOUS
<1>0. <<>> \in Seq(Int)
  OBVIOUS
<1>2. PICK f : LeasingOf(f, <<>>, names) /\ Leased(<<>>, names) = f[n]
  BY <1>0, LeasedGoesOn
<1> DEFINE First(k) == /\ k <= m => Len(f[k]) = k
                       /\ m <= k => m <= Len(f[k])
                       /\ \A i \in 1 .. m : i <= k => f[k][i] = names[i]
           S == {k \in Nat : k <= n => First(k)}
<1>3. 0 \in S
  <2>1. f[0] = <<>>
    BY <1>2 DEF LeasingOf
  <2> QED
    BY <1>1, <2>1
<1>4. ASSUME NEW k \in Nat, k \in S
      PROVE  k + 1 \in S
  <2>1. SUFFICES ASSUME k + 1 <= n PROVE First(k + 1)
    OBVIOUS
  <2>2. First(k)
    BY <1>1, <1>4, <2>1
  <2>3. k + 1 \in 1 .. n /\ (k + 1) - 1 = k
    BY <1>1, <2>1
  <2>4. f[k + 1] = f[k] \o Added(<<>>, names, k + 1)
    BY <1>2, <2>3 DEF LeasingOf
  <2>5. f[k] \in Seq(Int) /\ Len(f[k]) \in Nat
    <3>1. k \in 0 .. Len(names)
      BY <1>1, <2>1
    <3>2. Extends(f[k], <<>>, {names[j] : j \in 1 .. k})
      BY <1>0, <1>2, <3>1, LeasedSoFar
    <3> QED
      BY <3>2 DEF Extends
  <2>6. Added(<<>>, names, k + 1) \in {<<>>, <<names[k + 1]>>}
    BY DEF Added
  <2>7. \/ f[k + 1] = f[k] /\ Added(<<>>, names, k + 1) = <<>>
        \/ f[k + 1] = Append(f[k], names[k + 1])
    <3> DEFINE name == names[k + 1]
    <3>1. name \in Int
      BY <1>1, <2>3
    <3> HIDE DEF name
    <3>2. f[k] \o <<>> = f[k] /\ f[k] \o <<name>> = Append(f[k], name)
      BY <2>5, <3>1
    <3> QED
      BY <2>4, <2>6, <3>2 DEF name
  <2>8. \A i \in 1 .. Len(f[k]) : f[k + 1][i] = f[k][i]
    <3>1. names[k + 1] \in Int
      BY <1>1, <2>3
    <3>2. \A i \in 1 .. Len(f[k]) : Append(f[k], names[k + 1])[i] = f[k][i]
      BY <2>5, <3>1
    <3> QED
      BY <2>7, <3>2
  <2>9. ASSUME k + 1 <= m
        PROVE  f[k + 1] = Append(f[k], names[k + 1])
    <3>1. names[k + 1] \notin {names[j] : j \in 1 .. (k + 1) - 1}
      BY <1>1, <2>3, <2>9
    <3>2. Range(<<>>) = {}
      BY DEF Range
    <3>3. Added(<<>>, names, k + 1) = <<names[k + 1]>>
      BY <3>1, <3>2 DEF Added, KnownBefore
    <3>4. <<names[k + 1]>> # <<>>
      OBVIOUS
    <3> QED
      BY <2>7, <3>3, <3>4
  <2>10. CASE k + 1 <= m
    <3>1. f[k + 1] = Append(f[k], names[k + 1]) /\ Len(f[k]) = k
      BY <1>1, <2>2, <2>9, <2>10
    <3>2. Len(f[k + 1]) = k + 1 /\ f[k + 1][k + 1] = names[k + 1]
      BY <1>1, <2>3, <2>5, <3>1
    <3>3. ASSUME NEW i \in 1 .. m, i <= k + 1
          PROVE  f[k + 1][i] = names[i]
      <4>1. CASE i = k + 1
        BY <3>2, <4>1
      <4>2. CASE i # k + 1
        <5>1. i <= k /\ i \in 1 .. Len(f[k])
          BY <1>1, <3>1, <3>3, <4>2
        <5> QED
          BY <2>2, <2>8, <5>1
      <4> QED
        BY <4>1, <4>2
    <3> QED
      BY <1>1, <2>10, <3>2, <3>3
  <2>11. CASE ~(k + 1 <= m)
    <3>1. m <= k /\ m <= Len(f[k])
      BY <1>1, <2>2, <2>11
    <3>2. Len(f[k + 1]) >= Len(f[k]) /\ Len(f[k + 1]) \in Nat
      BY <1>1, <2>3, <2>5, <2>7
    <3>3. \A i \in 1 .. m : f[k + 1][i] = names[i]
      <4> SUFFICES ASSUME NEW i \in 1 .. m PROVE f[k + 1][i] = names[i]
        OBVIOUS
      <4>1. i <= k /\ i \in 1 .. Len(f[k])
        BY <1>1, <2>5, <3>1
      <4> QED
        BY <2>2, <2>8, <4>1
    <3> QED
      BY <1>1, <2>5, <2>11, <3>1, <3>2, <3>3
  <2> QED
    BY <2>10, <2>11
<1>5. Nat \subseteq S
  <2> HIDE DEF S
  <2> QED
    BY <1>3, <1>4, SetInduction
<1> HIDE DEF First
<1>6. First(n)
  BY <1>1, <1>5
<1> QED
  BY <1>1, <1>2, <1>6 DEF First

(* The search of lease_name finds a name that is in the map, and stays in the map. *)
LEMMA LeaseNameFound ==
  ASSUME NEW map \in Seq(Int), NEW name \in Range(map)
  PROVE  /\ lease_name(map, name) \in 0 .. Len(map) - 1
         /\ map[lease_name(map, name) + 1] = name
<1> DEFINE S == {i \in DOMAIN map : map[i] = name}
           Is(i) == i \in DOMAIN map /\ map[i] = name
                      /\ \A j \in DOMAIN map : map[j] = name => i <= j
<1>1. S # {} /\ S \subseteq Nat
  BY DEF Range
<1>2. PICK i \in S : \A j \in S : i <= j
  <2> HIDE DEF S
  <2> QED
    BY <1>1, LeastNumber
<1>3. Is(i)
  BY <1>2
<1> DEFINE first == CHOOSE k \in DOMAIN map :
                      map[k] = name /\ \A j \in DOMAIN map : map[j] = name => k <= j
<1>4. first \in 1 .. Len(map) /\ map[first] = name
  BY <1>3
<1>5. lease_name(map, name) = first - 1
  BY DEF lease_name
<1> HIDE DEF first
<1>6. Len(map) \in Nat
  OBVIOUS
<1> QED
  BY <1>4, <1>5, <1>6

(* In a map without repetitions a name has one place. *)
LEMMA LeaseNameIs ==
  ASSUME NEW map \in Seq(Int), NEW i \in DOMAIN map,
         \A j \in DOMAIN map : map[j] = map[i] => j = i
  PROVE  lease_name(map, map[i]) = i - 1
<1>1. map[i] \in Range(map)
  BY DEF Range
<1> DEFINE l == lease_name(map, map[i])
<1>2. l \in 0 .. Len(map) - 1 /\ map[l + 1] = map[i]
  BY <1>1, LeaseNameFound
<1> HIDE DEF l
<1>3. l + 1 = i
  BY <1>2
<1>4. l = i - 1
  BY <1>2, <1>3
<1> QED
  BY <1>4 DEF l

(* Leasing goes from one name to the next (the loop over the functions and the walks
   of parser.y): each is looked up in the map that the names before it have left. *)
THEOREM LeasedOneByOne ==
  ASSUME NEW map \in Seq(Int), NEW names \in Seq(Int), NEW name \in Int
  PROVE  Leased(map, Append(names, name))
           = IF name \in Range(Leased(map, names)) THEN Leased(map, names)
             ELSE Append(Leased(map, names), name)
<1> DEFINE n == Len(names)
           more == Append(names, name)
<1>1. /\ n \in Nat /\ more \in Seq(Int) /\ Len(more) = n + 1
      /\ more[n + 1] = name /\ \A k \in 1 .. n : more[k] = names[k]
  OBVIOUS
<1> HIDE DEF more, n
<1>2. PICK f : LeasingOf(f, map, names) /\ Leased(map, names) = f[n]
  BY LeasedGoesOn DEF n
<1>3. PICK g : LeasingOf(g, map, more) /\ Leased(map, more) = g[n + 1]
  BY <1>1, LeasedGoesOn
<1>4. ASSUME NEW k \in 1 .. n
      PROVE  KnownBefore(map, more, k) = KnownBefore(map, names, k)
  <2>1. \A j \in 1 .. k - 1 : more[j] = names[j]
    BY <1>1
  <2>2. {more[j] : j \in 1 .. k - 1} = {names[j] : j \in 1 .. k - 1}
    BY <2>1
  <2> QED
    BY <2>2 DEF KnownBefore
<1>5. ASSUME NEW k \in 1 .. n
      PROVE  Added(map, more, k) = Added(map, names, k)
  BY <1>1, <1>4 DEF Added
<1> DEFINE S == {k \in Nat : k <= n => f[k] = g[k]}
<1>6. 0 \in S
  BY <1>2, <1>3 DEF LeasingOf
<1>7. ASSUME NEW k \in Nat, k \in S
      PROVE  k + 1 \in S
  <2>1. SUFFICES ASSUME k + 1 <= n PROVE f[k + 1] = g[k + 1]
    OBVIOUS
  <2>2. /\ k + 1 \in 1 .. n /\ k + 1 \in 1 .. n + 1 /\ (k + 1) - 1 = k
        /\ f[k] = g[k]
    BY <1>1, <1>7, <2>1
  <2>3. f[k + 1] = f[k] \o Added(map, names, k + 1)
    BY <1>2, <2>2 DEF LeasingOf, n
  <2>4. g[k + 1] = g[k] \o Added(map, more, k + 1)
    BY <1>1, <1>3, <2>2 DEF LeasingOf
  <2> QED
    BY <1>5, <2>2, <2>3, <2>4
<1>8. Nat \subseteq S
  <2> HIDE DEF S
  <2> QED
    BY <1>6, <1>7, SetInduction
<1>9. f[n] = g[n]
  BY <1>1, <1>8
<1>10. g[n + 1] = g[n] \o Added(map, more, n + 1)
  <2>1. n + 1 \in 1 .. n + 1 /\ (n + 1) - 1 = n
    BY <1>1
  <2> QED
    BY <1>1, <1>3, <2>1 DEF LeasingOf
<1>11. KnownBefore(map, more, n + 1) = Range(map) \cup Range(names)
  <2>1. {more[j] : j \in 1 .. (n + 1) - 1} = {names[j] : j \in 1 .. n}
    <3>1. (n + 1) - 1 = n /\ \A j \in 1 .. n : more[j] = names[j]
      BY <1>1
    <3> QED
      BY <3>1
  <2>2. DOMAIN names = 1 .. n
    BY DEF n
  <2> QED
    BY <2>1, <2>2 DEF KnownBefore, Range
<1>12. /\ Range(f[n]) = Range(map) \cup Range(names)
       /\ f[n] \in Seq(Int)
  BY <1>2, LeasedExtends DEF Extends
<1>13. f[n] \o <<>> = f[n] /\ f[n] \o <<name>> = Append(f[n], name)
  BY <1>12
<1>14. g[n + 1] = IF name \in Range(f[n]) THEN f[n] ELSE Append(f[n], name)
  BY <1>1, <1>9, <1>10, <1>11, <1>12, <1>13 DEF Added
<1> QED
  BY <1>2, <1>3, <1>14 DEF more

(* What is in two sequences, one after the other, is what is in one of them. *)
LEMMA RangeOfConcatenation ==
  ASSUME NEW s \in Seq(Int), NEW t \in Seq(Int)
  PROVE  s \o t \in Seq(Int) /\ Range(s \o t) = Range(s) \cup Range(t)
<1> DEFINE m == Len(s)
           n == Len(t)
           st == s \o t
<1>1. /\ m \in Nat /\ n \in Nat /\ st \in Seq(Int)
      /\ DOMAIN s = 1 .. m /\ DOMAIN t = 1 .. n /\ DOMAIN st = 1 .. m + n
      /\ \A i \in 1 .. m + n : st[i] = IF i <= m THEN s[i] ELSE t[i - m]
  OBVIOUS
<1> HIDE DEF m, n, st
<1>2. \A i \in 1 .. m + n : i \in 1 .. m \/ i - m \in 1 .. n
  BY <1>1
<1>3. \A i \in 1 .. m : i \in 1 .. m + n /\ i <= m
  BY <1>1
<1>4. \A i \in 1 .. n : m + i \in 1 .. m + n /\ ~(m + i <= m) /\ (m + i) - m = i
  BY <1>1
<1>5. \A i \in 1 .. m + n : ~(i <= m) => i - m \in 1 .. n
  BY <1>1
<1>6. \A i \in 1 .. m + n : i <= m => i \in 1 .. m
  BY <1>1
<1>7. Range(st) \subseteq Range(s) \cup Range(t)
  <2> SUFFICES ASSUME NEW i \in 1 .. m + n
               PROVE  st[i] \in Range(s) \cup Range(t)
    BY <1>1 DEF Range
  <2> QED
    BY <1>1, <1>5, <1>6 DEF Range
<1>8. Range(s) \subseteq Range(st)
  <2> SUFFICES ASSUME NEW i \in 1 .. m
               PROVE  s[i] \in Range(st)
    BY <1>1 DEF Range
  <2>1. st[i] = s[i] /\ i \in DOMAIN st
    BY <1>1, <1>3
  <2> QED
    BY <2>1 DEF Range
<1>9. Range(t) \subseteq Range(st)
  <2> SUFFICES ASSUME NEW i \in 1 .. n
               PROVE  t[i] \in Range(st)
    BY <1>1 DEF Range
  <2>1. st[m + i] = t[i] /\ m + i \in DOMAIN st
    BY <1>1, <1>4
  <2> QED
    BY <2>1 DEF Range
<1> QED
  BY <1>1, <1>7, <1>8, <1>9 DEF st

(* The parts of a sequence of sequences, one after the other, have what they had. *)
LEMMA ConcatenatedType ==
  ASSUME NEW seqs \in Seq(Seq(Int))
  PROVE  /\ Concatenated(seqs) \in Seq(Int)
         /\ Range(Concatenated(seqs)) = UNION {Range(seqs[i]) : i \in DOMAIN seqs}
<1> DEFINE n == Len(seqs)
           V == Seq(Int)
           step == [i \in 1 .. n |-> [v \in V |-> v \o seqs[i]]]
           Is(f) == f = [i \in 0 .. n |-> IF i = 0 THEN <<>> ELSE f[i - 1] \o seqs[i]]
           upto == CHOOSE f : Is(f)
<1>1. n \in Nat /\ (\A i \in 1 .. n : seqs[i] \in Seq(Int)) /\ DOMAIN seqs = 1 .. n
  OBVIOUS
<1>2. Concatenated(seqs) = upto[n]
  BY DEF Concatenated
<1> HIDE DEF n
<1>3. step \in Steps(V, n)
  <2>1. ASSUME NEW i \in 1 .. n, NEW v \in V
        PROVE  v \o seqs[i] \in V
    BY <1>1
  <2> HIDE DEF V
  <2>2. \A i \in 1 .. n : [v \in V |-> v \o seqs[i]] \in [V -> V]
    BY <2>1
  <2> QED
    BY <2>2 DEF Steps
<1>4. PICK f \in [0 .. n -> V] : Solves(f, <<>>, step, n)
  <2>0. <<>> \in V
    OBVIOUS
  <2> HIDE DEF step, V
  <2> QED
    BY <1>1, <1>3, <2>0, RecursionHasSolution
<1>5. ASSUME NEW i \in 1 .. n
      PROVE  step[i][f[i - 1]] = f[i - 1] \o seqs[i]
  <2>1. i - 1 \in 0 .. n
    BY <1>1
  <2>2. f[i - 1] \in V
    BY <2>1
  <2> HIDE DEF V
  <2> QED
    BY <2>2
<1>6. Is(f)
  <2> HIDE DEF step, V
  <2>1. f[0] = <<>>
    BY <1>4 DEF Solves
  <2>2. ASSUME NEW i \in 1 .. n
        PROVE  f[i] = f[i - 1] \o seqs[i]
    BY <1>4, <1>5, <2>2 DEF Solves
  <2>3. \A i \in 0 .. n :
          f[i] = IF i = 0 THEN <<>> ELSE f[i - 1] \o seqs[i]
    <3> SUFFICES ASSUME NEW i \in 0 .. n, i # 0
                 PROVE  f[i] = f[i - 1] \o seqs[i]
      BY <2>1
    <3>1. i \in 1 .. n
      BY <1>1
    <3> QED
      BY <2>2, <3>1
  <2> QED
    BY <2>3
<1>7. Is(upto)
  <2> HIDE DEF Is
  <2> QED
    BY <1>6
<1> HIDE DEF upto
<1> DEFINE S == {k \in Nat : k <= n => 
                   /\ upto[k] \in Seq(Int)
                   /\ Range(upto[k]) = UNION {Range(seqs[i]) : i \in 1 .. k}}
<1>8. 0 \in S
  <2>1. upto[0] = <<>>
    BY <1>1, <1>7
  <2>2. Range(<<>>) = {} /\ <<>> \in Seq(Int)
    BY DEF Range
  <2>3. UNION {Range(seqs[i]) : i \in 1 .. 0} = {}
    OBVIOUS
  <2> QED
    BY <2>1, <2>2, <2>3
<1>9. ASSUME NEW k \in Nat, k \in S
      PROVE  k + 1 \in S
  <2>1. SUFFICES ASSUME k + 1 <= n
                 PROVE  /\ upto[k + 1] \in Seq(Int)
                        /\ Range(upto[k + 1]) = UNION {Range(seqs[i]) : i \in 1 .. k + 1}
    OBVIOUS
  <2>2. upto[k] \in Seq(Int) /\ Range(upto[k]) = UNION {Range(seqs[i]) : i \in 1 .. k}
    BY <1>1, <1>9, <2>1
  <2>3. k + 1 \in 0 .. n /\ k + 1 \in 1 .. n /\ k + 1 # 0 /\ (k + 1) - 1 = k
    BY <1>1, <2>1
  <2>4. upto[k + 1] = upto[k] \o seqs[k + 1]
    BY <1>7, <2>3
  <2>5. seqs[k + 1] \in Seq(Int)
    BY <1>1, <2>3
  <2>6. Range(upto[k + 1]) = Range(upto[k]) \cup Range(seqs[k + 1])
    BY <2>2, <2>4, <2>5, RangeOfConcatenation
  <2>7. {Range(seqs[i]) : i \in 1 .. k + 1}
          = {Range(seqs[i]) : i \in 1 .. k} \cup {Range(seqs[k + 1])}
    <3>1. 1 .. k + 1 = (1 .. k) \cup {k + 1}
      OBVIOUS
    <3> QED
      BY <3>1
  <2> QED
    BY <2>2, <2>4, <2>5, <2>6, <2>7
<1>10. Nat \subseteq S
  <2> HIDE DEF S
  <2> QED
    BY <1>8, <1>9, SetInduction
<1>11. upto[n] \in Seq(Int) /\ Range(upto[n]) = UNION {Range(seqs[i]) : i \in 1 .. n}
  <2>1. n \in S
    <3> HIDE DEF S
    <3> QED
      BY <1>1, <1>10
  <2>2. n <= n
    BY <1>1
  <2> QED
    BY <2>1, <2>2
<1> QED
  BY <1>1, <1>2, <1>11

(***************************************************************************)
(* Part 3: the walks through a tree.  Walks says what is done at one node; *)
(* of a whole tree it is proved by Trees: a set of terms that is closed    *)
(* under the actions of the parser has all terms.  This is an induction    *)
(* over terms, for which the sets E and C of all expressions and commands  *)
(* are parameters.                                                         *)
(***************************************************************************)
(* What the parser's actions make of expressions and of commands, E and C, ... *)
Closed(E, C) ==
  /\ \A n \in Int : Int_init(n) \in E /\ Var_init(n) \in E
  /\ \A a, b \in E : Add_init(a, b) \in E /\ Sub_init(a, b) \in E
  /\ \A n \in Int : \A args \in Seq(E) : Call_init(n, args) \in E
  /\ \A e \in E : \A c \in C : While_init(e, c) \in C
  /\ \A n \in Int : \A e \in E : Assign_init(n, e) \in C
  /\ \A c, d \in C : Comp_init(c, d) \in C
  /\ \A e \in E : Return_init(e) \in C

(* ... and nothing else: E is the set of the expressions, and C that of the commands. *)
Trees(E, C) ==
  /\ Closed(E, C)
  /\ \A E1 \in SUBSET E : \A C1 \in SUBSET C : Closed(E1, C1) => E1 = E /\ C1 = C

(* The maps by which names are replaced. *)
Maps == UNION {[names -> Int] : names \in SUBSET Int}

(* What the walks do, node by node: the variables in a term, ... *)
VariablesOfNodes(T) ==
  /\ \A n : Int_init(n) \in T => VariablesOf(Int_init(n)) = <<>>
  /\ \A n : Var_init(n) \in T => VariablesOf(Var_init(n)) = <<n>>
  /\ \A a, b : Add_init(a, b) \in T =>
       VariablesOf(Add_init(a, b)) = VariablesOf(a) \o VariablesOf(b)
  /\ \A a, b : Sub_init(a, b) \in T =>
       VariablesOf(Sub_init(a, b)) = VariablesOf(a) \o VariablesOf(b)
  /\ \A n, args : Call_init(n, args) \in T =>
       VariablesOf(Call_init(n, args))
         = Concatenated([i \in DOMAIN args |-> VariablesOf(args[i])])
  /\ \A e, c : While_init(e, c) \in T =>
       VariablesOf(While_init(e, c)) = VariablesOf(e) \o VariablesOf(c)
  /\ \A n, e : Assign_init(n, e) \in T =>
       VariablesOf(Assign_init(n, e)) = <<n>> \o VariablesOf(e)
  /\ \A c, d : Comp_init(c, d) \in T =>
       VariablesOf(Comp_init(c, d)) = VariablesOf(c) \o VariablesOf(d)
  /\ \A e : Return_init(e) \in T => VariablesOf(Return_init(e)) = VariablesOf(e)

LEMMA VariablesAtNodes ==
  ASSUME NEW T, WalkThrough(T, Maps)
  PROVE  VariablesOfNodes(T)
<1>1. \A t \in T : VariablesOf(t) = VariablesHere(t, VariablesOf)
  BY DEF WalkThrough
<1> QED
  BY <1>1 DEF VariablesOfNodes, VariablesHere, Int_init, Var_init, Add_init, Sub_init,
     Call_init,
              Assign_init, While_init, Comp_init, Return_init

(* ... the calls in it, ... *)
CallsOfNodes(T) ==
  /\ \A n : Int_init(n) \in T => CallsOf(Int_init(n)) = <<>>
  /\ \A n : Var_init(n) \in T => CallsOf(Var_init(n)) = <<>>
  /\ \A a, b : Add_init(a, b) \in T =>
       CallsOf(Add_init(a, b)) = CallsOf(a) \o CallsOf(b)
  /\ \A a, b : Sub_init(a, b) \in T =>
       CallsOf(Sub_init(a, b)) = CallsOf(a) \o CallsOf(b)
  /\ \A n, args : Call_init(n, args) \in T =>
       CallsOf(Call_init(n, args))
         = <<n>> \o Concatenated([i \in DOMAIN args |-> CallsOf(args[i])])
  /\ \A e, c : While_init(e, c) \in T =>
       CallsOf(While_init(e, c)) = CallsOf(e) \o CallsOf(c)
  /\ \A n, e : Assign_init(n, e) \in T => CallsOf(Assign_init(n, e)) = CallsOf(e)
  /\ \A c, d : Comp_init(c, d) \in T =>
       CallsOf(Comp_init(c, d)) = CallsOf(c) \o CallsOf(d)
  /\ \A e : Return_init(e) \in T => CallsOf(Return_init(e)) = CallsOf(e)

LEMMA CallsAtNodes ==
  ASSUME NEW T, WalkThrough(T, Maps)
  PROVE  CallsOfNodes(T)
<1>1. \A t \in T : CallsOf(t) = CallsHere(t, CallsOf)
  BY DEF WalkThrough
<1> QED
  BY <1>1 DEF CallsOfNodes, CallsHere, Int_init, Var_init, Add_init, Sub_init, Call_init,
              Assign_init, While_init, Comp_init, Return_init

(* ... the functions that it calls, ... *)
CalleesOfNodes(T) ==
  /\ \A n : Int_init(n) \in T => CalleesOf(Int_init(n)) = {}
  /\ \A n : Var_init(n) \in T => CalleesOf(Var_init(n)) = {}
  /\ \A a, b : Add_init(a, b) \in T =>
       CalleesOf(Add_init(a, b)) = CalleesOf(a) \cup CalleesOf(b)
  /\ \A a, b : Sub_init(a, b) \in T =>
       CalleesOf(Sub_init(a, b)) = CalleesOf(a) \cup CalleesOf(b)
  /\ \A n, args : Call_init(n, args) \in T =>
       CalleesOf(Call_init(n, args))
         = {n} \cup UNION {CalleesOf(args[i]) : i \in DOMAIN args}
  /\ \A e, c : While_init(e, c) \in T =>
       CalleesOf(While_init(e, c)) = CalleesOf(e) \cup CalleesOf(c)
  /\ \A n, e : Assign_init(n, e) \in T => CalleesOf(Assign_init(n, e)) = CalleesOf(e)
  /\ \A c, d : Comp_init(c, d) \in T =>
       CalleesOf(Comp_init(c, d)) = CalleesOf(c) \cup CalleesOf(d)
  /\ \A e : Return_init(e) \in T => CalleesOf(Return_init(e)) = CalleesOf(e)

LEMMA CalleesAtNodes ==
  ASSUME NEW T, WalkThrough(T, Maps)
  PROVE  CalleesOfNodes(T)
<1>1. \A t \in T : CalleesOf(t) = CalleesHere(t, CalleesOf)
  BY DEF WalkThrough
<1>2. /\ UNION {CalleesOf(<<>>[i]) : i \in DOMAIN <<>>} = {}
      /\ \A a : UNION {CalleesOf(<<a>>[i]) : i \in DOMAIN <<a>>} = CalleesOf(a)
      /\ \A a, b : UNION {CalleesOf(<<a, b>>[i]) : i \in DOMAIN <<a, b>>}
                     = CalleesOf(a) \cup CalleesOf(b)
  <2>1. UNION {CalleesOf(<<>>[i]) : i \in DOMAIN <<>>} = {}
    OBVIOUS
  <2>2. ASSUME NEW a
        PROVE  UNION {CalleesOf(<<a>>[i]) : i \in DOMAIN <<a>>} = CalleesOf(a)
    <3>1. DOMAIN <<a>> = {1} /\ <<a>>[1] = a
      OBVIOUS
    <3> QED
      BY <3>1
  <2>3. ASSUME NEW a, NEW b
        PROVE  UNION {CalleesOf(<<a, b>>[i]) : i \in DOMAIN <<a, b>>}
                 = CalleesOf(a) \cup CalleesOf(b)
    <3>1. DOMAIN <<a, b>> = {1, 2} /\ <<a, b>>[1] = a /\ <<a, b>>[2] = b
      OBVIOUS
    <3> QED
      BY <3>1
  <2> QED
    BY <2>1, <2>2, <2>3
<1> DEFINE Under(s) == UNION {CalleesOf(s[i]) : i \in DOMAIN s}
<1>3. /\ Under(<<>>) = {} /\ \A a : Under(<<a>>) = CalleesOf(a)
      /\ \A a, b : Under(<<a, b>>) = CalleesOf(a) \cup CalleesOf(b)
  BY <1>2
<1>4. \A t \in T : CalleesOf(t)
        = (IF t.type = "Call" THEN {t.num} ELSE {}) \cup Under(Subterms(t))
  BY <1>1 DEF CalleesHere
<1>5. \A n, args : Subterms(Call_init(n, args)) = args
  BY DEF Subterms, Call_init
<1>6. \A n, args : Call_init(n, args) \in T =>
              CalleesOf(Call_init(n, args)) = {n} \cup Under(args)
  BY <1>4, <1>5 DEF Call_init
<1> HIDE DEF Under
<1>7. /\ \A a, b : Subterms(Add_init(a, b)) = <<a, b>> /\ Add_init(a, b).type # "Call"
      /\ \A a, b : Subterms(Sub_init(a, b)) = <<a, b>> /\ Sub_init(a, b).type # "Call"
      /\ \A e, c : Subterms(While_init(e, c)) = <<e, c>> /\ While_init(e, c).type # "Call"
      /\ \A c, d : Subterms(Comp_init(c, d)) = <<c, d>> /\ Comp_init(c, d).type # "Call"
      /\ \A n, e : Subterms(Assign_init(n, e)) = <<e>> /\ Assign_init(n, e).type # "Call"
      /\ \A e : Subterms(Return_init(e)) = <<e>> /\ Return_init(e).type # "Call"
      /\ \A n : Subterms(Int_init(n)) = <<>> /\ Int_init(n).type # "Call"
      /\ \A n : Subterms(Var_init(n)) = <<>> /\ Var_init(n).type # "Call"
  BY DEF Subterms, Int_init, Var_init, Add_init, Sub_init, While_init, Assign_init,
         Comp_init, Return_init
<1>8. \A t \in T : t.type # "Call" => CalleesOf(t) = Under(Subterms(t))
  BY <1>4
<1>9. \A n, args : Call_init(n, args) \in T =>
        CalleesOf(Call_init(n, args)) = {n} \cup UNION {CalleesOf(args[i]) : i \in DOMAIN args}
  BY <1>6 DEF Under
<1> QED
  BY <1>3, <1>7, <1>8, <1>9 DEF CalleesOfNodes

(* ... and what becomes of it when its names are replaced. *)
RenamedNodes(T, v, f) ==
  /\ \A n : Int_init(n) \in T => Renamed(Int_init(n), v, f) = Int_init(n)
  /\ \A n : Var_init(n) \in T => Renamed(Var_init(n), v, f) = Var_init(v[n])
  /\ \A a, b : Add_init(a, b) \in T =>
       Renamed(Add_init(a, b), v, f) = Add_init(Renamed(a, v, f), Renamed(b, v, f))
  /\ \A a, b : Sub_init(a, b) \in T =>
       Renamed(Sub_init(a, b), v, f) = Sub_init(Renamed(a, v, f), Renamed(b, v, f))
  /\ \A n, args : Call_init(n, args) \in T =>
       Renamed(Call_init(n, args), v, f)
         = Call_init(f[n], [i \in DOMAIN args |-> Renamed(args[i], v, f)])
  /\ \A e, c : While_init(e, c) \in T =>
       Renamed(While_init(e, c), v, f)
         = While_init(Renamed(e, v, f), Renamed(c, v, f))
  /\ \A n, e : Assign_init(n, e) \in T =>
       Renamed(Assign_init(n, e), v, f) = Assign_init(v[n], Renamed(e, v, f))
  /\ \A c, d : Comp_init(c, d) \in T =>
       Renamed(Comp_init(c, d), v, f) = Comp_init(Renamed(c, v, f), Renamed(d, v, f))
  /\ \A e : Return_init(e) \in T =>
       Renamed(Return_init(e), v, f) = Return_init(Renamed(e, v, f))

LEMMA RenamedAtNodes ==
  ASSUME NEW T, WalkThrough(T, Maps), NEW v \in Maps, NEW f \in Maps
  PROVE  RenamedNodes(T, v, f)
<1> DEFINE Inside(s) == Renamed(s, v, f)
<1>1. \A t \in T : Inside(t) = ReplacedHere(t, v, f, Inside)
  BY DEF WalkThrough
<1> QED
  BY <1>1 DEF RenamedNodes, ReplacedHere, Int_init, Var_init, Add_init, Sub_init, Call_init,
              Assign_init, While_init, Comp_init, Return_init

(* The names in a term form sequences of numbers, and the calls that a search finds are
   those of the walk. *)
Walked(t) ==
  /\ VariablesOf(t) \in Seq(Int)
  /\ CallsOf(t) \in Seq(Int)
  /\ CalleesOf(t) = Range(CallsOf(t))

LEMMA WalkedTwo ==
  ASSUME NEW a, NEW b, NEW t, Walked(a), Walked(b),
         VariablesOf(t) = VariablesOf(a) \o VariablesOf(b),
         CallsOf(t) = CallsOf(a) \o CallsOf(b),
         CalleesOf(t) = CalleesOf(a) \cup CalleesOf(b)
  PROVE  Walked(t)
BY RangeOfConcatenation DEF Walked

LEMMA WalkedArguments ==
  ASSUME NEW D, \A a \in D : Walked(a), NEW args \in Seq(D), NEW n \in Int
  PROVE  /\ Concatenated([i \in DOMAIN args |-> VariablesOf(args[i])]) \in Seq(Int)
         /\ <<n>> \o Concatenated([i \in DOMAIN args |-> CallsOf(args[i])]) \in Seq(Int)
         /\ {n} \cup UNION {CalleesOf(args[i]) : i \in DOMAIN args}
              = Range(<<n>> \o Concatenated([i \in DOMAIN args |-> CallsOf(args[i])]))
<1> DEFINE vs == [i \in DOMAIN args |-> VariablesOf(args[i])]
           cs == [i \in DOMAIN args |-> CallsOf(args[i])]
<1>1. \A i \in DOMAIN args : Walked(args[i])
  OBVIOUS
<1>2. vs \in Seq(Seq(Int)) /\ cs \in Seq(Seq(Int))
  <2>1. DOMAIN args = 1 .. Len(args) /\ Len(args) \in Nat
    OBVIOUS
  <2>2. vs \in [1 .. Len(args) -> Seq(Int)] /\ cs \in [1 .. Len(args) -> Seq(Int)]
    BY <1>1, <2>1 DEF Walked
  <2>3. vs \in Seq(Seq(Int))
    <3> HIDE DEF vs
    <3> QED
      BY <2>1, <2>2
  <2>4. cs \in Seq(Seq(Int))
    <3> HIDE DEF cs
    <3> QED
      BY <2>1, <2>2
  <2> QED
    BY <2>3, <2>4
<1>3. DOMAIN cs = DOMAIN args /\ \A i \in DOMAIN args : cs[i] = CallsOf(args[i])
  OBVIOUS
<1>4. /\ Concatenated(vs) \in Seq(Int) /\ Concatenated(cs) \in Seq(Int)
      /\ Range(Concatenated(cs)) = UNION {Range(cs[i]) : i \in DOMAIN cs}
  BY <1>2, ConcatenatedType
<1>5. UNION {Range(cs[i]) : i \in DOMAIN cs} = UNION {CalleesOf(args[i]) : i \in DOMAIN args}
  <2>1. \A i \in DOMAIN args : Range(cs[i]) = CalleesOf(args[i])
    BY <1>1, <1>3 DEF Walked
  <2> QED
    BY <1>3, <2>1
<1> HIDE DEF vs, cs
<1>6. <<n>> \in Seq(Int) /\ Range(<<n>>) = {n}
  <2>1. DOMAIN <<n>> = {1} /\ <<n>>[1] = n
    OBVIOUS
  <2> QED
    BY <2>1 DEF Range
<1>7. /\ <<n>> \o Concatenated(cs) \in Seq(Int)
      /\ Range(<<n>> \o Concatenated(cs)) = {n} \cup Range(Concatenated(cs))
  BY <1>4, <1>6, RangeOfConcatenation
<1> QED
  BY <1>4, <1>5, <1>7 DEF vs, cs

(* So it is in every term: the terms in which it is are closed, and so they are all. *)
LEMMA TermsAreWalked ==
  ASSUME NEW E, NEW C, Trees(E, C), WalkThrough(E \cup C, Maps)
  PROVE  \A t \in E \cup C : Walked(t)
<1> DEFINE T == E \cup C
           E1 == {t \in E : Walked(t)}
           C1 == {t \in C : Walked(t)}
<1>1. VariablesOfNodes(T) /\ CallsOfNodes(T) /\ CalleesOfNodes(T)
  BY VariablesAtNodes, CallsAtNodes, CalleesAtNodes
<1>2. /\ \A t \in E1 : t \in E /\ Walked(t)
      /\ \A t \in C1 : t \in C /\ Walked(t)
      /\ E \subseteq T /\ C \subseteq T
  OBVIOUS
<1>3. Seq(E1) \subseteq Seq(E)
  OBVIOUS
<1>4. (\A t \in E : Walked(t) => t \in E1) /\ (\A t \in C : Walked(t) => t \in C1)
  OBVIOUS
<1>5. E1 \in SUBSET E /\ C1 \in SUBSET C
  OBVIOUS
<1>6. E1 = E /\ C1 = C => \A t \in T : Walked(t)
  OBVIOUS
<1> HIDE DEF T, E1, C1
<1>7. Closed(E, C)
  BY DEF Trees
<1>8. ASSUME NEW n \in Int
      PROVE  Int_init(n) \in E1 /\ Var_init(n) \in E1
  <2>1. <<>> \in Seq(Int) /\ <<n>> \in Seq(Int) /\ Range(<<>>) = {}
    BY DEF Range
  <2>2. Int_init(n) \in E /\ Var_init(n) \in E
    BY <1>7 DEF Closed
  <2>3. Walked(Int_init(n)) /\ Walked(Var_init(n))
    BY <1>1, <1>2, <2>1, <2>2
       DEF VariablesOfNodes, CallsOfNodes, CalleesOfNodes, Walked
  <2> QED
    BY <1>4, <2>2, <2>3
<1>9. ASSUME NEW a \in E1, NEW b \in E1
      PROVE  Add_init(a, b) \in E1 /\ Sub_init(a, b) \in E1
  <2>1. Add_init(a, b) \in E /\ Sub_init(a, b) \in E
    BY <1>2, <1>7 DEF Closed
  <2>2. Walked(Add_init(a, b))
    <3>1. VariablesOf(Add_init(a, b)) = VariablesOf(a) \o VariablesOf(b)
      BY <1>1, <1>2, <2>1 DEF VariablesOfNodes
    <3>2. CallsOf(Add_init(a, b)) = CallsOf(a) \o CallsOf(b)
      BY <1>1, <1>2, <2>1 DEF CallsOfNodes
    <3>3. CalleesOf(Add_init(a, b)) = CalleesOf(a) \cup CalleesOf(b)
      BY <1>1, <1>2, <2>1 DEF CalleesOfNodes
    <3> QED
      BY <1>2, <3>1, <3>2, <3>3, WalkedTwo
  <2>3. Walked(Sub_init(a, b))
    <3>1. VariablesOf(Sub_init(a, b)) = VariablesOf(a) \o VariablesOf(b)
      BY <1>1, <1>2, <2>1 DEF VariablesOfNodes
    <3>2. CallsOf(Sub_init(a, b)) = CallsOf(a) \o CallsOf(b)
      BY <1>1, <1>2, <2>1 DEF CallsOfNodes
    <3>3. CalleesOf(Sub_init(a, b)) = CalleesOf(a) \cup CalleesOf(b)
      BY <1>1, <1>2, <2>1 DEF CalleesOfNodes
    <3> QED
      BY <1>2, <3>1, <3>2, <3>3, WalkedTwo
  <2> QED
    BY <1>4, <2>1, <2>2, <2>3
<1>10. ASSUME NEW n \in Int, NEW args \in Seq(E1)
       PROVE  Call_init(n, args) \in E1
  <2>1. Call_init(n, args) \in E
    BY <1>3, <1>7 DEF Closed
  <2>2. /\ Concatenated([i \in DOMAIN args |-> VariablesOf(args[i])]) \in Seq(Int)
        /\ <<n>> \o Concatenated([i \in DOMAIN args |-> CallsOf(args[i])]) \in Seq(Int)
        /\ {n} \cup UNION {CalleesOf(args[i]) : i \in DOMAIN args}
             = Range(<<n>> \o Concatenated([i \in DOMAIN args |-> CallsOf(args[i])]))
    BY <1>2, WalkedArguments
  <2>3. /\ VariablesOf(Call_init(n, args))
             = Concatenated([i \in DOMAIN args |-> VariablesOf(args[i])])
        /\ CallsOf(Call_init(n, args))
             = <<n>> \o Concatenated([i \in DOMAIN args |-> CallsOf(args[i])])
        /\ CalleesOf(Call_init(n, args))
             = {n} \cup UNION {CalleesOf(args[i]) : i \in DOMAIN args}
    <3>1. VariablesOf(Call_init(n, args))
             = Concatenated([i \in DOMAIN args |-> VariablesOf(args[i])])
      BY <1>1, <1>2, <2>1 DEF VariablesOfNodes
    <3>2. CallsOf(Call_init(n, args))
             = <<n>> \o Concatenated([i \in DOMAIN args |-> CallsOf(args[i])])
      BY <1>1, <1>2, <2>1 DEF CallsOfNodes
    <3>3. CalleesOf(Call_init(n, args))
             = {n} \cup UNION {CalleesOf(args[i]) : i \in DOMAIN args}
      BY <1>1, <1>2, <2>1 DEF CalleesOfNodes
    <3> QED
      BY <3>1, <3>2, <3>3
  <2>4. Walked(Call_init(n, args))
    BY <2>2, <2>3 DEF Walked
  <2> QED
    BY <1>4, <2>1, <2>4
<1>11. ASSUME NEW e \in E1, NEW c \in C1
       PROVE  While_init(e, c) \in C1
  <2>1. While_init(e, c) \in C
    BY <1>2, <1>7 DEF Closed
  <2>2. Walked(While_init(e, c))
    <3>1. VariablesOf(While_init(e, c)) = VariablesOf(e) \o VariablesOf(c)
      BY <1>1, <1>2, <2>1 DEF VariablesOfNodes
    <3>2. CallsOf(While_init(e, c)) = CallsOf(e) \o CallsOf(c)
      BY <1>1, <1>2, <2>1 DEF CallsOfNodes
    <3>3. CalleesOf(While_init(e, c)) = CalleesOf(e) \cup CalleesOf(c)
      BY <1>1, <1>2, <2>1 DEF CalleesOfNodes
    <3> QED
      BY <1>2, <3>1, <3>2, <3>3, WalkedTwo
  <2> QED
    BY <1>4, <2>1, <2>2
<1>12. ASSUME NEW n \in Int, NEW e \in E1
       PROVE  Assign_init(n, e) \in C1
  <2>1. Assign_init(n, e) \in C
    BY <1>2, <1>7 DEF Closed
  <2>2. Walked(e) /\ <<n>> \in Seq(Int)
    BY <1>2
  <2>3. <<n>> \o VariablesOf(e) \in Seq(Int)
    BY <2>2, RangeOfConcatenation DEF Walked
  <2>4. Walked(Assign_init(n, e))
    <3>1. VariablesOf(Assign_init(n, e)) = <<n>> \o VariablesOf(e)
      BY <1>1, <1>2, <2>1 DEF VariablesOfNodes
    <3>2. CallsOf(Assign_init(n, e)) = CallsOf(e)
      BY <1>1, <1>2, <2>1 DEF CallsOfNodes
    <3>3. CalleesOf(Assign_init(n, e)) = CalleesOf(e)
      BY <1>1, <1>2, <2>1 DEF CalleesOfNodes
    <3> QED
      BY <2>2, <2>3, <3>1, <3>2, <3>3 DEF Walked
  <2> QED
    BY <1>4, <2>1, <2>4
<1>13. ASSUME NEW c \in C1, NEW d \in C1
       PROVE  Comp_init(c, d) \in C1
  <2>1. Comp_init(c, d) \in C
    BY <1>2, <1>7 DEF Closed
  <2>2. Walked(Comp_init(c, d))
    <3>1. VariablesOf(Comp_init(c, d)) = VariablesOf(c) \o VariablesOf(d)
      BY <1>1, <1>2, <2>1 DEF VariablesOfNodes
    <3>2. CallsOf(Comp_init(c, d)) = CallsOf(c) \o CallsOf(d)
      BY <1>1, <1>2, <2>1 DEF CallsOfNodes
    <3>3. CalleesOf(Comp_init(c, d)) = CalleesOf(c) \cup CalleesOf(d)
      BY <1>1, <1>2, <2>1 DEF CalleesOfNodes
    <3> QED
      BY <1>2, <3>1, <3>2, <3>3, WalkedTwo
  <2> QED
    BY <1>4, <2>1, <2>2
<1>14. ASSUME NEW e \in E1
       PROVE  Return_init(e) \in C1
  <2>1. Return_init(e) \in C
    BY <1>2, <1>7 DEF Closed
  <2>2. Walked(Return_init(e))
    BY <1>1, <1>2, <2>1 DEF VariablesOfNodes, CallsOfNodes, CalleesOfNodes, Walked
  <2> QED
    BY <1>4, <2>1, <2>2
<1>15. Closed(E1, C1)
  BY <1>8, <1>9, <1>10, <1>11, <1>12, <1>13, <1>14 DEF Closed
<1> QED
  BY <1>5, <1>6, <1>15 DEF Trees, T

(* The variables in a term, as a set. *)
VariablesInside(t) == Range(VariablesOf(t))

(* What they are at a node. *)
VariablesInsideNodes(E, C) ==
  /\ \A n \in Int : VariablesInside(Int_init(n)) = {} /\ VariablesInside(Var_init(n)) = {n}
  /\ \A a, b \in E :
       /\ VariablesInside(Add_init(a, b)) = VariablesInside(a) \cup VariablesInside(b)
       /\ VariablesInside(Sub_init(a, b)) = VariablesInside(a) \cup VariablesInside(b)
  /\ \A n \in Int : \A args \in Seq(E) :
       VariablesInside(Call_init(n, args))
         = UNION {VariablesInside(args[i]) : i \in DOMAIN args}
  /\ \A e \in E : \A c \in C :
       VariablesInside(While_init(e, c)) = VariablesInside(e) \cup VariablesInside(c)
  /\ \A n \in Int : \A e \in E :
       VariablesInside(Assign_init(n, e)) = {n} \cup VariablesInside(e)
  /\ \A c, d \in C :
       VariablesInside(Comp_init(c, d)) = VariablesInside(c) \cup VariablesInside(d)
  /\ \A e \in E : VariablesInside(Return_init(e)) = VariablesInside(e)

LEMMA VariablesInsideAtNodes ==
  ASSUME NEW E, NEW C, Trees(E, C), WalkThrough(E \cup C, Maps)
  PROVE  VariablesInsideNodes(E, C)
<1> DEFINE T == E \cup C
<1>1. VariablesOfNodes(T)
  BY VariablesAtNodes
<1>2. E \subseteq T /\ C \subseteq T
  OBVIOUS
<1>3. \A t \in T : VariablesOf(t) \in Seq(Int)
  BY TermsAreWalked DEF Walked
<1> HIDE DEF T
<1>4. Closed(E, C)
  BY DEF Trees
<1>5. \A n \in Int : <<n>> \in Seq(Int) /\ Range(<<n>>) = {n} /\ Range(<<>>) = {}
  <2> SUFFICES ASSUME NEW n \in Int
               PROVE  <<n>> \in Seq(Int) /\ Range(<<n>>) = {n} /\ Range(<<>>) = {}
    OBVIOUS
  <2>1. DOMAIN <<n>> = {1} /\ <<n>>[1] = n /\ DOMAIN <<>> = {}
    OBVIOUS
  <2> QED
    BY <2>1 DEF Range
<1>6. \A n \in Int : VariablesInside(Int_init(n)) = {} /\ VariablesInside(Var_init(n)) = {n}
  BY <1>1, <1>2, <1>4, <1>5 DEF VariablesOfNodes, Closed, VariablesInside
<1>7. ASSUME NEW a \in T, NEW b \in T, NEW t, VariablesOf(t) = VariablesOf(a) \o VariablesOf(b)
      PROVE  VariablesInside(t) = VariablesInside(a) \cup VariablesInside(b)
  BY <1>3, <1>7, RangeOfConcatenation DEF VariablesInside
<1>8. ASSUME NEW a \in E, NEW b \in E
      PROVE  /\ VariablesInside(Add_init(a, b)) = VariablesInside(a) \cup VariablesInside(b)
             /\ VariablesInside(Sub_init(a, b)) = VariablesInside(a) \cup VariablesInside(b)
  <2>1. Add_init(a, b) \in T /\ Sub_init(a, b) \in T
    BY <1>2, <1>4 DEF Closed
  <2>2. /\ VariablesOf(Add_init(a, b)) = VariablesOf(a) \o VariablesOf(b)
        /\ VariablesOf(Sub_init(a, b)) = VariablesOf(a) \o VariablesOf(b)
    BY <1>1, <2>1 DEF VariablesOfNodes
  <2> QED
    BY <1>2, <1>7, <2>2
<1>9. ASSUME NEW n \in Int, NEW args \in Seq(E)
      PROVE  VariablesInside(Call_init(n, args))
               = UNION {VariablesInside(args[i]) : i \in DOMAIN args}
  <2> DEFINE vs == [i \in DOMAIN args |-> VariablesOf(args[i])]
  <2>1. Call_init(n, args) \in T
    BY <1>2, <1>4 DEF Closed
  <2>2. VariablesOf(Call_init(n, args)) = Concatenated(vs)
    BY <1>1, <2>1 DEF VariablesOfNodes
  <2>3. DOMAIN vs = DOMAIN args /\ \A i \in DOMAIN args : vs[i] = VariablesOf(args[i])
    OBVIOUS
  <2>4. vs \in Seq(Seq(Int))
    <3>1. DOMAIN args = 1 .. Len(args) /\ Len(args) \in Nat
          /\ \A i \in DOMAIN args : args[i] \in T
      BY <1>2
    <3>2. vs \in [1 .. Len(args) -> Seq(Int)]
      BY <1>3, <3>1
    <3> HIDE DEF vs
    <3> QED
      BY <3>1, <3>2
  <2> HIDE DEF vs
  <2>5. Range(Concatenated(vs)) = UNION {Range(vs[i]) : i \in DOMAIN vs}
    BY <2>4, ConcatenatedType
  <2>6. {Range(vs[i]) : i \in DOMAIN vs} = {VariablesInside(args[i]) : i \in DOMAIN args}
    BY <2>3 DEF VariablesInside
  <2> QED
    BY <2>2, <2>5, <2>6 DEF VariablesInside
<1>10. ASSUME NEW e \in E, NEW c \in C
       PROVE  VariablesInside(While_init(e, c)) = VariablesInside(e) \cup VariablesInside(c)
  <2>1. While_init(e, c) \in T
    BY <1>2, <1>4 DEF Closed
  <2>2. VariablesOf(While_init(e, c)) = VariablesOf(e) \o VariablesOf(c)
    BY <1>1, <2>1 DEF VariablesOfNodes
  <2> QED
    BY <1>2, <1>7, <2>2
<1>11. ASSUME NEW n \in Int, NEW e \in E
       PROVE  VariablesInside(Assign_init(n, e)) = {n} \cup VariablesInside(e)
  <2>1. Assign_init(n, e) \in T /\ VariablesOf(e) \in Seq(Int)
    BY <1>2, <1>3, <1>4 DEF Closed
  <2>2. VariablesOf(Assign_init(n, e)) = <<n>> \o VariablesOf(e)
    BY <1>1, <2>1 DEF VariablesOfNodes
  <2>3. Range(<<n>> \o VariablesOf(e)) = Range(<<n>>) \cup Range(VariablesOf(e))
    BY <1>5, <2>1, RangeOfConcatenation
  <2> QED
    BY <1>5, <2>2, <2>3 DEF VariablesInside
<1>12. ASSUME NEW c \in C, NEW d \in C
       PROVE  VariablesInside(Comp_init(c, d)) = VariablesInside(c) \cup VariablesInside(d)
  <2>1. Comp_init(c, d) \in T
    BY <1>2, <1>4 DEF Closed
  <2>2. VariablesOf(Comp_init(c, d)) = VariablesOf(c) \o VariablesOf(d)
    BY <1>1, <2>1 DEF VariablesOfNodes
  <2> QED
    BY <1>2, <1>7, <2>2
<1>13. ASSUME NEW e \in E
       PROVE  VariablesInside(Return_init(e)) = VariablesInside(e)
  <2>1. Return_init(e) \in T
    BY <1>2, <1>4 DEF Closed
  <2>2. VariablesOf(Return_init(e)) = VariablesOf(e)
    BY <1>1, <2>1 DEF VariablesOfNodes
  <2> QED
    BY <2>2 DEF VariablesInside
<1> QED
  BY <1>6, <1>8, <1>9, <1>10, <1>11, <1>12, <1>13 DEF VariablesInsideNodes

(* Replacing makes a term of the same sort, whose variables and calls are the images
   of those it had. *)
Image(map, names) == {map[n] : n \in names}

RenamedWell(t, sort, v, f) ==
  VariablesInside(t) \subseteq DOMAIN v /\ CalleesOf(t) \subseteq DOMAIN f =>
    /\ Renamed(t, v, f) \in sort
    /\ VariablesInside(Renamed(t, v, f)) = Image(v, VariablesInside(t))
    /\ CalleesOf(Renamed(t, v, f)) = Image(f, CalleesOf(t))

LEMMA ImageFacts ==
  ASSUME NEW map
  PROVE  /\ Image(map, {}) = {}
         /\ \A n : Image(map, {n}) = {map[n]}
         /\ \A s, t : Image(map, s \cup t) = Image(map, s) \cup Image(map, t)
BY DEF Image

(* Every term is replaced well, if the maps have its names. *)
LEMMA TermsRenameWell ==
  ASSUME NEW E, NEW C, Trees(E, C), WalkThrough(E \cup C, Maps), NEW v \in Maps, NEW f \in Maps
  PROVE  (\A t \in E : RenamedWell(t, E, v, f)) /\ (\A t \in C : RenamedWell(t, C, v, f))
<1> DEFINE T == E \cup C
           R(t) == Renamed(t, v, f)
           Well(t, sort) == RenamedWell(t, sort, v, f)
           Same(t, a, b) == /\ VariablesInside(t) = VariablesInside(a) \cup VariablesInside(b)
                            /\ CalleesOf(t) = CalleesOf(a) \cup CalleesOf(b)
           E1 == {t \in E : Well(t, E)}
           C1 == {t \in C : Well(t, C)}
<1>1. VariablesInsideNodes(E, C) /\ CalleesOfNodes(T) /\ RenamedNodes(T, v, f)
  BY VariablesInsideAtNodes, CalleesAtNodes, RenamedAtNodes
<1>2. /\ \A t \in E1 : t \in E /\ Well(t, E)
      /\ \A t \in C1 : t \in C /\ Well(t, C)
      /\ E \subseteq T /\ C \subseteq T
  OBVIOUS
<1>3. Seq(E1) \subseteq Seq(E)
  OBVIOUS
<1>4. (\A t \in E : Well(t, E) => t \in E1) /\ (\A t \in C : Well(t, C) => t \in C1)
  OBVIOUS
<1>5. E1 \in SUBSET E /\ C1 \in SUBSET C
  OBVIOUS
<1>6. /\ \A n \in DOMAIN v : v[n] \in Int
      /\ \A n \in DOMAIN f : f[n] \in Int
  <2>1. ASSUME NEW map \in Maps
        PROVE  \A n \in DOMAIN map : map[n] \in Int
    <3>1. PICK names \in SUBSET Int : map \in [names -> Int]
      BY DEF Maps
    <3> QED
      BY <3>1
  <2> QED
    BY <2>1
<1>7. Closed(E, C)
  BY DEF Trees
<1>8. ASSUME NEW t, NEW sort, NEW a, NEW sortA, NEW b, NEW sortB, NEW u,
             Well(a, sortA), Well(b, sortB), Same(t, a, b), R(t) = u,
             R(a) \in sortA /\ R(b) \in sortB => u \in sort /\ Same(u, R(a), R(b))
      PROVE  Well(t, sort)
  <2> SUFFICES ASSUME VariablesInside(t) \subseteq DOMAIN v, CalleesOf(t) \subseteq DOMAIN f
               PROVE  /\ u \in sort
                      /\ VariablesInside(u) = Image(v, VariablesInside(t))
                      /\ CalleesOf(u) = Image(f, CalleesOf(t))
    BY <1>8 DEF RenamedWell
  <2>1. /\ VariablesInside(a) \subseteq DOMAIN v /\ CalleesOf(a) \subseteq DOMAIN f
        /\ VariablesInside(b) \subseteq DOMAIN v /\ CalleesOf(b) \subseteq DOMAIN f
    BY <1>8
  <2>2. /\ R(a) \in sortA
        /\ VariablesInside(R(a)) = Image(v, VariablesInside(a))
        /\ CalleesOf(R(a)) = Image(f, CalleesOf(a))
    BY <1>8, <2>1 DEF RenamedWell
  <2>3. /\ R(b) \in sortB
        /\ VariablesInside(R(b)) = Image(v, VariablesInside(b))
        /\ CalleesOf(R(b)) = Image(f, CalleesOf(b))
    BY <1>8, <2>1 DEF RenamedWell
  <2>4. u \in sort /\ Same(u, R(a), R(b))
    BY <1>8, <2>2, <2>3
  <2> QED
    BY <1>8, <2>2, <2>3, <2>4, ImageFacts
<1> HIDE DEF T, E1, C1, Well, Same, R
<1>9. ASSUME NEW n \in Int
      PROVE  Int_init(n) \in E1 /\ Var_init(n) \in E1
  <2>1. Int_init(n) \in E /\ Var_init(n) \in E
    BY <1>7 DEF Closed
  <2>2. /\ VariablesInside(Int_init(n)) = {} /\ CalleesOf(Int_init(n)) = {}
        /\ VariablesInside(Var_init(n)) = {n} /\ CalleesOf(Var_init(n)) = {}
    BY <1>1, <1>2, <2>1 DEF VariablesInsideNodes, CalleesOfNodes
  <2>3. Renamed(Int_init(n), v, f) = Int_init(n) /\ Renamed(Var_init(n), v, f) = Var_init(v[n])
    BY <1>1, <1>2, <2>1 DEF RenamedNodes
  <2>4. Well(Int_init(n), E)
    BY <2>1, <2>2, <2>3, ImageFacts DEF Well, RenamedWell
  <2>5. Well(Var_init(n), E)
    <3>1. ASSUME n \in DOMAIN v
          PROVE  /\ Var_init(v[n]) \in E /\ VariablesInside(Var_init(v[n])) = {v[n]}
                 /\ CalleesOf(Var_init(v[n])) = {}
      <4>1. v[n] \in Int
        BY <1>6, <3>1
      <4>2. Var_init(v[n]) \in E
        BY <1>7, <4>1 DEF Closed
      <4> QED
        BY <1>1, <1>2, <4>1, <4>2 DEF VariablesInsideNodes, CalleesOfNodes
    <3> QED
      BY <2>2, <2>3, <3>1, ImageFacts DEF Well, RenamedWell
  <2> QED
    BY <1>4, <2>1, <2>4, <2>5
<1>10. ASSUME NEW a \in E1, NEW b \in E1
       PROVE  Add_init(a, b) \in E1
  <2>1. Add_init(a, b) \in E
    BY <1>2, <1>7 DEF Closed
  <2>2. Same(Add_init(a, b), a, b)
    BY <1>1, <1>2, <2>1 DEF VariablesInsideNodes, CalleesOfNodes, Same
  <2>3. R(Add_init(a, b)) = Add_init(R(a), R(b))
    BY <1>1, <1>2, <2>1 DEF RenamedNodes, R
  <2>4. ASSUME R(a) \in E, R(b) \in E
        PROVE  Add_init(R(a), R(b)) \in E /\ Same(Add_init(R(a), R(b)), R(a), R(b))
    <3>1. Add_init(R(a), R(b)) \in E
      BY <1>7, <2>4 DEF Closed
    <3> QED
      BY <1>1, <1>2, <2>4, <3>1 DEF VariablesInsideNodes, CalleesOfNodes, Same
  <2>5. Well(Add_init(a, b), E)
    BY <1>2, <1>8, <2>2, <2>3, <2>4
  <2> QED
    BY <1>4, <2>1, <2>5
<1>11. ASSUME NEW a \in E1, NEW b \in E1
       PROVE  Sub_init(a, b) \in E1
  <2>1. Sub_init(a, b) \in E
    BY <1>2, <1>7 DEF Closed
  <2>2. Same(Sub_init(a, b), a, b)
    BY <1>1, <1>2, <2>1 DEF VariablesInsideNodes, CalleesOfNodes, Same
  <2>3. R(Sub_init(a, b)) = Sub_init(R(a), R(b))
    BY <1>1, <1>2, <2>1 DEF RenamedNodes, R
  <2>4. ASSUME R(a) \in E, R(b) \in E
        PROVE  Sub_init(R(a), R(b)) \in E /\ Same(Sub_init(R(a), R(b)), R(a), R(b))
    <3>1. Sub_init(R(a), R(b)) \in E
      BY <1>7, <2>4 DEF Closed
    <3> QED
      BY <1>1, <1>2, <2>4, <3>1 DEF VariablesInsideNodes, CalleesOfNodes, Same
  <2>5. Well(Sub_init(a, b), E)
    BY <1>2, <1>8, <2>2, <2>3, <2>4
  <2> QED
    BY <1>4, <2>1, <2>5
<1>12. ASSUME NEW e \in E1, NEW c \in C1
       PROVE  While_init(e, c) \in C1
  <2>1. While_init(e, c) \in C
    BY <1>2, <1>7 DEF Closed
  <2>2. Same(While_init(e, c), e, c)
    BY <1>1, <1>2, <2>1 DEF VariablesInsideNodes, CalleesOfNodes, Same
  <2>3. R(While_init(e, c)) = While_init(R(e), R(c))
    BY <1>1, <1>2, <2>1 DEF RenamedNodes, R
  <2>4. ASSUME R(e) \in E, R(c) \in C
        PROVE  While_init(R(e), R(c)) \in C /\ Same(While_init(R(e), R(c)), R(e), R(c))
    <3>1. While_init(R(e), R(c)) \in C
      BY <1>7, <2>4 DEF Closed
    <3> QED
      BY <1>1, <1>2, <2>4, <3>1 DEF VariablesInsideNodes, CalleesOfNodes, Same
  <2>5. Well(While_init(e, c), C)
    BY <1>2, <1>8, <2>2, <2>3, <2>4
  <2> QED
    BY <1>4, <2>1, <2>5
<1>13. ASSUME NEW c \in C1, NEW d \in C1
       PROVE  Comp_init(c, d) \in C1
  <2>1. Comp_init(c, d) \in C
    BY <1>2, <1>7 DEF Closed
  <2>2. Same(Comp_init(c, d), c, d)
    BY <1>1, <1>2, <2>1 DEF VariablesInsideNodes, CalleesOfNodes, Same
  <2>3. R(Comp_init(c, d)) = Comp_init(R(c), R(d))
    BY <1>1, <1>2, <2>1 DEF RenamedNodes, R
  <2>4. ASSUME R(c) \in C, R(d) \in C
        PROVE  Comp_init(R(c), R(d)) \in C /\ Same(Comp_init(R(c), R(d)), R(c), R(d))
    <3>1. Comp_init(R(c), R(d)) \in C
      BY <1>7, <2>4 DEF Closed
    <3> QED
      BY <1>1, <1>2, <2>4, <3>1 DEF VariablesInsideNodes, CalleesOfNodes, Same
  <2>5. Well(Comp_init(c, d), C)
    BY <1>2, <1>8, <2>2, <2>3, <2>4
  <2> QED
    BY <1>4, <2>1, <2>5
<1>14. ASSUME NEW e \in E1
       PROVE  Return_init(e) \in C1
  <2>1. Return_init(e) \in C
    BY <1>2, <1>7 DEF Closed
  <2>2. VariablesInside(Return_init(e)) = VariablesInside(e)
        /\ CalleesOf(Return_init(e)) = CalleesOf(e)
    BY <1>1, <1>2, <2>1 DEF VariablesInsideNodes, CalleesOfNodes
  <2>3. R(Return_init(e)) = Return_init(R(e))
    BY <1>1, <1>2, <2>1 DEF RenamedNodes, R
  <2>4. ASSUME R(e) \in E
        PROVE  /\ Return_init(R(e)) \in C
               /\ VariablesInside(Return_init(R(e))) = VariablesInside(R(e))
               /\ CalleesOf(Return_init(R(e))) = CalleesOf(R(e))
    <3>1. Return_init(R(e)) \in C
      BY <1>7, <2>4 DEF Closed
    <3> QED
      BY <1>1, <1>2, <2>4, <3>1 DEF VariablesInsideNodes, CalleesOfNodes
  <2>5. Well(Return_init(e), C)
    BY <1>2, <2>2, <2>3, <2>4 DEF Well, RenamedWell, R
  <2> QED
    BY <1>4, <2>1, <2>5
<1>15. ASSUME NEW n \in Int, NEW e \in E1
       PROVE  Assign_init(n, e) \in C1
  <2>1. Assign_init(n, e) \in C
    BY <1>2, <1>7 DEF Closed
  <2>2. /\ VariablesInside(Assign_init(n, e)) = {n} \cup VariablesInside(e)
        /\ CalleesOf(Assign_init(n, e)) = CalleesOf(e)
    BY <1>1, <1>2, <2>1 DEF VariablesInsideNodes, CalleesOfNodes
  <2>3. R(Assign_init(n, e)) = Assign_init(v[n], R(e))
    BY <1>1, <1>2, <2>1 DEF RenamedNodes, R
  <2>4. ASSUME R(e) \in E, n \in DOMAIN v
        PROVE  /\ Assign_init(v[n], R(e)) \in C
               /\ VariablesInside(Assign_init(v[n], R(e))) = {v[n]} \cup VariablesInside(R(e))
               /\ CalleesOf(Assign_init(v[n], R(e))) = CalleesOf(R(e))
    <3>1. v[n] \in Int
      BY <1>6, <2>4
    <3>2. Assign_init(v[n], R(e)) \in C
      BY <1>7, <2>4, <3>1 DEF Closed
    <3> QED
      BY <1>1, <1>2, <2>4, <3>1, <3>2 DEF VariablesInsideNodes, CalleesOfNodes
  <2>5. Well(Assign_init(n, e), C)
    <3>1. ASSUME VariablesInside(Assign_init(n, e)) \subseteq DOMAIN v,
                 CalleesOf(Assign_init(n, e)) \subseteq DOMAIN f
          PROVE  /\ n \in DOMAIN v /\ R(e) \in E
                 /\ VariablesInside(R(e)) = Image(v, VariablesInside(e))
                 /\ CalleesOf(R(e)) = Image(f, CalleesOf(e))
      BY <1>2, <2>2, <3>1 DEF Well, RenamedWell, R
    <3>2. Image(v, {n} \cup VariablesInside(e)) = {v[n]} \cup Image(v, VariablesInside(e))
      BY DEF Image
    <3> QED
      BY <2>2, <2>3, <2>4, <3>1, <3>2 DEF Well, RenamedWell, R
  <2> QED
    BY <1>4, <2>1, <2>5
<1>16. ASSUME NEW n \in Int, NEW args \in Seq(E1)
       PROVE  Call_init(n, args) \in E1
  <2> DEFINE t == Call_init(n, args)
             new == [i \in DOMAIN args |-> R(args[i])]
  <2>1. t \in E /\ args \in Seq(E)
    BY <1>3, <1>7 DEF Closed
  <2>2. /\ VariablesInside(t) = UNION {VariablesInside(args[i]) : i \in DOMAIN args}
        /\ CalleesOf(t) = {n} \cup UNION {CalleesOf(args[i]) : i \in DOMAIN args}
    BY <1>1, <1>2, <2>1 DEF VariablesInsideNodes, CalleesOfNodes
  <2>3. R(t) = Call_init(f[n], new)
    BY <1>1, <1>2, <2>1 DEF RenamedNodes, R
  <2>4. ASSUME VariablesInside(t) \subseteq DOMAIN v, CalleesOf(t) \subseteq DOMAIN f
        PROVE  /\ R(t) \in E
               /\ VariablesInside(R(t)) = Image(v, VariablesInside(t))
               /\ CalleesOf(R(t)) = Image(f, CalleesOf(t))
    <3>1. f[n] \in Int
      BY <1>6, <2>2, <2>4
    <3>2. ASSUME NEW i \in DOMAIN args
          PROVE  /\ R(args[i]) \in E
                 /\ VariablesInside(R(args[i])) = Image(v, VariablesInside(args[i]))
                 /\ CalleesOf(R(args[i])) = Image(f, CalleesOf(args[i]))
      <4>1. args[i] \in E1
        OBVIOUS
      <4>2. /\ VariablesInside(args[i]) \subseteq DOMAIN v
            /\ CalleesOf(args[i]) \subseteq DOMAIN f
        BY <2>2, <2>4
      <4> QED
        BY <1>2, <4>1, <4>2 DEF Well, RenamedWell, R
    <3>3. new \in Seq(E)
      <4>1. DOMAIN args = 1 .. Len(args) /\ Len(args) \in Nat
        OBVIOUS
      <4>2. new \in [1 .. Len(args) -> E]
        BY <3>2, <4>1
      <4> HIDE DEF new
      <4> QED
        BY <4>1, <4>2
    <3>4. DOMAIN new = DOMAIN args /\ \A i \in DOMAIN args : new[i] = R(args[i])
      OBVIOUS
    <3> HIDE DEF t, new
    <3>5. R(t) \in E
      BY <1>7, <2>3, <3>1, <3>3 DEF Closed
    <3>6. /\ VariablesInside(R(t)) = UNION {VariablesInside(new[i]) : i \in DOMAIN new}
          /\ CalleesOf(R(t)) = {f[n]} \cup UNION {CalleesOf(new[i]) : i \in DOMAIN new}
      BY <1>1, <1>2, <2>3, <3>1, <3>3, <3>5 DEF VariablesInsideNodes, CalleesOfNodes
    <3>7. {VariablesInside(new[i]) : i \in DOMAIN new}
             = {Image(v, VariablesInside(args[i])) : i \in DOMAIN args}
      BY <3>2, <3>4
    <3>8. {CalleesOf(new[i]) : i \in DOMAIN new}
             = {Image(f, CalleesOf(args[i])) : i \in DOMAIN args}
      BY <3>2, <3>4
    <3>9. UNION {Image(v, VariablesInside(args[i])) : i \in DOMAIN args}
            = Image(v, UNION {VariablesInside(args[i]) : i \in DOMAIN args})
      BY DEF Image
    <3>10. UNION {Image(f, CalleesOf(args[i])) : i \in DOMAIN args}
            = Image(f, UNION {CalleesOf(args[i]) : i \in DOMAIN args})
      BY DEF Image
    <3>11. VariablesInside(R(t)) = Image(v, VariablesInside(t))
      BY <2>2, <3>6, <3>7, <3>9
    <3>12. CalleesOf(R(t)) = Image(f, CalleesOf(t))
      <4> DEFINE below == UNION {CalleesOf(args[i]) : i \in DOMAIN args}
      <4>1. CalleesOf(R(t)) = {f[n]} \cup Image(f, below)
        BY <3>6, <3>8, <3>10
      <4>2. CalleesOf(t) = {n} \cup below
        BY <2>2
      <4> HIDE DEF below
      <4>3. Image(f, {n} \cup below) = {f[n]} \cup Image(f, below)
        BY DEF Image
      <4> QED
        BY <4>1, <4>2, <4>3
    <3> QED
      BY <3>5, <3>11, <3>12
  <2>5. Well(t, E)
    BY <2>4 DEF Well, RenamedWell, R
  <2> QED
    BY <1>4, <2>1, <2>5
<1>17. Closed(E1, C1)
  BY <1>9, <1>10, <1>11, <1>12, <1>13, <1>14, <1>15, <1>16 DEF Closed
<1>18. E1 = E /\ C1 = C
  BY <1>5, <1>17 DEF Trees
<1> QED
  BY <1>18 DEF E1, C1, Well

(***************************************************************************)
(* Part 4: the tokens, the grammar and the stack.                          *)
(***************************************************************************)
(* The last token, and no other, is the end of the input. *)
EndsOnce ==
  /\ \A k \in DOMAIN tokens :
       tokens[k].type = "endOfInput" <=> Lexed /\ k = Len(tokens)
  /\ Lexed => parser_tokens = tokens

LEMMA EndsOnceKept == LexInv /\ EndsOnce /\ [LexNext]_lexerVars => EndsOnce'
<1> SUFFICES ASSUME LexInv, EndsOnce, [LexNext]_lexerVars
             PROVE  EndsOnce'
  OBVIOUS
<1>1. CASE UNCHANGED lexerVars
  BY <1>1 DEF lexerVars, EndsOnce, Lexed, parser_tokens
<1>2. tokens \in Seq(Token) /\ Len(tokens) \in Nat /\ DOMAIN tokens = 1 .. Len(tokens)
  BY DEF LexInv, LexTypeOK
<1>3. ASSUME NEW ty \in TokenType \ {"endOfInput"}, NEW number, MakeToken(ty, number),
             ~Lexed, lexer_result' = lexer_result
      PROVE  EndsOnce'
  <2> DEFINE token == Token_init(ty, NextWord, number)
  <2>1. tokens' = Append(tokens, token) /\ token.type # "endOfInput"
    BY <1>3 DEF MakeToken, Token_init
  <2> HIDE DEF token
  <2>2. ASSUME NEW k \in DOMAIN tokens'
        PROVE  tokens'[k].type # "endOfInput"
    <3>1. CASE k = Len(tokens) + 1
      BY <1>2, <2>1, <3>1
    <3>2. CASE k \in DOMAIN tokens
      <4>1. tokens'[k] = tokens[k]
        BY <1>2, <2>1, <3>2
      <4> QED
        BY <1>3, <3>2, <4>1 DEF EndsOnce
    <3> QED
      BY <1>2, <2>1, <3>1, <3>2
  <2> QED
    BY <1>3, <2>2 DEF EndsOnce, Lexed
<1>4. CASE ReadKnownName \/ ReadNewName
  BY <1>3, <1>4 DEF ReadKnownName, ReadNewName, Reading, TokenType
<1>5. CASE ReadInt \/ ReadUnknown
  BY <1>3, <1>5 DEF ReadInt, ReadUnknown, Reading, TokenType
<1>6. CASE ReadKeyword
  <2>1. NextWord \in DOMAIN Keyword
    BY <1>6 DEF ReadKeyword, Reading
  <2>2. Keyword[NextWord] \in TokenType \ {"endOfInput"}
    BY <2>1 DEF Keyword, TokenType
  <2> QED
    BY <1>3, <1>6, <2>2 DEF ReadKeyword, Reading
<1>7. CASE ReadEnd
  <2> DEFINE eof == Token_init("endOfInput", "EOF", -1)
  <2>1. /\ tokens' = Append(tokens, eof) /\ parser_tokens' = tokens' /\ ~Lexed
        /\ eof.type = "endOfInput"
    BY <1>7 DEF ReadEnd, parser_tokens, Token_init
  <2> HIDE DEF eof
  <2>2. Lexed' /\ Len(tokens') = Len(tokens) + 1 /\ DOMAIN tokens' = 1 .. Len(tokens) + 1
    BY <1>2, <2>1 DEF Lexed, parser_tokens
  <2>3. ASSUME NEW k \in DOMAIN tokens'
        PROVE  tokens'[k].type = "endOfInput" <=> k = Len(tokens')
    <3>1. CASE k = Len(tokens) + 1
      BY <1>2, <2>1, <2>2, <3>1
    <3>2. CASE k \in DOMAIN tokens
      <4>1. tokens'[k] = tokens[k] /\ k # Len(tokens) + 1
        BY <1>2, <2>1, <3>2
      <4> QED
        BY <2>1, <2>2, <3>2, <4>1 DEF EndsOnce
    <3> QED
      BY <1>2, <2>2, <3>1, <3>2
  <2> QED
    BY <2>1, <2>2, <2>3 DEF EndsOnce
<1> QED
  BY <1>1, <1>4, <1>5, <1>6, <1>7 DEF LexNext

----------------------------------------------------------------------------
(* The grammar. *)
RuleNames ==
  {"prog", "func", "funcs", "lastFunc", "while", "assign", "comp", "return", "int", "add",
   "sub", "call", "var", "name", "noNames", "names", "lastName", "namescont", "noExprs",
   "exprs", "lastExpr", "exprscont"}

Symbol == TokenType \cup Nonterminal

LEMMA GrammarRules ==
  /\ DOMAIN Grammar = RuleNames
  /\ Nonterminal = {"prog", "func", "funcs", "comm", "expr", "name", "names", "namescont",
                    "exprs", "exprscont"}
<1>1. DOMAIN Grammar = RuleNames
  BY DEF Grammar, RuleNames
<1>2. Nonterminal = {"prog", "func", "funcs", "comm", "expr", "name", "names", "namescont",
                    "exprs", "exprscont"}
  BY <1>1 DEF Nonterminal, Grammar, Rule, RuleNames
<1> QED
  BY <1>1, <1>2

LEMMA Tuples ==
  ASSUME NEW S
  PROVE  /\ <<>> \in Seq(S)
         /\ \A a \in S : <<a>> \in Seq(S)
         /\ \A a, b \in S : <<a, b>> \in Seq(S)
         /\ \A a, b, c \in S : <<a, b, c>> \in Seq(S)
         /\ \A a, b, c, d \in S : <<a, b, c, d>> \in Seq(S)
         /\ \A a, b, c, d, e, f \in S : <<a, b, c, d, e, f>> \in Seq(S)
         /\ \A a, b, c, d, e, f, g \in S : <<a, b, c, d, e, f, g>> \in Seq(S)
OBVIOUS

LEMMA GrammarType ==
  ASSUME NEW rule \in DOMAIN Grammar
  PROVE  Grammar[rule].rhs \in Seq(Symbol) /\ Grammar[rule].lhs \in Nonterminal
<1>1. /\ {"LParen", "RParen", "LCurly", "RCurly", "Comma", "While", "Do", "Assign",
          "Semi", "Return", "Add", "Sub", "Name", "Int"} \subseteq Symbol
      /\ {"prog", "func", "funcs", "comm", "expr", "name", "names", "namescont",
          "exprs", "exprscont"} \subseteq Symbol
  BY GrammarRules DEF Symbol, TokenType
<1>2. Grammar[rule].lhs \in Nonterminal
  BY DEF Nonterminal
<1>3. CASE rule = "prog"
  BY <1>1, <1>2, <1>3, Tuples DEF Grammar, Rule
<1>4. CASE rule = "func"
  BY <1>1, <1>2, <1>4, Tuples DEF Grammar, Rule
<1>5. CASE rule = "funcs"
  BY <1>1, <1>2, <1>5, Tuples DEF Grammar, Rule
<1>6. CASE rule = "lastFunc"
  BY <1>1, <1>2, <1>6, Tuples DEF Grammar, Rule
<1>7. CASE rule = "while"
  BY <1>1, <1>2, <1>7, Tuples DEF Grammar, Rule
<1>8. CASE rule = "assign"
  BY <1>1, <1>2, <1>8, Tuples DEF Grammar, Rule
<1>9. CASE rule = "comp"
  BY <1>1, <1>2, <1>9, Tuples DEF Grammar, Rule
<1>10. CASE rule = "return"
  BY <1>1, <1>2, <1>10, Tuples DEF Grammar, Rule
<1>11. CASE rule = "int"
  BY <1>1, <1>2, <1>11, Tuples DEF Grammar, Rule
<1>12. CASE rule = "add"
  BY <1>1, <1>2, <1>12, Tuples DEF Grammar, Rule
<1>13. CASE rule = "sub"
  BY <1>1, <1>2, <1>13, Tuples DEF Grammar, Rule
<1>14. CASE rule = "call"
  BY <1>1, <1>2, <1>14, Tuples DEF Grammar, Rule
<1>15. CASE rule = "var"
  BY <1>1, <1>2, <1>15, Tuples DEF Grammar, Rule
<1>16. CASE rule = "name"
  BY <1>1, <1>2, <1>16, Tuples DEF Grammar, Rule
<1>17. CASE rule = "noNames"
  BY <1>1, <1>2, <1>17, Tuples DEF Grammar, Rule
<1>18. CASE rule = "names"
  BY <1>1, <1>2, <1>18, Tuples DEF Grammar, Rule
<1>19. CASE rule = "lastName"
  BY <1>1, <1>2, <1>19, Tuples DEF Grammar, Rule
<1>20. CASE rule = "namescont"
  BY <1>1, <1>2, <1>20, Tuples DEF Grammar, Rule
<1>21. CASE rule = "noExprs"
  BY <1>1, <1>2, <1>21, Tuples DEF Grammar, Rule
<1>22. CASE rule = "exprs"
  BY <1>1, <1>2, <1>22, Tuples DEF Grammar, Rule
<1>23. CASE rule = "lastExpr"
  BY <1>1, <1>2, <1>23, Tuples DEF Grammar, Rule
<1>24. CASE rule = "exprscont"
  BY <1>1, <1>2, <1>24, Tuples DEF Grammar, Rule
<1> QED
  BY GrammarRules, <1>3, <1>4, <1>5, <1>6, <1>7, <1>8, <1>9, <1>10, <1>11, <1>12, <1>13, <1>14,
     <1>15, <1>16, <1>17, <1>18, <1>19, <1>20, <1>21, <1>22, <1>23, <1>24 DEF RuleNames

----------------------------------------------------------------------------
(* The stack.  What a function is: its arguments' names are the first of its local
   names, the others are different, and a variable in its body is the index of one. *)
InFrame(func) ==
  /\ func.num_args <= Len(func.local_name_map)
  /\ \A i, j \in DOMAIN func.local_name_map :
       i < j /\ func.local_name_map[i] = func.local_name_map[j] => j <= func.num_args
  /\ VariablesInside(func.body) \subseteq 0 .. Len(func.local_name_map) - 1

FuncsOver(C) ==
  {func \in [name : Int, num_args : Nat, local_name_map : Seq(Int), body : C] : InFrame(func)}

(* The values of a symbol. *)
Sort(sym, E, C) ==
  CASE sym \in TokenType               -> Token
    [] sym = "name"                    -> Int
    [] sym \in {"names", "namescont"}  -> Seq(Int)
    [] sym = "expr"                    -> E
    [] sym \in {"exprs", "exprscont"}  -> Seq(E)
    [] sym = "comm"                    -> C
    [] sym = "func"                    -> FuncsOver(C)
    [] sym \in {"funcs", "prog"}       -> Seq(FuncsOver(C))

Entries(E, C) ==
  {entry \in [sym : Symbol, yyval : UNION {Sort(sym, E, C) : sym \in Symbol}] :
     entry.yyval \in Sort(entry.sym, E, C)}

SortTable(E, C) ==
  /\ \A type \in TokenType : Sort(type, E, C) = Token
  /\ Sort("name", E, C) = Int
  /\ Sort("names", E, C) = Seq(Int) /\ Sort("namescont", E, C) = Seq(Int)
  /\ Sort("expr", E, C) = E
  /\ Sort("exprs", E, C) = Seq(E) /\ Sort("exprscont", E, C) = Seq(E)
  /\ Sort("comm", E, C) = C
  /\ Sort("func", E, C) = FuncsOver(C)
  /\ Sort("funcs", E, C) = Seq(FuncsOver(C)) /\ Sort("prog", E, C) = Seq(FuncsOver(C))

LEMMA Sorts == ASSUME NEW E, NEW C PROVE SortTable(E, C)
BY DEF SortTable, Sort, TokenType

LEMMA EntryTyped ==
  ASSUME NEW E, NEW C
  PROVE  /\ \A symbol \in Symbol : \A value \in Sort(symbol, E, C) :
              [sym |-> symbol, yyval |-> value] \in Entries(E, C)
         /\ \A entry \in Entries(E, C) :
              entry.sym \in Symbol /\ entry.yyval \in Sort(entry.sym, E, C)
<1>1. ASSUME NEW symbol \in Symbol, NEW value \in Sort(symbol, E, C)
      PROVE  [sym |-> symbol, yyval |-> value] \in Entries(E, C)
  <2>1. value \in UNION {Sort(sym, E, C) : sym \in Symbol}
    OBVIOUS
  <2> HIDE DEF Sort
  <2> QED
    BY <2>1 DEF Entries
<1> QED
  BY <1>1 DEF Entries

(* Popping n entries and pushing one. *)
LEMMA Popped ==
  ASSUME NEW S, NEW s \in Seq(S), NEW n \in 0 .. Len(s), NEW e \in S
  PROVE  LET t == Append(SubSeq(s, 1, Len(s) - n), e)
         IN  /\ t \in Seq(S)
             /\ Len(t) = Len(s) - n + 1
             /\ DOMAIN t = 1 .. Len(s) - n + 1
             /\ t[Len(s) - n + 1] = e
             /\ \A i \in 1 .. Len(s) - n : t[i] = s[i]
<1> DEFINE p == SubSeq(s, 1, Len(s) - n)
<1>1. Len(s) \in Nat /\ n \in Nat /\ Len(s) - n \in Nat /\ Len(s) - n <= Len(s)
  OBVIOUS
<1>2. p \in Seq(S) /\ Len(p) = Len(s) - n /\ \A i \in 1 .. Len(s) - n : p[i] = s[i]
  BY <1>1
<1> HIDE DEF p
<1> QED
  BY <1>1, <1>2 DEF p

(* A reduction, whatever its value, ... *)
LEMMA ReduceStack ==
  ASSUME NEW S, symbols \in Seq(S),
         NEW rule \in DOMAIN Grammar, NEW value, Reduce(rule, value)
  PROVE  LET low == Len(symbols) - Len(Grammar[rule].rhs)
             e   == [sym |-> Grammar[rule].lhs, yyval |-> value]
         IN  /\ symbols' \in Seq(S \cup {e})
             /\ Len(Grammar[rule].rhs) \in 0 .. Len(symbols)
             /\ Len(symbols') = low + 1
             /\ DOMAIN symbols' = 1 .. low + 1
             /\ symbols'[low + 1] = e
             /\ \A i \in 1 .. low : symbols'[i] = symbols[i]
<1> DEFINE e == [sym |-> Grammar[rule].lhs, yyval |-> value]
           n == Len(Grammar[rule].rhs)
           T == S \cup {e}
<1>1. Grammar[rule].rhs \in Seq(Symbol)
  BY GrammarType
<1>2. n \in 0 .. Len(symbols)
  BY <1>1 DEF Reduce, OnTop, Handle
<1>3. symbols' = Append(SubSeq(symbols, 1, Len(symbols) - n), e)
  BY DEF Reduce, Push
<1>4. symbols \in Seq(T) /\ e \in T
  OBVIOUS
<1> HIDE DEF T, n, e
<1>5. /\ symbols' \in Seq(T)
      /\ Len(symbols') = Len(symbols) - n + 1
      /\ DOMAIN symbols' = 1 .. Len(symbols) - n + 1
      /\ symbols'[Len(symbols) - n + 1] = e
      /\ \A i \in 1 .. Len(symbols) - n : symbols'[i] = symbols[i]
  BY <1>2, <1>3, <1>4, Popped
<1> QED
  BY <1>2, <1>5 DEF T, n, e

(* ... and a shift. *)
LEMMA ShiftStack ==
  ASSUME NEW S, symbols \in Seq(S), Shift
  PROVE  LET e == [sym |-> yylval.type, yyval |-> yylval]
         IN  /\ symbols' \in Seq(S \cup {e})
             /\ Len(symbols') = Len(symbols) + 1
             /\ DOMAIN symbols' = 1 .. Len(symbols) + 1
             /\ symbols'[Len(symbols) + 1] = e
             /\ \A i \in 1 .. Len(symbols) : symbols'[i] = symbols[i]
<1> DEFINE e == [sym |-> yylval.type, yyval |-> yylval]
           T == S \cup {e}
<1>1. symbols \in Seq(T) /\ e \in T /\ symbols' = Append(symbols, e)
  BY DEF Shift, Push
<1> HIDE DEF T, e
<1>2. /\ symbols' \in Seq(T)
      /\ Len(symbols') = Len(symbols) + 1
      /\ DOMAIN symbols' = 1 .. Len(symbols) + 1
      /\ symbols'[Len(symbols) + 1] = e
      /\ \A i \in 1 .. Len(symbols) : symbols'[i] = symbols[i]
  BY <1>1
<1> QED
  BY <1>2 DEF T, e

(* The semantic action of a function: the arguments, and then the body's variables, get
   the first indices. *)
LEMMA FunctionsAreInFrame ==
  ASSUME NEW E, NEW C, Trees(E, C), WalkThrough(E \cup C, Maps),
         NEW name \in Int, NEW names \in Seq(Int), NEW comm \in C,
         NEW map, map = CompleteLocalMap(names, comm)
  PROVE  Func_init_pos(name, Len(names), map, LocallyNamed(map, comm)) \in FuncsOver(C)
<1>1. VariablesOf(comm) \in Seq(Int) /\ CallsOf(comm) \in Seq(Int)
      /\ CalleesOf(comm) = Range(CallsOf(comm))
  BY TermsAreWalked DEF Walked
<1>2. Extends(map, names, VariablesInside(comm))
  BY <1>1, LeasedExtends DEF CompleteLocalMap, VariablesInside
<1>3. map \in Seq(Int) /\ VariablesInside(comm) \subseteq Range(map)
  BY <1>2 DEF Extends
<1> DEFINE v == Indices(map)
           f == Unchanged(CallsOf(comm))
           body == Renamed(comm, v, f)
<1>4. Range(map) \subseteq Int /\ Range(CallsOf(comm)) \subseteq Int
  BY <1>1, <1>3 DEF Range
<1>5. \A n \in Range(map) : lease_name(map, n) \in 0 .. Len(map) - 1
  BY <1>3, LeaseNameFound
<1>6. v \in [Range(map) -> 0 .. Len(map) - 1] /\ f \in [Range(CallsOf(comm)) -> Int]
  BY <1>4, <1>5 DEF Indices, Unchanged
<1>7. v \in Maps /\ f \in Maps
  <2>1. v \in [Range(map) -> Int]
    BY <1>6
  <2> QED
    BY <1>4, <1>6, <2>1 DEF Maps
<1>8. body \in C /\ VariablesInside(body) = Image(v, VariablesInside(comm))
  <2>1. RenamedWell(comm, C, v, f)
    BY <1>7, TermsRenameWell
  <2> QED
    BY <1>1, <1>3, <1>6, <2>1 DEF RenamedWell
<1>9. VariablesInside(body) \subseteq 0 .. Len(map) - 1
  BY <1>3, <1>6, <1>8 DEF Image
<1> HIDE DEF body
<1> DEFINE func == Func_init_pos(name, Len(names), map, body)
<1>10. /\ func \in [name : Int, num_args : Nat, local_name_map : Seq(Int), body : C]
       /\ func.num_args = Len(names) /\ func.local_name_map = map /\ func.body = body
  BY <1>3, <1>8 DEF Func_init_pos
<1>11. InFrame(func)
  <2> HIDE DEF func
  <2> QED
    BY <1>2, <1>9, <1>10 DEF InFrame, Extends
<1> QED
  BY <1>10, <1>11 DEF FuncsOver, LocallyNamed, body

(***************************************************************************)
(* Part 5: what is on the stack, and with which values, where a rule is    *)
(* reduced.                                                                *)
(***************************************************************************)
(* What is on the stack where the right-hand side of a rule is complete. *)
LEMMA Handles ==
  /\ OnTop("prog") => 1 <= Len(symbols) /\ SymbolAt(0) = "funcs"
  /\ OnTop("func") => 7 <= Len(symbols) /\ SymbolAt(0) = "RCurly" /\ SymbolAt(1) = "comm"
       /\ SymbolAt(2) = "LCurly" /\ SymbolAt(3) = "RParen" /\ SymbolAt(4) = "names"
            /\ SymbolAt(5) = "LParen" /\ SymbolAt(6) = "name"
  /\ OnTop("funcs") => 2 <= Len(symbols) /\ SymbolAt(0) = "funcs" /\ SymbolAt(1) = "func"
  /\ OnTop("lastFunc") => 1 <= Len(symbols) /\ SymbolAt(0) = "func"
  /\ OnTop("while") => 6 <= Len(symbols) /\ SymbolAt(0) = "RCurly" /\ SymbolAt(1) = "comm"
       /\ SymbolAt(2) = "LCurly" /\ SymbolAt(3) = "Do" /\ SymbolAt(4) = "expr"
            /\ SymbolAt(5) = "While"
  /\ OnTop("assign") => 3 <= Len(symbols) /\ SymbolAt(0) = "expr" /\ SymbolAt(1) = "Assign"
       /\ SymbolAt(2) = "name"
  /\ OnTop("comp") => 3 <= Len(symbols) /\ SymbolAt(0) = "comm" /\ SymbolAt(1) = "Semi"
       /\ SymbolAt(2) = "comm"
  /\ OnTop("return") => 2 <= Len(symbols) /\ SymbolAt(0) = "expr" /\ SymbolAt(1) = "Return"
  /\ OnTop("int") => 1 <= Len(symbols) /\ SymbolAt(0) = "Int"
  /\ OnTop("add") => 3 <= Len(symbols) /\ SymbolAt(0) = "expr" /\ SymbolAt(1) = "Add"
       /\ SymbolAt(2) = "expr"
  /\ OnTop("sub") => 3 <= Len(symbols) /\ SymbolAt(0) = "expr" /\ SymbolAt(1) = "Sub"
       /\ SymbolAt(2) = "expr"
  /\ OnTop("call") => 4 <= Len(symbols) /\ SymbolAt(0) = "RParen" /\ SymbolAt(1) = "exprs"
       /\ SymbolAt(2) = "LParen" /\ SymbolAt(3) = "name"
  /\ OnTop("var") => 1 <= Len(symbols) /\ SymbolAt(0) = "name"
  /\ OnTop("name") => 1 <= Len(symbols) /\ SymbolAt(0) = "Name"
  /\ OnTop("names") => 2 <= Len(symbols) /\ SymbolAt(0) = "namescont" /\ SymbolAt(1) = "name"
  /\ OnTop("namescont") => 3 <= Len(symbols) /\ SymbolAt(0) = "namescont"
       /\ SymbolAt(1) = "name" /\ SymbolAt(2) = "Comma"
  /\ OnTop("exprs") => 2 <= Len(symbols) /\ SymbolAt(0) = "exprscont" /\ SymbolAt(1) = "expr"
  /\ OnTop("exprscont") => 3 <= Len(symbols) /\ SymbolAt(0) = "exprscont"
       /\ SymbolAt(1) = "expr" /\ SymbolAt(2) = "Comma"
<1>1. ASSUME OnTop("prog")
      PROVE  1 <= Len(symbols) /\ SymbolAt(0) = "funcs"
  <2> DEFINE rhs == <<"funcs">>
  <2>1. Handle(rhs)
    BY <1>1 DEF OnTop, Grammar, Rule
  <2>2. 1 \in DOMAIN rhs /\ Len(rhs) = 1
    OBVIOUS
  <2>3. SymbolAt(1 - 1) = rhs[1]
    BY <2>1, <2>2 DEF Handle
  <2> QED
    BY <2>1, <2>2, <2>3 DEF Handle
<1>2. ASSUME OnTop("func")
      PROVE  7 <= Len(symbols) /\ SymbolAt(0) = "RCurly" /\ SymbolAt(1) = "comm"
              /\ SymbolAt(2) = "LCurly" /\ SymbolAt(3) = "RParen" /\ SymbolAt(4) = "names"
                   /\ SymbolAt(5) = "LParen" /\ SymbolAt(6) = "name"
  <2> DEFINE rhs == <<"name", "LParen", "names", "RParen", "LCurly", "comm", "RCurly">>
  <2>1. Handle(rhs)
    BY <1>2 DEF OnTop, Grammar, Rule
  <2>2. 1 \in DOMAIN rhs /\ 2 \in DOMAIN rhs /\ 3 \in DOMAIN rhs /\ 4 \in DOMAIN rhs
        /\ 5 \in DOMAIN rhs /\ 6 \in DOMAIN rhs /\ 7 \in DOMAIN rhs /\ Len(rhs) = 7
    OBVIOUS
  <2>3. SymbolAt(7 - 1) = rhs[1] /\ SymbolAt(7 - 2) = rhs[2] /\ SymbolAt(7 - 3) = rhs[3]
        /\ SymbolAt(7 - 4) = rhs[4] /\ SymbolAt(7 - 5) = rhs[5] /\ SymbolAt(7 - 6) = rhs[6]
             /\ SymbolAt(7 - 7) = rhs[7]
    BY <2>1, <2>2 DEF Handle
  <2> QED
    BY <2>1, <2>2, <2>3 DEF Handle
<1>3. ASSUME OnTop("funcs")
      PROVE  2 <= Len(symbols) /\ SymbolAt(0) = "funcs" /\ SymbolAt(1) = "func"
  <2> DEFINE rhs == <<"func", "funcs">>
  <2>1. Handle(rhs)
    BY <1>3 DEF OnTop, Grammar, Rule
  <2>2. 1 \in DOMAIN rhs /\ 2 \in DOMAIN rhs /\ Len(rhs) = 2
    OBVIOUS
  <2>3. SymbolAt(2 - 1) = rhs[1] /\ SymbolAt(2 - 2) = rhs[2]
    BY <2>1, <2>2 DEF Handle
  <2> QED
    BY <2>1, <2>2, <2>3 DEF Handle
<1>4. ASSUME OnTop("lastFunc")
      PROVE  1 <= Len(symbols) /\ SymbolAt(0) = "func"
  <2> DEFINE rhs == <<"func">>
  <2>1. Handle(rhs)
    BY <1>4 DEF OnTop, Grammar, Rule
  <2>2. 1 \in DOMAIN rhs /\ Len(rhs) = 1
    OBVIOUS
  <2>3. SymbolAt(1 - 1) = rhs[1]
    BY <2>1, <2>2 DEF Handle
  <2> QED
    BY <2>1, <2>2, <2>3 DEF Handle
<1>5. ASSUME OnTop("while")
      PROVE  6 <= Len(symbols) /\ SymbolAt(0) = "RCurly" /\ SymbolAt(1) = "comm"
              /\ SymbolAt(2) = "LCurly" /\ SymbolAt(3) = "Do" /\ SymbolAt(4) = "expr"
                   /\ SymbolAt(5) = "While"
  <2> DEFINE rhs == <<"While", "expr", "Do", "LCurly", "comm", "RCurly">>
  <2>1. Handle(rhs)
    BY <1>5 DEF OnTop, Grammar, Rule
  <2>2. 1 \in DOMAIN rhs /\ 2 \in DOMAIN rhs /\ 3 \in DOMAIN rhs /\ 4 \in DOMAIN rhs
        /\ 5 \in DOMAIN rhs /\ 6 \in DOMAIN rhs /\ Len(rhs) = 6
    OBVIOUS
  <2>3. SymbolAt(6 - 1) = rhs[1] /\ SymbolAt(6 - 2) = rhs[2] /\ SymbolAt(6 - 3) = rhs[3]
        /\ SymbolAt(6 - 4) = rhs[4] /\ SymbolAt(6 - 5) = rhs[5] /\ SymbolAt(6 - 6) = rhs[6]
    BY <2>1, <2>2 DEF Handle
  <2> QED
    BY <2>1, <2>2, <2>3 DEF Handle
<1>6. ASSUME OnTop("assign")
      PROVE  3 <= Len(symbols) /\ SymbolAt(0) = "expr" /\ SymbolAt(1) = "Assign"
              /\ SymbolAt(2) = "name"
  <2> DEFINE rhs == <<"name", "Assign", "expr">>
  <2>1. Handle(rhs)
    BY <1>6 DEF OnTop, Grammar, Rule
  <2>2. 1 \in DOMAIN rhs /\ 2 \in DOMAIN rhs /\ 3 \in DOMAIN rhs /\ Len(rhs) = 3
    OBVIOUS
  <2>3. SymbolAt(3 - 1) = rhs[1] /\ SymbolAt(3 - 2) = rhs[2] /\ SymbolAt(3 - 3) = rhs[3]
    BY <2>1, <2>2 DEF Handle
  <2> QED
    BY <2>1, <2>2, <2>3 DEF Handle
<1>7. ASSUME OnTop("comp")
      PROVE  3 <= Len(symbols) /\ SymbolAt(0) = "comm" /\ SymbolAt(1) = "Semi"
              /\ SymbolAt(2) = "comm"
  <2> DEFINE rhs == <<"comm", "Semi", "comm">>
  <2>1. Handle(rhs)
    BY <1>7 DEF OnTop, Grammar, Rule
  <2>2. 1 \in DOMAIN rhs /\ 2 \in DOMAIN rhs /\ 3 \in DOMAIN rhs /\ Len(rhs) = 3
    OBVIOUS
  <2>3. SymbolAt(3 - 1) = rhs[1] /\ SymbolAt(3 - 2) = rhs[2] /\ SymbolAt(3 - 3) = rhs[3]
    BY <2>1, <2>2 DEF Handle
  <2> QED
    BY <2>1, <2>2, <2>3 DEF Handle
<1>8. ASSUME OnTop("return")
      PROVE  2 <= Len(symbols) /\ SymbolAt(0) = "expr" /\ SymbolAt(1) = "Return"
  <2> DEFINE rhs == <<"Return", "expr">>
  <2>1. Handle(rhs)
    BY <1>8 DEF OnTop, Grammar, Rule
  <2>2. 1 \in DOMAIN rhs /\ 2 \in DOMAIN rhs /\ Len(rhs) = 2
    OBVIOUS
  <2>3. SymbolAt(2 - 1) = rhs[1] /\ SymbolAt(2 - 2) = rhs[2]
    BY <2>1, <2>2 DEF Handle
  <2> QED
    BY <2>1, <2>2, <2>3 DEF Handle
<1>9. ASSUME OnTop("int")
      PROVE  1 <= Len(symbols) /\ SymbolAt(0) = "Int"
  <2> DEFINE rhs == <<"Int">>
  <2>1. Handle(rhs)
    BY <1>9 DEF OnTop, Grammar, Rule
  <2>2. 1 \in DOMAIN rhs /\ Len(rhs) = 1
    OBVIOUS
  <2>3. SymbolAt(1 - 1) = rhs[1]
    BY <2>1, <2>2 DEF Handle
  <2> QED
    BY <2>1, <2>2, <2>3 DEF Handle
<1>10. ASSUME OnTop("add")
      PROVE  3 <= Len(symbols) /\ SymbolAt(0) = "expr" /\ SymbolAt(1) = "Add"
              /\ SymbolAt(2) = "expr"
  <2> DEFINE rhs == <<"expr", "Add", "expr">>
  <2>1. Handle(rhs)
    BY <1>10 DEF OnTop, Grammar, Rule
  <2>2. 1 \in DOMAIN rhs /\ 2 \in DOMAIN rhs /\ 3 \in DOMAIN rhs /\ Len(rhs) = 3
    OBVIOUS
  <2>3. SymbolAt(3 - 1) = rhs[1] /\ SymbolAt(3 - 2) = rhs[2] /\ SymbolAt(3 - 3) = rhs[3]
    BY <2>1, <2>2 DEF Handle
  <2> QED
    BY <2>1, <2>2, <2>3 DEF Handle
<1>11. ASSUME OnTop("sub")
      PROVE  3 <= Len(symbols) /\ SymbolAt(0) = "expr" /\ SymbolAt(1) = "Sub"
              /\ SymbolAt(2) = "expr"
  <2> DEFINE rhs == <<"expr", "Sub", "expr">>
  <2>1. Handle(rhs)
    BY <1>11 DEF OnTop, Grammar, Rule
  <2>2. 1 \in DOMAIN rhs /\ 2 \in DOMAIN rhs /\ 3 \in DOMAIN rhs /\ Len(rhs) = 3
    OBVIOUS
  <2>3. SymbolAt(3 - 1) = rhs[1] /\ SymbolAt(3 - 2) = rhs[2] /\ SymbolAt(3 - 3) = rhs[3]
    BY <2>1, <2>2 DEF Handle
  <2> QED
    BY <2>1, <2>2, <2>3 DEF Handle
<1>12. ASSUME OnTop("call")
      PROVE  4 <= Len(symbols) /\ SymbolAt(0) = "RParen" /\ SymbolAt(1) = "exprs"
              /\ SymbolAt(2) = "LParen" /\ SymbolAt(3) = "name"
  <2> DEFINE rhs == <<"name", "LParen", "exprs", "RParen">>
  <2>1. Handle(rhs)
    BY <1>12 DEF OnTop, Grammar, Rule
  <2>2. 1 \in DOMAIN rhs /\ 2 \in DOMAIN rhs /\ 3 \in DOMAIN rhs /\ 4 \in DOMAIN rhs
        /\ Len(rhs) = 4
    OBVIOUS
  <2>3. SymbolAt(4 - 1) = rhs[1] /\ SymbolAt(4 - 2) = rhs[2] /\ SymbolAt(4 - 3) = rhs[3]
        /\ SymbolAt(4 - 4) = rhs[4]
    BY <2>1, <2>2 DEF Handle
  <2> QED
    BY <2>1, <2>2, <2>3 DEF Handle
<1>13. ASSUME OnTop("var")
      PROVE  1 <= Len(symbols) /\ SymbolAt(0) = "name"
  <2> DEFINE rhs == <<"name">>
  <2>1. Handle(rhs)
    BY <1>13 DEF OnTop, Grammar, Rule
  <2>2. 1 \in DOMAIN rhs /\ Len(rhs) = 1
    OBVIOUS
  <2>3. SymbolAt(1 - 1) = rhs[1]
    BY <2>1, <2>2 DEF Handle
  <2> QED
    BY <2>1, <2>2, <2>3 DEF Handle
<1>14. ASSUME OnTop("name")
      PROVE  1 <= Len(symbols) /\ SymbolAt(0) = "Name"
  <2> DEFINE rhs == <<"Name">>
  <2>1. Handle(rhs)
    BY <1>14 DEF OnTop, Grammar, Rule
  <2>2. 1 \in DOMAIN rhs /\ Len(rhs) = 1
    OBVIOUS
  <2>3. SymbolAt(1 - 1) = rhs[1]
    BY <2>1, <2>2 DEF Handle
  <2> QED
    BY <2>1, <2>2, <2>3 DEF Handle
<1>15. ASSUME OnTop("names")
      PROVE  2 <= Len(symbols) /\ SymbolAt(0) = "namescont" /\ SymbolAt(1) = "name"
  <2> DEFINE rhs == <<"name", "namescont">>
  <2>1. Handle(rhs)
    BY <1>15 DEF OnTop, Grammar, Rule
  <2>2. 1 \in DOMAIN rhs /\ 2 \in DOMAIN rhs /\ Len(rhs) = 2
    OBVIOUS
  <2>3. SymbolAt(2 - 1) = rhs[1] /\ SymbolAt(2 - 2) = rhs[2]
    BY <2>1, <2>2 DEF Handle
  <2> QED
    BY <2>1, <2>2, <2>3 DEF Handle
<1>16. ASSUME OnTop("namescont")
      PROVE  3 <= Len(symbols) /\ SymbolAt(0) = "namescont" /\ SymbolAt(1) = "name"
              /\ SymbolAt(2) = "Comma"
  <2> DEFINE rhs == <<"Comma", "name", "namescont">>
  <2>1. Handle(rhs)
    BY <1>16 DEF OnTop, Grammar, Rule
  <2>2. 1 \in DOMAIN rhs /\ 2 \in DOMAIN rhs /\ 3 \in DOMAIN rhs /\ Len(rhs) = 3
    OBVIOUS
  <2>3. SymbolAt(3 - 1) = rhs[1] /\ SymbolAt(3 - 2) = rhs[2] /\ SymbolAt(3 - 3) = rhs[3]
    BY <2>1, <2>2 DEF Handle
  <2> QED
    BY <2>1, <2>2, <2>3 DEF Handle
<1>17. ASSUME OnTop("exprs")
      PROVE  2 <= Len(symbols) /\ SymbolAt(0) = "exprscont" /\ SymbolAt(1) = "expr"
  <2> DEFINE rhs == <<"expr", "exprscont">>
  <2>1. Handle(rhs)
    BY <1>17 DEF OnTop, Grammar, Rule
  <2>2. 1 \in DOMAIN rhs /\ 2 \in DOMAIN rhs /\ Len(rhs) = 2
    OBVIOUS
  <2>3. SymbolAt(2 - 1) = rhs[1] /\ SymbolAt(2 - 2) = rhs[2]
    BY <2>1, <2>2 DEF Handle
  <2> QED
    BY <2>1, <2>2, <2>3 DEF Handle
<1>18. ASSUME OnTop("exprscont")
      PROVE  3 <= Len(symbols) /\ SymbolAt(0) = "exprscont" /\ SymbolAt(1) = "expr"
              /\ SymbolAt(2) = "Comma"
  <2> DEFINE rhs == <<"Comma", "expr", "exprscont">>
  <2>1. Handle(rhs)
    BY <1>18 DEF OnTop, Grammar, Rule
  <2>2. 1 \in DOMAIN rhs /\ 2 \in DOMAIN rhs /\ 3 \in DOMAIN rhs /\ Len(rhs) = 3
    OBVIOUS
  <2>3. SymbolAt(3 - 1) = rhs[1] /\ SymbolAt(3 - 2) = rhs[2] /\ SymbolAt(3 - 3) = rhs[3]
    BY <2>1, <2>2 DEF Handle
  <2> QED
    BY <2>1, <2>2, <2>3 DEF Handle
<1> QED
  BY <1>1, <1>2, <1>3, <1>4, <1>5, <1>6, <1>7, <1>8, <1>9, <1>10, <1>11, <1>12, <1>13, <1>14,
     <1>15, <1>16, <1>17, <1>18

(* A value is one of its symbol's. *)
LEMMA ValueAt ==
  ASSUME NEW E, NEW C, symbols \in Seq(Entries(E, C)),
         NEW k \in Nat \ {0}, k <= Len(symbols)
  PROVE  Value(k) \in Sort(SymbolAt(k - 1), E, C)
<1> DEFINE i == Len(symbols) + 1 - k
<1>1. Len(symbols) \in Nat /\ i \in DOMAIN symbols /\ k - 1 < Len(symbols)
      /\ Len(symbols) - (k - 1) = i
  OBVIOUS
<1>2. symbols[i] \in Entries(E, C)
  BY <1>1
<1>3. Value(k) = symbols[i].yyval /\ SymbolAt(k - 1) = symbols[i].sym
  <2> HIDE DEF i
  <2>1. SymbolAt(k - 1) = symbols[i].sym
    BY <1>1 DEF SymbolAt
  <2>2. Value(k) = symbols[i].yyval
    BY DEF Value, i
  <2> QED
    BY <2>1, <2>2
<1> HIDE DEF i
<1> QED
  BY <1>2, <1>3, EntryTyped

(* What the values of a complete right-hand side are, as the rule's action finds them. *)
LEMMA HandleTypes ==
  ASSUME NEW E, NEW C, symbols \in Seq(Entries(E, C))
  PROVE  /\ OnTop("prog")      => Value(1) \in Seq(FuncsOver(C))
         /\ OnTop("func")      => Value(7) \in Int /\ Value(5) \in Seq(Int) /\ Value(2) \in C
         /\ OnTop("funcs")     => Value(2) \in FuncsOver(C) /\ Value(1) \in Seq(FuncsOver(C))
         /\ OnTop("lastFunc")  => Value(1) \in FuncsOver(C)
         /\ OnTop("while")     => Value(5) \in E /\ Value(2) \in C
         /\ OnTop("assign")    => Value(3) \in Int /\ Value(1) \in E
         /\ OnTop("comp")      => Value(3) \in C /\ Value(1) \in C
         /\ OnTop("return")    => Value(1) \in E
         /\ OnTop("add")       => Value(3) \in E /\ Value(1) \in E
         /\ OnTop("sub")       => Value(3) \in E /\ Value(1) \in E
         /\ OnTop("call")      => Value(4) \in Int /\ Value(2) \in Seq(E)
         /\ OnTop("var")       => Value(1) \in Int
         /\ OnTop("names")     => Value(2) \in Int /\ Value(1) \in Seq(Int)
         /\ OnTop("namescont") => Value(2) \in Int /\ Value(1) \in Seq(Int)
         /\ OnTop("exprs")     => Value(2) \in E /\ Value(1) \in Seq(E)
         /\ OnTop("exprscont") => Value(2) \in E /\ Value(1) \in Seq(E)
<1>1. /\ 1 <= Len(symbols) => Value(1) \in Sort(SymbolAt(0), E, C)
      /\ 2 <= Len(symbols) => Value(2) \in Sort(SymbolAt(1), E, C)
      /\ 3 <= Len(symbols) => Value(3) \in Sort(SymbolAt(2), E, C)
      /\ 4 <= Len(symbols) => Value(4) \in Sort(SymbolAt(3), E, C)
      /\ 5 <= Len(symbols) => Value(5) \in Sort(SymbolAt(4), E, C)
      /\ 7 <= Len(symbols) => Value(7) \in Sort(SymbolAt(6), E, C)
      /\ Len(symbols) \in Nat
  <2>1. \A k \in Nat \ {0} : k <= Len(symbols) => Value(k) \in Sort(SymbolAt(k - 1), E, C)
    BY ValueAt
  <2> QED
    BY <2>1
<1>2. SortTable(E, C)
  BY Sorts
<1>3. ASSUME OnTop("prog")
      PROVE  Value(1) \in Seq(FuncsOver(C))
  <2>1. Value(1) \in Sort("funcs", E, C)
    BY <1>1, <1>3, Handles
  <2> QED
    BY <1>2, <2>1 DEF SortTable
<1>4. ASSUME OnTop("func")
      PROVE  Value(7) \in Int /\ Value(5) \in Seq(Int) /\ Value(2) \in C
  <2>1. Value(2) \in Sort("comm", E, C) /\ Value(5) \in Sort("names", E, C)
        /\ Value(7) \in Sort("name", E, C)
    BY <1>1, <1>4, Handles
  <2> QED
    BY <1>2, <2>1 DEF SortTable
<1>5. ASSUME OnTop("funcs")
      PROVE  Value(2) \in FuncsOver(C) /\ Value(1) \in Seq(FuncsOver(C))
  <2>1. Value(1) \in Sort("funcs", E, C) /\ Value(2) \in Sort("func", E, C)
    BY <1>1, <1>5, Handles
  <2> QED
    BY <1>2, <2>1 DEF SortTable
<1>6. ASSUME OnTop("lastFunc")
      PROVE  Value(1) \in FuncsOver(C)
  <2>1. Value(1) \in Sort("func", E, C)
    BY <1>1, <1>6, Handles
  <2> QED
    BY <1>2, <2>1 DEF SortTable
<1>7. ASSUME OnTop("while")
      PROVE  Value(5) \in E /\ Value(2) \in C
  <2>1. Value(2) \in Sort("comm", E, C) /\ Value(5) \in Sort("expr", E, C)
    BY <1>1, <1>7, Handles
  <2> QED
    BY <1>2, <2>1 DEF SortTable
<1>8. ASSUME OnTop("assign")
      PROVE  Value(3) \in Int /\ Value(1) \in E
  <2>1. Value(1) \in Sort("expr", E, C) /\ Value(3) \in Sort("name", E, C)
    BY <1>1, <1>8, Handles
  <2> QED
    BY <1>2, <2>1 DEF SortTable
<1>9. ASSUME OnTop("comp")
      PROVE  Value(3) \in C /\ Value(1) \in C
  <2>1. Value(1) \in Sort("comm", E, C) /\ Value(3) \in Sort("comm", E, C)
    BY <1>1, <1>9, Handles
  <2> QED
    BY <1>2, <2>1 DEF SortTable
<1>10. ASSUME OnTop("return")
      PROVE  Value(1) \in E
  <2>1. Value(1) \in Sort("expr", E, C)
    BY <1>1, <1>10, Handles
  <2> QED
    BY <1>2, <2>1 DEF SortTable
<1>11. ASSUME OnTop("add")
      PROVE  Value(3) \in E /\ Value(1) \in E
  <2>1. Value(1) \in Sort("expr", E, C) /\ Value(3) \in Sort("expr", E, C)
    BY <1>1, <1>11, Handles
  <2> QED
    BY <1>2, <2>1 DEF SortTable
<1>12. ASSUME OnTop("sub")
      PROVE  Value(3) \in E /\ Value(1) \in E
  <2>1. Value(1) \in Sort("expr", E, C) /\ Value(3) \in Sort("expr", E, C)
    BY <1>1, <1>12, Handles
  <2> QED
    BY <1>2, <2>1 DEF SortTable
<1>13. ASSUME OnTop("call")
      PROVE  Value(4) \in Int /\ Value(2) \in Seq(E)
  <2>1. Value(2) \in Sort("exprs", E, C) /\ Value(4) \in Sort("name", E, C)
    BY <1>1, <1>13, Handles
  <2> QED
    BY <1>2, <2>1 DEF SortTable
<1>14. ASSUME OnTop("var")
      PROVE  Value(1) \in Int
  <2>1. Value(1) \in Sort("name", E, C)
    BY <1>1, <1>14, Handles
  <2> QED
    BY <1>2, <2>1 DEF SortTable
<1>15. ASSUME OnTop("names")
      PROVE  Value(2) \in Int /\ Value(1) \in Seq(Int)
  <2>1. Value(1) \in Sort("namescont", E, C) /\ Value(2) \in Sort("name", E, C)
    BY <1>1, <1>15, Handles
  <2> QED
    BY <1>2, <2>1 DEF SortTable
<1>16. ASSUME OnTop("namescont")
      PROVE  Value(2) \in Int /\ Value(1) \in Seq(Int)
  <2>1. Value(1) \in Sort("namescont", E, C) /\ Value(2) \in Sort("name", E, C)
    BY <1>1, <1>16, Handles
  <2> QED
    BY <1>2, <2>1 DEF SortTable
<1>17. ASSUME OnTop("exprs")
      PROVE  Value(2) \in E /\ Value(1) \in Seq(E)
  <2>1. Value(1) \in Sort("exprscont", E, C) /\ Value(2) \in Sort("expr", E, C)
    BY <1>1, <1>17, Handles
  <2> QED
    BY <1>2, <2>1 DEF SortTable
<1>18. ASSUME OnTop("exprscont")
      PROVE  Value(2) \in E /\ Value(1) \in Seq(E)
  <2>1. Value(1) \in Sort("exprscont", E, C) /\ Value(2) \in Sort("expr", E, C)
    BY <1>1, <1>18, Handles
  <2> QED
    BY <1>2, <2>1 DEF SortTable
<1> QED
  BY <1>3, <1>4, <1>5, <1>6, <1>7, <1>8, <1>9, <1>10, <1>11, <1>12, <1>13, <1>14, <1>15, <1>16,
     <1>17, <1>18

(***************************************************************************)
(* Part 6: the machine, whatever the values are.                           *)
(***************************************************************************)
(* The stack is one: a sequence of grammar symbols. *)
Stacked == \E S : symbols \in Seq(S) /\ \A entry \in S : entry.sym \in Symbol

(* How far the tokens are read.  The last of them is not read before the result is
   there, but for a lookahead. *)
ReadSoFar ==
  /\ parser_token_idx \in -1 .. Len(parser_tokens) - 1
  /\ lookahead \in BOOLEAN
  /\ lookahead => parser_token_idx >= 0 /\ yylval.type # "error"
  /\ errors \in Seq(Token)
  /\ Parsing /\ ~lookahead => parser_token_idx + 1 < Len(parser_tokens)

(* The last token is still in yylval when the rule of its symbol is reduced. *)
InHand ==
  Top \in {"Int", "Name"} => ~lookahead /\ parser_token_idx >= 0 /\ yylval = Value(1)

ProgAlone == \A i \in DOMAIN symbols : symbols[i].sym = "prog" => Len(symbols) = 1

(* What has been decided goes with the errors. *)
Decided ==
  /\ Parsed => errors = <<>>
  /\ Failed => parse_result.errors = errors /\ errors # <<>>
  /\ parse_result # Pending => Lexed

(* The invariant of the machine, whatever the values are. *)
MachineInv ==
  LexInv /\ EndsOnce /\ Stacked /\ ReadSoFar /\ InHand /\ ProgAlone /\ Decided

LEMMA MachineInit == FrontEndInit => MachineInv
<1> SUFFICES ASSUME FrontEndInit PROVE MachineInv
  OBVIOUS
<1>1. LexInv
  BY LexInitInv DEF FrontEndInit
<1>2. /\ tokens = <<>> /\ parser_tokens = <<>> /\ symbols = <<>> /\ parser_token_idx = -1
      /\ lookahead = FALSE /\ errors = <<>> /\ parse_result = Pending
  BY DEF FrontEndInit, LexInit, ParserInit, parser_tokens, NoResult
<1>3. EndsOnce /\ ~Lexed
  BY <1>2 DEF EndsOnce, Lexed, parser_tokens
<1>4. Stacked
  BY <1>2 DEF Stacked
<1>5. ReadSoFar
  <2>1. Len(parser_tokens) = 0 /\ errors \in Seq(Token)
    BY <1>2
  <2> QED
    BY <1>2, <1>3, <2>1, -1 \in -1 .. 0 - 1 DEF ReadSoFar, Parsing
<1>6. Len(symbols) = 0 /\ DOMAIN symbols = {}
  BY <1>2
<1>7. Top = "start"
  BY <1>6 DEF Top, SymbolAt
<1>8. InHand /\ ProgAlone
  BY <1>6, <1>7 DEF InHand, ProgAlone
<1>9. Decided
  BY <1>2 DEF Decided, Parsed, Failed, Pending
<1> QED
  BY <1>1, <1>3, <1>4, <1>5, <1>8, <1>9 DEF MachineInv

(* While the lexer is at work the parser waits. *)
LEMMA LexingInv == MachineInv /\ LexNext /\ UNCHANGED parserVars => MachineInv'
<1> SUFFICES ASSUME MachineInv, LexNext, UNCHANGED parserVars
             PROVE  MachineInv'
  OBVIOUS
<1>1. LexInv' /\ EndsOnce'
  BY LexNextInv, EndsOnceKept DEF MachineInv
<1>2. /\ symbols' = symbols /\ parser_token_idx' = parser_token_idx /\ lookahead' = lookahead
      /\ errors' = errors /\ parse_result' = parse_result
  BY DEF parserVars
<1>3. ~Lexed
  BY DEF LexNext, ReadKnownName, ReadNewName, ReadInt, ReadKeyword, ReadUnknown, ReadEnd,
     Reading
<1>4. parser_tokens = <<>> /\ parser_token_idx = -1 /\ lookahead = FALSE
  <2>1. parser_tokens = <<>>
    BY <1>3 DEF Lexed, parser_tokens
  <2> QED
    BY <2>1 DEF MachineInv, ReadSoFar
<1>5. Len(parser_tokens') \in Nat
  BY <1>1 DEF LexInv, LexTypeOK, LexerResult, parser_tokens
<1>6. Lexed' => Len(parser_tokens') > 0
  <2>1. parser_tokens' \in Seq(Token)
    BY <1>1 DEF LexInv, LexTypeOK, LexerResult, parser_tokens
  <2> QED
    BY <2>1 DEF Lexed, parser_tokens
<1>7. ReadSoFar'
  BY <1>2, <1>4, <1>5, <1>6 DEF MachineInv, ReadSoFar, Parsing
<1>8. Stacked' /\ ProgAlone'
  BY <1>2 DEF MachineInv, Stacked, ProgAlone
<1>9. InHand'
  <2>1. Top' = Top
    BY <1>2 DEF Top, SymbolAt
  <2>2. Top \notin {"Int", "Name"}
    BY <1>4 DEF MachineInv, InHand
  <2> QED
    BY <2>1, <2>2 DEF InHand
<1>10. Decided'
  BY <1>2, <1>3 DEF MachineInv, Decided, Parsed, Failed
<1> QED
  BY <1>1, <1>7, <1>8, <1>9, <1>10 DEF MachineInv

(* Facts about the tokens. *)
LEMMA TokensRead ==
  ASSUME MachineInv, Parsing
  PROVE  /\ parser_tokens \in Seq(Token) /\ Len(parser_tokens) \in Nat
         /\ parser_token_idx \in Int
         /\ \A k \in 1 .. Len(parser_tokens) :
              /\ parser_tokens[k] \in Token
              /\ parser_tokens[k].type = "endOfInput" <=> k = Len(parser_tokens)
<1>1. parser_tokens \in Seq(Token) /\ Lexed
  BY DEF MachineInv, LexInv, LexTypeOK, LexerResult, parser_tokens, Parsing
<1>2. parser_tokens = tokens /\ Len(tokens) \in Nat /\ DOMAIN tokens = 1 .. Len(tokens)
  BY <1>1 DEF MachineInv, EndsOnce
<1>3. parser_token_idx \in Int
  BY <1>1, <1>2 DEF MachineInv, ReadSoFar
<1>4. ASSUME NEW k \in 1 .. Len(parser_tokens)
      PROVE  /\ parser_tokens[k] \in Token
             /\ parser_tokens[k].type = "endOfInput" <=> k = Len(parser_tokens)
  <2>1. parser_tokens[k] \in Token
    BY <1>1
  <2>2. tokens[k].type = "endOfInput" <=> k = Len(tokens)
    BY <1>1, <1>2 DEF MachineInv, EndsOnce
  <2> QED
    BY <1>2, <2>1, <2>2
<1> QED
  BY <1>1, <1>2, <1>3, <1>4

LEMMA TopSymbol ==
  ASSUME NEW S, symbols \in Seq(S), symbols # <<>>
  PROVE  /\ Len(symbols) \in Nat \ {0}
         /\ Top = symbols[Len(symbols)].sym /\ Value(1) = symbols[Len(symbols)].yyval
<1>1. Len(symbols) \in Nat \ {0} /\ Len(symbols) - 0 = Len(symbols)
      /\ Len(symbols) + 1 - 1 = Len(symbols)
  OBVIOUS
<1> QED
  BY <1>1 DEF Top, SymbolAt, Value

LEMMA ReadTokenInv == ASSUME MachineInv, ReadToken, UNCHANGED lexerVars PROVE MachineInv'
<1>1. /\ Parsing /\ ~Consistent /\ ~lookahead
      /\ parser_token_idx' = parser_token_idx + 1
      /\ parser_token_idx + 1 < Len(parser_tokens)
      /\ NextToken.type # "error" /\ lookahead' = TRUE
      /\ symbols' = symbols /\ errors' = errors /\ parse_result' = parse_result
  BY DEF ReadToken, Yylex
<1>2. /\ lexer_result' = lexer_result /\ parser_tokens' = parser_tokens
      /\ Lexed' = Lexed /\ tokens' = tokens
  BY DEF lexerVars, parser_tokens, Lexed
<1>3. LexInv' /\ EndsOnce'
  BY LexNextInv, EndsOnceKept DEF MachineInv
<1>4. Stacked' /\ ProgAlone' /\ Decided'
  BY <1>1, <1>2 DEF MachineInv, Stacked, ProgAlone, Decided, Parsed, Failed
<1>5. /\ Len(parser_tokens) \in Nat /\ parser_token_idx \in Int
      /\ parser_token_idx >= -1
  BY <1>1, TokensRead DEF MachineInv, ReadSoFar
<1>6. yylval' = NextToken
  <2>1. parser_token_idx' + 1 = parser_token_idx + 2
    BY <1>1, <1>5
  <2> QED
    BY <1>2, <2>1 DEF yylval, NextToken
<1>7. ReadSoFar'
  BY <1>1, <1>2, <1>5, <1>6 DEF MachineInv, ReadSoFar
<1>8. InHand'
  <2>1. Top' = Top
    BY <1>1 DEF Top, SymbolAt
  <2> QED
    BY <1>1, <2>1 DEF InHand, Consistent
<1> QED
  BY <1>3, <1>4, <1>7, <1>8 DEF MachineInv

LEMMA SkipErrorTokenInv ==
  ASSUME MachineInv, SkipErrorToken, UNCHANGED lexerVars PROVE MachineInv'
<1>1. /\ Parsing /\ ~Consistent /\ ~lookahead
      /\ parser_token_idx' = parser_token_idx + 1
      /\ parser_token_idx + 1 < Len(parser_tokens)
      /\ NextToken.type = "error" /\ lookahead' = lookahead
      /\ symbols' = symbols /\ errors' = Append(errors, NextToken)
      /\ parse_result' = parse_result
  BY DEF SkipErrorToken, Yylex
<1>2. /\ lexer_result' = lexer_result /\ parser_tokens' = parser_tokens
      /\ Lexed' = Lexed /\ tokens' = tokens
  BY DEF lexerVars, parser_tokens, Lexed
<1>3. LexInv' /\ EndsOnce'
  BY LexNextInv, EndsOnceKept DEF MachineInv
<1>4. Stacked' /\ ProgAlone'
  BY <1>1, <1>2 DEF MachineInv, Stacked, ProgAlone
<1>5. Decided'
  <2>1. parse_result = Pending
    BY <1>1 DEF Parsing
  <2> QED
    BY <1>1, <2>1 DEF Decided, Parsed, Failed, Pending
<1>6. /\ Len(parser_tokens) \in Nat /\ parser_token_idx \in Int
      /\ parser_token_idx >= -1
  BY <1>1, TokensRead DEF MachineInv, ReadSoFar
<1>7. parser_token_idx + 2 \in 1 .. Len(parser_tokens)
  BY <1>1, <1>6
<1>8. NextToken \in Token /\ parser_token_idx + 2 # Len(parser_tokens)
  BY <1>1, <1>7, TokensRead DEF NextToken
<1>9. ReadSoFar'
  <2>1. errors' \in Seq(Token)
    BY <1>1, <1>8 DEF MachineInv, ReadSoFar
  <2>2. parser_token_idx' \in -1 .. Len(parser_tokens') - 1
        /\ parser_token_idx' + 1 < Len(parser_tokens')
    BY <1>1, <1>2, <1>6, <1>8
  <2> QED
    BY <1>1, <2>1, <2>2 DEF MachineInv, ReadSoFar
<1>10. InHand'
  <2>1. Top' = Top
    BY <1>1 DEF Top, SymbolAt
  <2> QED
    BY <1>1, <2>1 DEF InHand, Consistent
<1> QED
  BY <1>3, <1>4, <1>5, <1>9, <1>10 DEF MachineInv

LEMMA ShiftInv == ASSUME MachineInv, Shift, UNCHANGED lexerVars PROVE MachineInv'
<1>1. /\ Parsing /\ lookahead /\ MayShift(yylval.type) /\ lookahead' = FALSE
      /\ parser_token_idx' = parser_token_idx /\ errors' = errors
      /\ parse_result' = parse_result
  BY DEF Shift
<1>2. /\ lexer_result' = lexer_result /\ parser_tokens' = parser_tokens
      /\ Lexed' = Lexed /\ tokens' = tokens /\ yylval' = yylval
  BY <1>1 DEF lexerVars, parser_tokens, Lexed, yylval
<1>3. LexInv' /\ EndsOnce'
  BY LexNextInv, EndsOnceKept DEF MachineInv
<1>4. Decided'
  BY <1>1, <1>2 DEF MachineInv, Decided, Parsed, Failed
<1>5. /\ Len(parser_tokens) \in Nat /\ parser_token_idx \in Int
      /\ parser_token_idx >= 0 /\ parser_token_idx <= Len(parser_tokens) - 1
  BY <1>1, TokensRead DEF MachineInv, ReadSoFar
<1>6. parser_token_idx + 1 \in 1 .. Len(parser_tokens)
  BY <1>5
<1>7. yylval.type \notin {"endOfInput", "error"}
  BY <1>1 DEF MayShift, OperandPlace
<1>8. yylval \in Token /\ yylval.type \in TokenType /\ parser_token_idx + 1 # Len(parser_tokens)
  BY <1>1, <1>6, <1>7, TokensRead DEF yylval, Token
<1>9. ReadSoFar'
  <2>1. parser_token_idx + 1 < Len(parser_tokens)
    BY <1>5, <1>8
  <2> QED
    BY <1>1, <1>2, <2>1 DEF MachineInv, ReadSoFar
<1> DEFINE e == [sym |-> yylval.type, yyval |-> yylval]
           n == Len(symbols)
<1>10. PICK S : symbols \in Seq(S) /\ \A entry \in S : entry.sym \in Symbol
  BY DEF MachineInv, Stacked
<1>11. /\ symbols' \in Seq(S \cup {e})
       /\ n \in Nat /\ Len(symbols') = n + 1
       /\ DOMAIN symbols' = 1 .. n + 1 /\ DOMAIN symbols = 1 .. n
       /\ symbols'[n + 1] = e
       /\ \A i \in 1 .. n : symbols'[i] = symbols[i]
  BY <1>10, ShiftStack
<1>12. e.sym = yylval.type /\ e.yyval = yylval
  OBVIOUS
<1> HIDE DEF e, n
<1>13. Stacked'
  <2>1. \A entry \in S \cup {e} : entry.sym \in Symbol
    BY <1>8, <1>10, <1>12 DEF Symbol
  <2> QED
    BY <1>11, <2>1 DEF Stacked
<1>14. Top' = yylval.type /\ Value(1)' = yylval
  <2>1. Len(symbols') + 1 - 1 = n + 1 /\ Len(symbols') - 0 = n + 1 /\ 0 < Len(symbols')
    BY <1>11
  <2> QED
    BY <1>11, <1>12, <2>1 DEF Top, SymbolAt, Value
<1>15. InHand'
  BY <1>1, <1>2, <1>5, <1>14 DEF InHand
<1>16. Top # "prog"
  BY <1>1 DEF MayShift, OperandPlace
<1>17. \A i \in 1 .. n : symbols[i].sym # "prog"
  <2>1. ASSUME NEW i \in 1 .. n, symbols[i].sym = "prog"
        PROVE  FALSE
    <3>1. n = 1 /\ i = 1
      BY <1>11, <2>1 DEF MachineInv, ProgAlone, n
    <3>2. symbols # <<>>
      BY <1>10, <3>1 DEF n
    <3> QED
      BY <1>10, <1>16, <2>1, <3>1, <3>2, TopSymbol DEF n
  <2> QED
    BY <2>1
<1>18. ProgAlone'
  <2>1. "prog" \notin TokenType
    BY DEF TokenType
  <2> QED
    BY <1>8, <1>11, <1>12, <1>17, <2>1 DEF ProgAlone
<1> QED
  BY <1>3, <1>4, <1>9, <1>13, <1>15, <1>18 DEF MachineInv

(* No rule can be reduced when the program is done. *)
LEMMA DoneIsDone == \A rule \in DOMAIN Grammar : OnTop(rule) => Top # "prog"
<1> SUFFICES ASSUME NEW rule \in DOMAIN Grammar, OnTop(rule)
             PROVE  Top # "prog"
  OBVIOUS
<1>1. CASE rule \in {"noNames", "lastName", "noExprs", "lastExpr"}
  BY <1>1 DEF OnTop
<1>2. CASE rule \in RuleNames \ {"noNames", "lastName", "noExprs", "lastExpr"}
  BY <1>2, Handles DEF RuleNames, Top
<1> QED
  BY <1>1, <1>2, GrammarRules

LEMMA ReduceInv ==
  ASSUME MachineInv, NEW rule \in DOMAIN Grammar, NEW value, Reduce(rule, value),
         UNCHANGED lexerVars
  PROVE  MachineInv'
<1>1. /\ Parsing /\ MayReduce /\ OnTop(rule) /\ lookahead' = lookahead
      /\ parser_token_idx' = parser_token_idx /\ errors' = errors
      /\ parse_result' = parse_result
  BY DEF Reduce
<1>2. /\ lexer_result' = lexer_result /\ parser_tokens' = parser_tokens
      /\ Lexed' = Lexed /\ tokens' = tokens /\ yylval' = yylval
  BY <1>1 DEF lexerVars, parser_tokens, Lexed, yylval
<1>3. LexInv' /\ EndsOnce'
  BY LexNextInv, EndsOnceKept DEF MachineInv
<1>4. Decided' /\ ReadSoFar'
  BY <1>1, <1>2 DEF MachineInv, Decided, Parsed, Failed, ReadSoFar, Parsing
<1> DEFINE e == [sym |-> Grammar[rule].lhs, yyval |-> value]
           n == Len(symbols)
           low == n - Len(Grammar[rule].rhs)
<1>5. PICK S : symbols \in Seq(S) /\ \A entry \in S : entry.sym \in Symbol
  BY DEF MachineInv, Stacked
<1>6. /\ symbols' \in Seq(S \cup {e})
      /\ n \in Nat /\ low \in 0 .. n /\ Len(symbols') = low + 1
      /\ DOMAIN symbols' = 1 .. low + 1 /\ DOMAIN symbols = 1 .. n
      /\ symbols'[low + 1] = e
      /\ \A i \in 1 .. low : symbols'[i] = symbols[i]
  <2>1. symbols \in Seq(S)
    BY <1>5
  <2>2. Len(Grammar[rule].rhs) \in 0 .. n
    BY <2>1, ReduceStack
  <2>4. n \in Nat /\ DOMAIN symbols = 1 .. n
    BY <2>1
  <2>3. /\ symbols' \in Seq(S \cup {e}) /\ Len(symbols') = low + 1
        /\ DOMAIN symbols' = 1 .. low + 1 /\ symbols'[low + 1] = e
        /\ \A i \in 1 .. low : symbols'[i] = symbols[i]
    BY <2>1, ReduceStack
  <2> QED
    BY <2>2, <2>3, <2>4
<1>7. e.sym = Grammar[rule].lhs /\ Grammar[rule].lhs \in Nonterminal
  BY GrammarType
<1>8. rule = "prog" => n = 1 /\ low = 0
  BY <1>1 DEF OnTop, Grammar, Rule
<1>9. Grammar[rule].lhs = "prog" => rule = "prog"
  BY GrammarRules DEF RuleNames, Grammar, Rule
<1> HIDE DEF e, n, low
<1>10. Stacked'
  <2>1. \A entry \in S \cup {e} : entry.sym \in Symbol
    BY <1>5, <1>7 DEF Symbol
  <2> QED
    BY <1>6, <2>1 DEF Stacked
<1>11. Top' = Grammar[rule].lhs
  <2>1. Len(symbols') - 0 = low + 1 /\ 0 < Len(symbols')
    BY <1>6
  <2> QED
    BY <1>6, <1>7, <2>1 DEF Top, SymbolAt
<1>12. InHand'
  BY <1>7, <1>11, GrammarRules DEF InHand
<1>13. \A i \in 1 .. n : symbols[i].sym # "prog"
  <2>1. ASSUME NEW i \in 1 .. n, symbols[i].sym = "prog"
        PROVE  FALSE
    <3>1. n = 1 /\ i = 1
      BY <1>6, <2>1 DEF MachineInv, ProgAlone, n
    <3>2. symbols # <<>>
      BY <1>5, <3>1 DEF n
    <3>3. Top = "prog"
      BY <1>5, <2>1, <3>1, <3>2, TopSymbol DEF n
    <3> QED
      BY <1>1, <3>3, DoneIsDone
  <2> QED
    BY <2>1
<1>14. ProgAlone'
  <2>1. ASSUME NEW i \in 1 .. low + 1, symbols'[i].sym = "prog"
        PROVE  low + 1 = 1
    <3>1. CASE i = low + 1
      BY <1>6, <1>7, <1>8, <1>9, <2>1, <3>1
    <3>2. CASE i \in 1 .. low
      BY <1>6, <1>13, <2>1, <3>2
    <3> QED
      BY <1>6, <3>1, <3>2
  <2> QED
    BY <1>6, <2>1 DEF ProgAlone
<1> QED
  BY <1>3, <1>4, <1>10, <1>12, <1>14 DEF MachineInv

(* The three steps that decide. *)
LEMMA DecidedInv ==
  ASSUME MachineInv, SyntaxError \/ Accept \/ AcceptWithErrors, UNCHANGED lexerVars
  PROVE  MachineInv'
<1>1. /\ Parsing /\ lookahead /\ lookahead' = lookahead /\ symbols' = symbols
      /\ parser_token_idx' = parser_token_idx
  BY DEF SyntaxError, Accept, AcceptWithErrors, AtAccept
<1>2. /\ lexer_result' = lexer_result /\ parser_tokens' = parser_tokens
      /\ Lexed' = Lexed /\ tokens' = tokens /\ yylval' = yylval
  BY <1>1 DEF lexerVars, parser_tokens, Lexed, yylval
<1>3. LexInv' /\ EndsOnce'
  BY LexNextInv, EndsOnceKept DEF MachineInv
<1>4. Stacked' /\ ProgAlone'
  BY <1>1 DEF MachineInv, Stacked, ProgAlone
<1>5. InHand'
  <2>1. Top' = Top /\ Value(1)' = Value(1)
    BY <1>1 DEF Top, SymbolAt, Value
  <2> QED
    BY <1>1, <1>2, <2>1 DEF MachineInv, InHand
<1>6. errors \in Seq(Token) /\ yylval \in Token
  <2>1. parser_token_idx + 1 \in 1 .. Len(parser_tokens)
    BY <1>1, TokensRead DEF MachineInv, ReadSoFar
  <2> QED
    BY <1>1, <2>1, TokensRead DEF MachineInv, ReadSoFar, yylval
<1>7. errors' \in Seq(Token) /\ Decided'
  <2>1. CASE SyntaxError
    <3>1. errors' = Append(errors, yylval) /\ parse_result' = ParseFail_init(errors')
      BY <2>1 DEF SyntaxError
    <3>2. errors' \in Seq(Token) /\ errors' # <<>>
      BY <1>6, <3>1
    <3> QED
      BY <1>1, <1>2, <3>1, <3>2 DEF Decided, Parsed, Failed, ParseFail_init, Parsing
  <2>2. CASE Accept
    BY <1>1, <1>2, <1>6, <2>2
       DEF Accept, Decided, Parsed, Failed, ParseSuccess_init, Parsing
  <2>3. CASE AcceptWithErrors
    BY <1>1, <1>2, <1>6, <2>3
       DEF AcceptWithErrors, Decided, Parsed, Failed, ParseFail_init, Parsing
  <2> QED
    BY <2>1, <2>2, <2>3
<1>8. ReadSoFar'
  BY <1>1, <1>2, <1>7 DEF MachineInv, ReadSoFar
<1> QED
  BY <1>3, <1>4, <1>5, <1>7, <1>8 DEF MachineInv

(* A step of the parser, with its reductions taken together. *)
LEMMA ParserSteps ==
  ParserNext =>
    \/ ReadToken \/ SkipErrorToken \/ Shift
    \/ \E rule \in DOMAIN Grammar : \E value : Reduce(rule, value)
    \/ SyntaxError \/ Accept \/ AcceptWithErrors
<1> SUFFICES ASSUME ParserNext,
                    ~(ReadToken \/ SkipErrorToken \/ Shift
                        \/ SyntaxError \/ Accept \/ AcceptWithErrors)
             PROVE  \E rule \in DOMAIN Grammar : \E value : Reduce(rule, value)
  OBVIOUS
<1>1. DOMAIN Grammar = RuleNames
  BY GrammarRules
<1>2. CASE ReduceProg \/ ReduceFuncs \/ ReduceLastFunc \/ ReduceWhile \/ ReduceAssign
             \/ ReduceComp \/ ReduceReturn \/ ReduceInt \/ ReduceAdd \/ ReduceSub
  BY <1>1, <1>2 DEF RuleNames, ReduceProg, ReduceFuncs, ReduceLastFunc, ReduceWhile,
     ReduceAssign, ReduceComp, ReduceReturn, ReduceInt, ReduceAdd, ReduceSub
<1>3. CASE ReduceCall \/ ReduceVar \/ ReduceName \/ ReduceNoNames \/ ReduceNames
             \/ ReduceLastName \/ ReduceNamescont \/ ReduceNoExprs \/ ReduceExprs
             \/ ReduceLastExpr \/ ReduceExprscont
  BY <1>1, <1>3 DEF RuleNames, ReduceCall, ReduceVar, ReduceName, ReduceNoNames, ReduceNames,
     ReduceLastName, ReduceNamescont, ReduceNoExprs, ReduceExprs, ReduceLastExpr,
     ReduceExprscont
<1>4. CASE ReduceFunc
  BY <1>1, <1>4 DEF RuleNames, ReduceFunc
<1> QED
  BY <1>2, <1>3, <1>4 DEF ParserNext

LEMMA MachineNext == MachineInv /\ [FrontEndNext]_frontEndVars => MachineInv'
<1> SUFFICES ASSUME MachineInv, [FrontEndNext]_frontEndVars
             PROVE  MachineInv'
  OBVIOUS
<1>1. CASE LexNext /\ UNCHANGED parserVars
  BY <1>1, LexingInv
<1>2. CASE ParserNext /\ UNCHANGED lexerVars
  <2>1. CASE ReadToken \/ SkipErrorToken \/ Shift
    BY <1>2, <2>1, ReadTokenInv, SkipErrorTokenInv, ShiftInv
  <2>2. CASE \E rule \in DOMAIN Grammar : \E value : Reduce(rule, value)
    BY <1>2, <2>2, ReduceInv
  <2>3. CASE SyntaxError \/ Accept \/ AcceptWithErrors
    BY <1>2, <2>3, DecidedInv
  <2> QED
    BY <1>2, <2>1, <2>2, <2>3, ParserSteps
<1>3. CASE UNCHANGED frontEndVars
  <2>1. UNCHANGED lexerVars /\ UNCHANGED parserVars
    BY <1>3 DEF frontEndVars
  <2>2. LexInv' /\ EndsOnce'
    BY <2>1, LexNextInv, EndsOnceKept DEF MachineInv
  <2>3. UNCHANGED <<symbols, parser_token_idx, lookahead, errors, parse_result, lexer_result>>
    BY <2>1 DEF lexerVars, parserVars
  <2>4. Stacked' /\ ProgAlone' /\ Decided' /\ ReadSoFar'
    BY <2>3 DEF MachineInv, Stacked, ProgAlone, Decided, Parsed, Failed, Lexed, ReadSoFar,
                parser_tokens, yylval, Parsing
  <2>5. InHand'
    BY <2>3 DEF MachineInv, InHand, Top, SymbolAt, Value, yylval, parser_tokens
  <2> QED
    BY <2>2, <2>4, <2>5 DEF MachineInv
<1> QED
  BY <1>1, <1>2, <1>3 DEF FrontEndNext

LEMMA MachineInvariant == FrontEndSpec => []MachineInv
<1>1. FrontEndInit => MachineInv
  BY MachineInit
<1>2. MachineInv /\ [FrontEndNext]_frontEndVars => MachineInv'
  BY MachineNext
<1> QED
  BY <1>1, <1>2, PTL DEF FrontEndSpec

(* The variables of the lexer and the parser have their types in every state: the index of
   the last token is one of a token, what is in yylval while it waits is no error, and
   parse fails exactly with the errors that were recorded. *)
THEOREM ParserTypeCorrect == FrontEndSpec => []ParserTypeOK
<1>1. MachineInv => ParserTypeOK
  <2> SUFFICES ASSUME MachineInv PROVE ParserTypeOK
    OBVIOUS
  <2>1. \A i \in DOMAIN symbols : symbols[i].sym \in Symbol
    BY DEF MachineInv, Stacked
  <2> QED
    BY <2>1 DEF MachineInv, LexInv, ReadSoFar, Decided, ParserTypeOK, Symbol
<1> QED
  BY <1>1, MachineInvariant, PTL

(* yylex is never called when the last token has been returned: TokenVector_get, which
   ends the process behind it, always has a token. *)
THEOREM NeverReadsPastTheEnd ==
  FrontEndSpec => [](Parsing /\ ~lookahead => parser_token_idx + 1 < Len(parser_tokens))
<1>1. MachineInv => (Parsing /\ ~lookahead => parser_token_idx + 1 < Len(parser_tokens))
  BY DEF MachineInv, ReadSoFar
<1> QED
  BY <1>1, MachineInvariant, PTL

(* The actions of the rules of literals and names take the last token that yylex has
   returned for their own: it is, as bison has not read on. *)
THEOREM ActionsSeeTheirToken ==
  FrontEndSpec => [](OnTop("int") \/ OnTop("name") => ~lookahead /\ yylval = Value(1))
<1>1. MachineInv => (OnTop("int") \/ OnTop("name") => ~lookahead /\ yylval = Value(1))
  BY Handles DEF MachineInv, InHand, Top
<1> QED
  BY <1>1, MachineInvariant, PTL

(***************************************************************************)
(* Part 7: what the values stand for, and the program that is linked.      *)
(* Every value on the stack belongs to its symbol, and what the func rule  *)
(* makes is in its frame: what linking needs to know of the trees it walks *)
(* through.                                                                *)
(***************************************************************************)
(* The program that parse makes of its functions. *)
LinkedProg(funcs, names) ==
  [funcs |-> GloballyNamed(CompleteFuncMap(funcs), funcs),
   func_name_map |-> CompleteFuncMap(funcs),
   name_map |-> names]

(* The invariant of the values: each belongs to its symbol, and the result is made of
   functions as the func rule makes them. *)
ValuesInv(E, C) ==
  /\ MachineInv
  /\ symbols \in Seq(Entries(E, C))
  /\ Parsed => \E funcs \in Seq(FuncsOver(C)) : \E names :
                 parse_result.prog = LinkedProg(funcs, names)

LEMMA LeftSides ==
  /\ DOMAIN Grammar = RuleNames
  /\ Grammar["prog"].lhs = "prog" /\ Grammar["func"].lhs = "func"
  /\ Grammar["funcs"].lhs = "funcs" /\ Grammar["lastFunc"].lhs = "funcs"
  /\ Grammar["while"].lhs = "comm" /\ Grammar["assign"].lhs = "comm"
  /\ Grammar["comp"].lhs = "comm" /\ Grammar["return"].lhs = "comm"
  /\ Grammar["int"].lhs = "expr" /\ Grammar["add"].lhs = "expr"
  /\ Grammar["sub"].lhs = "expr" /\ Grammar["call"].lhs = "expr"
  /\ Grammar["var"].lhs = "expr" /\ Grammar["name"].lhs = "name"
  /\ Grammar["noNames"].lhs = "names" /\ Grammar["names"].lhs = "names"
  /\ Grammar["lastName"].lhs = "namescont" /\ Grammar["namescont"].lhs = "namescont"
  /\ Grammar["noExprs"].lhs = "exprs" /\ Grammar["exprs"].lhs = "exprs"
  /\ Grammar["lastExpr"].lhs = "exprscont" /\ Grammar["exprscont"].lhs = "exprscont"
BY DEF Grammar, Rule, RuleNames

LEMMA PutFirst ==
  ASSUME NEW S, NEW a \in S, NEW s \in Seq(S)
  PROVE  <<a>> \o s \in Seq(S)
<1>1. <<a>> \in Seq(S)
  OBVIOUS
<1> QED
  BY <1>1

(* Every reduction pushes a value of its symbol's sort. *)
LEMMA ReductionsAreTyped ==
  ASSUME NEW E, NEW C, Trees(E, C), WalkThrough(E \cup C, Maps), ValuesInv(E, C), ParserNext
  PROVE  \/ ReadToken \/ SkipErrorToken \/ Shift
         \/ \E rule \in DOMAIN Grammar : \E value \in Sort(Grammar[rule].lhs, E, C) :
              Reduce(rule, value)
         \/ SyntaxError \/ Accept \/ AcceptWithErrors
<1> DEFINE Goal == \E rule \in DOMAIN Grammar : \E value \in Sort(Grammar[rule].lhs, E, C) :
                     Reduce(rule, value)
<1>1. ASSUME NEW rule \in RuleNames, NEW value \in Sort(Grammar[rule].lhs, E, C),
             Reduce(rule, value)
      PROVE  Goal
  BY <1>1, LeftSides
<1>2. SortTable(E, C)
  BY Sorts
<1>3. symbols \in Seq(Entries(E, C)) /\ Closed(E, C)
  BY DEF ValuesInv, Trees
<1>4. "Int" \in TokenType /\ "Name" \in TokenType
  BY DEF TokenType
<1>5. OnTop("int") \/ OnTop("name") => yylval.name \in Int
  <2>1. 1 <= Len(symbols) => Value(1) \in Sort(SymbolAt(0), E, C)
    <3>1. 1 - 1 = 0 /\ 1 \in Nat \ {0}
      OBVIOUS
    <3> QED
      BY <1>3, <3>1, ValueAt
  <2>2. ASSUME OnTop("int") \/ OnTop("name")
        PROVE  yylval.name \in Int
    <3>1. yylval = Value(1) /\ Value(1) \in Sort(SymbolAt(0), E, C)
          /\ SymbolAt(0) \in {"Int", "Name"}
      BY <2>1, <2>2, Handles DEF ValuesInv, MachineInv, InHand, Top
    <3>2. yylval \in Token
      BY <1>2, <1>4, <3>1 DEF SortTable
    <3> QED
      BY <3>2 DEF Token
  <2> QED
    BY <2>2
<1> HIDE DEF Goal
<1>6. ASSUME ReduceFunc PROVE Goal
  <2>1. PICK map \in {CompleteLocalMap(Value(5), Value(2))} :
          Reduce("func",
                 Func_init_pos(Value(7), Len(Value(5)), map, LocallyNamed(map, Value(2))))
    BY <1>6 DEF ReduceFunc
  <2>2. Value(7) \in Int /\ Value(5) \in Seq(Int) /\ Value(2) \in C
    BY <1>3, <1>6, HandleTypes DEF ReduceFunc
  <2>3. Func_init_pos(Value(7), Len(Value(5)), map, LocallyNamed(map, Value(2)))
          \in Sort(Grammar["func"].lhs, E, C)
    BY <1>2, <2>2, FunctionsAreInFrame, LeftSides DEF SortTable
  <2> QED
    BY <1>1, <2>1, <2>3 DEF RuleNames
<1>7. ASSUME ReduceProg PROVE Goal
  <2>1. OnTop("prog") /\ Reduce("prog", Value(1))
    BY <1>7 DEF ReduceProg, Reduce
  <2>2. Value(1) \in Seq(FuncsOver(C))
    BY <1>3, <2>1, HandleTypes
  <2>3. Value(1) \in Sort(Grammar["prog"].lhs, E, C)
    BY <1>2, <2>2, LeftSides DEF SortTable
  <2> QED
    BY <1>1, <2>1, <2>3 DEF RuleNames
<1>8. ASSUME ReduceFuncs PROVE Goal
  <2>1. OnTop("funcs") /\ Reduce("funcs", <<Value(2)>> \o Value(1))
    BY <1>8 DEF ReduceFuncs, Reduce
  <2>2. <<Value(2)>> \o Value(1) \in Seq(FuncsOver(C))
    BY <1>3, <2>1, HandleTypes, PutFirst
  <2>3. <<Value(2)>> \o Value(1) \in Sort(Grammar["funcs"].lhs, E, C)
    BY <1>2, <2>2, LeftSides DEF SortTable
  <2> QED
    BY <1>1, <2>1, <2>3 DEF RuleNames
<1>9. ASSUME ReduceLastFunc PROVE Goal
  <2>1. OnTop("lastFunc") /\ Reduce("lastFunc", <<Value(1)>>)
    BY <1>9 DEF ReduceLastFunc, Reduce
  <2>2. <<Value(1)>> \in Seq(FuncsOver(C))
    BY <1>3, <2>1, HandleTypes, Tuples
  <2>3. <<Value(1)>> \in Sort(Grammar["lastFunc"].lhs, E, C)
    BY <1>2, <2>2, LeftSides DEF SortTable
  <2> QED
    BY <1>1, <2>1, <2>3 DEF RuleNames
<1>10. ASSUME ReduceWhile PROVE Goal
  <2>1. OnTop("while") /\ Reduce("while", While_init(Value(5), Value(2)))
    BY <1>10 DEF ReduceWhile, Reduce
  <2>2. While_init(Value(5), Value(2)) \in C
    BY <1>3, <2>1, HandleTypes DEF Closed
  <2>3. While_init(Value(5), Value(2)) \in Sort(Grammar["while"].lhs, E, C)
    BY <1>2, <2>2, LeftSides DEF SortTable
  <2> QED
    BY <1>1, <2>1, <2>3 DEF RuleNames
<1>11. ASSUME ReduceAssign PROVE Goal
  <2>1. OnTop("assign") /\ Reduce("assign", Assign_init(Value(3), Value(1)))
    BY <1>11 DEF ReduceAssign, Reduce
  <2>2. Assign_init(Value(3), Value(1)) \in C
    BY <1>3, <2>1, HandleTypes DEF Closed
  <2>3. Assign_init(Value(3), Value(1)) \in Sort(Grammar["assign"].lhs, E, C)
    BY <1>2, <2>2, LeftSides DEF SortTable
  <2> QED
    BY <1>1, <2>1, <2>3 DEF RuleNames
<1>12. ASSUME ReduceComp PROVE Goal
  <2>1. OnTop("comp") /\ Reduce("comp", Comp_init(Value(3), Value(1)))
    BY <1>12 DEF ReduceComp, Reduce
  <2>2. Comp_init(Value(3), Value(1)) \in C
    BY <1>3, <2>1, HandleTypes DEF Closed
  <2>3. Comp_init(Value(3), Value(1)) \in Sort(Grammar["comp"].lhs, E, C)
    BY <1>2, <2>2, LeftSides DEF SortTable
  <2> QED
    BY <1>1, <2>1, <2>3 DEF RuleNames
<1>13. ASSUME ReduceReturn PROVE Goal
  <2>1. OnTop("return") /\ Reduce("return", Return_init(Value(1)))
    BY <1>13 DEF ReduceReturn, Reduce
  <2>2. Return_init(Value(1)) \in C
    BY <1>3, <2>1, HandleTypes DEF Closed
  <2>3. Return_init(Value(1)) \in Sort(Grammar["return"].lhs, E, C)
    BY <1>2, <2>2, LeftSides DEF SortTable
  <2> QED
    BY <1>1, <2>1, <2>3 DEF RuleNames
<1>14. ASSUME ReduceInt PROVE Goal
  <2>1. OnTop("int") /\ Reduce("int", Int_init(yylval.name))
    BY <1>14 DEF ReduceInt, Reduce
  <2>2. Int_init(yylval.name) \in E
    BY <1>3, <1>5, <2>1 DEF Closed
  <2>3. Int_init(yylval.name) \in Sort(Grammar["int"].lhs, E, C)
    BY <1>2, <2>2, LeftSides DEF SortTable
  <2> QED
    BY <1>1, <2>1, <2>3 DEF RuleNames
<1>15. ASSUME ReduceAdd PROVE Goal
  <2>1. OnTop("add") /\ Reduce("add", Add_init(Value(3), Value(1)))
    BY <1>15 DEF ReduceAdd, Reduce
  <2>2. Add_init(Value(3), Value(1)) \in E
    BY <1>3, <2>1, HandleTypes DEF Closed
  <2>3. Add_init(Value(3), Value(1)) \in Sort(Grammar["add"].lhs, E, C)
    BY <1>2, <2>2, LeftSides DEF SortTable
  <2> QED
    BY <1>1, <2>1, <2>3 DEF RuleNames
<1>16. ASSUME ReduceSub PROVE Goal
  <2>1. OnTop("sub") /\ Reduce("sub", Sub_init(Value(3), Value(1)))
    BY <1>16 DEF ReduceSub, Reduce
  <2>2. Sub_init(Value(3), Value(1)) \in E
    BY <1>3, <2>1, HandleTypes DEF Closed
  <2>3. Sub_init(Value(3), Value(1)) \in Sort(Grammar["sub"].lhs, E, C)
    BY <1>2, <2>2, LeftSides DEF SortTable
  <2> QED
    BY <1>1, <2>1, <2>3 DEF RuleNames
<1>17. ASSUME ReduceCall PROVE Goal
  <2>1. OnTop("call") /\ Reduce("call", Call_init(Value(4), Value(2)))
    BY <1>17 DEF ReduceCall, Reduce
  <2>2. Call_init(Value(4), Value(2)) \in E
    BY <1>3, <2>1, HandleTypes DEF Closed
  <2>3. Call_init(Value(4), Value(2)) \in Sort(Grammar["call"].lhs, E, C)
    BY <1>2, <2>2, LeftSides DEF SortTable
  <2> QED
    BY <1>1, <2>1, <2>3 DEF RuleNames
<1>18. ASSUME ReduceVar PROVE Goal
  <2>1. OnTop("var") /\ Reduce("var", Var_init(Value(1)))
    BY <1>18 DEF ReduceVar, Reduce
  <2>2. Var_init(Value(1)) \in E
    BY <1>3, <2>1, HandleTypes DEF Closed
  <2>3. Var_init(Value(1)) \in Sort(Grammar["var"].lhs, E, C)
    BY <1>2, <2>2, LeftSides DEF SortTable
  <2> QED
    BY <1>1, <2>1, <2>3 DEF RuleNames
<1>19. ASSUME ReduceName PROVE Goal
  <2>1. OnTop("name") /\ Reduce("name", yylval.name)
    BY <1>19 DEF ReduceName, Reduce
  <2>2. yylval.name \in Int
    BY <1>5, <2>1
  <2>3. yylval.name \in Sort(Grammar["name"].lhs, E, C)
    BY <1>2, <2>2, LeftSides DEF SortTable
  <2> QED
    BY <1>1, <2>1, <2>3 DEF RuleNames
<1>20. ASSUME ReduceNoNames PROVE Goal
  <2>1. OnTop("noNames") /\ Reduce("noNames", <<>>)
    BY <1>20 DEF ReduceNoNames, Reduce
  <2>2. <<>> \in Seq(Int)
    BY <2>1, Tuples
  <2>3. <<>> \in Sort(Grammar["noNames"].lhs, E, C)
    BY <1>2, <2>2, LeftSides DEF SortTable
  <2> QED
    BY <1>1, <2>1, <2>3 DEF RuleNames
<1>21. ASSUME ReduceNames PROVE Goal
  <2>1. OnTop("names") /\ Reduce("names", <<Value(2)>> \o Value(1))
    BY <1>21 DEF ReduceNames, Reduce
  <2>2. <<Value(2)>> \o Value(1) \in Seq(Int)
    BY <1>3, <2>1, HandleTypes, PutFirst
  <2>3. <<Value(2)>> \o Value(1) \in Sort(Grammar["names"].lhs, E, C)
    BY <1>2, <2>2, LeftSides DEF SortTable
  <2> QED
    BY <1>1, <2>1, <2>3 DEF RuleNames
<1>22. ASSUME ReduceLastName PROVE Goal
  <2>1. OnTop("lastName") /\ Reduce("lastName", <<>>)
    BY <1>22 DEF ReduceLastName, Reduce
  <2>2. <<>> \in Seq(Int)
    BY <2>1, Tuples
  <2>3. <<>> \in Sort(Grammar["lastName"].lhs, E, C)
    BY <1>2, <2>2, LeftSides DEF SortTable
  <2> QED
    BY <1>1, <2>1, <2>3 DEF RuleNames
<1>23. ASSUME ReduceNamescont PROVE Goal
  <2>1. OnTop("namescont") /\ Reduce("namescont", <<Value(2)>> \o Value(1))
    BY <1>23 DEF ReduceNamescont, Reduce
  <2>2. <<Value(2)>> \o Value(1) \in Seq(Int)
    BY <1>3, <2>1, HandleTypes, PutFirst
  <2>3. <<Value(2)>> \o Value(1) \in Sort(Grammar["namescont"].lhs, E, C)
    BY <1>2, <2>2, LeftSides DEF SortTable
  <2> QED
    BY <1>1, <2>1, <2>3 DEF RuleNames
<1>24. ASSUME ReduceNoExprs PROVE Goal
  <2>1. OnTop("noExprs") /\ Reduce("noExprs", <<>>)
    BY <1>24 DEF ReduceNoExprs, Reduce
  <2>2. <<>> \in Seq(E)
    BY <2>1, Tuples
  <2>3. <<>> \in Sort(Grammar["noExprs"].lhs, E, C)
    BY <1>2, <2>2, LeftSides DEF SortTable
  <2> QED
    BY <1>1, <2>1, <2>3 DEF RuleNames
<1>25. ASSUME ReduceExprs PROVE Goal
  <2>1. OnTop("exprs") /\ Reduce("exprs", <<Value(2)>> \o Value(1))
    BY <1>25 DEF ReduceExprs, Reduce
  <2>2. <<Value(2)>> \o Value(1) \in Seq(E)
    BY <1>3, <2>1, HandleTypes, PutFirst
  <2>3. <<Value(2)>> \o Value(1) \in Sort(Grammar["exprs"].lhs, E, C)
    BY <1>2, <2>2, LeftSides DEF SortTable
  <2> QED
    BY <1>1, <2>1, <2>3 DEF RuleNames
<1>26. ASSUME ReduceLastExpr PROVE Goal
  <2>1. OnTop("lastExpr") /\ Reduce("lastExpr", <<>>)
    BY <1>26 DEF ReduceLastExpr, Reduce
  <2>2. <<>> \in Seq(E)
    BY <2>1, Tuples
  <2>3. <<>> \in Sort(Grammar["lastExpr"].lhs, E, C)
    BY <1>2, <2>2, LeftSides DEF SortTable
  <2> QED
    BY <1>1, <2>1, <2>3 DEF RuleNames
<1>27. ASSUME ReduceExprscont PROVE Goal
  <2>1. OnTop("exprscont") /\ Reduce("exprscont", <<Value(2)>> \o Value(1))
    BY <1>27 DEF ReduceExprscont, Reduce
  <2>2. <<Value(2)>> \o Value(1) \in Seq(E)
    BY <1>3, <2>1, HandleTypes, PutFirst
  <2>3. <<Value(2)>> \o Value(1) \in Sort(Grammar["exprscont"].lhs, E, C)
    BY <1>2, <2>2, LeftSides DEF SortTable
  <2> QED
    BY <1>1, <2>1, <2>3 DEF RuleNames
<1> QED
  BY <1>6, <1>7, <1>8, <1>9, <1>10, <1>11, <1>12, <1>13, <1>14, <1>15, <1>16, <1>17, <1>18,
     <1>19, <1>20, <1>21, <1>22, <1>23, <1>24, <1>25, <1>26, <1>27 DEF ParserNext, Goal

LEMMA ValuesInit == ASSUME NEW E, NEW C PROVE FrontEndInit => ValuesInv(E, C)
<1> SUFFICES ASSUME FrontEndInit PROVE ValuesInv(E, C)
  OBVIOUS
<1>1. symbols = <<>> /\ parse_result = Pending
  BY DEF FrontEndInit, ParserInit
<1> QED
  BY <1>1, MachineInit DEF ValuesInv, Parsed, Pending

LEMMA ValuesNext ==
  ASSUME NEW E, NEW C, Trees(E, C), WalkThrough(E \cup C, Maps)
  PROVE  ValuesInv(E, C) /\ [FrontEndNext]_frontEndVars => ValuesInv(E, C)'
<1> SUFFICES ASSUME ValuesInv(E, C), [FrontEndNext]_frontEndVars
             PROVE  ValuesInv(E, C)'
  OBVIOUS
<1> DEFINE S == Entries(E, C)
<1>1. MachineInv'
  BY MachineNext DEF ValuesInv
<1>2. symbols \in Seq(S) /\ MachineInv
  BY DEF ValuesInv
<1>3. SortTable(E, C)
  BY Sorts
<1>4. ASSUME symbols' = symbols, parse_result' = parse_result
      PROVE  ValuesInv(E, C)'
  BY <1>1, <1>4 DEF ValuesInv, Parsed
<1>5. ASSUME symbols' \in Seq(S), parse_result' = parse_result
      PROVE  ValuesInv(E, C)'
  BY <1>1, <1>5 DEF ValuesInv, Parsed
<1>6. CASE UNCHANGED parserVars
  BY <1>4, <1>6 DEF parserVars
<1>7. CASE ParserNext
  <2>1. CASE ReadToken \/ SkipErrorToken
    BY <1>4, <2>1 DEF ReadToken, SkipErrorToken
  <2>2. CASE Shift
    <3> DEFINE e == [sym |-> yylval.type, yyval |-> yylval]
    <3>1. parser_token_idx + 1 \in 1 .. Len(parser_tokens)
      BY <1>2, <2>2, TokensRead DEF MachineInv, ReadSoFar, Shift
    <3>2. yylval \in Token
      BY <1>2, <2>2, <3>1, TokensRead DEF Shift, yylval
    <3>3. yylval.type \in TokenType
      BY <3>2 DEF Token
    <3>4. yylval.type \in Symbol /\ yylval \in Sort(yylval.type, E, C)
      BY <1>3, <3>2, <3>3 DEF Symbol, SortTable
    <3>5. e \in S
      BY <3>4, EntryTyped
    <3>6. symbols' \in Seq(S \cup {e})
      BY <1>2, <2>2, ShiftStack
    <3> HIDE DEF S, e
    <3>7. S \cup {e} = S
      BY <3>5
    <3> QED
      BY <1>5, <2>2, <3>6, <3>7 DEF Shift
  <2>3. CASE \E rule \in DOMAIN Grammar : \E value \in Sort(Grammar[rule].lhs, E, C) :
               Reduce(rule, value)
    <3>0. PICK rule \in DOMAIN Grammar : \E value \in Sort(Grammar[rule].lhs, E, C) :
            Reduce(rule, value)
      BY <2>3
    <3>1. PICK value \in Sort(Grammar[rule].lhs, E, C) : Reduce(rule, value)
      BY <3>0
    <3> DEFINE e == [sym |-> Grammar[rule].lhs, yyval |-> value]
    <3>2. Grammar[rule].lhs \in Symbol
      BY GrammarType DEF Symbol
    <3>3. e \in S
      BY <3>2, EntryTyped
    <3>4. symbols' \in Seq(S \cup {e})
      BY <1>2, <3>1, ReduceStack
    <3> HIDE DEF S, e
    <3>5. S \cup {e} = S
      BY <3>3
    <3> QED
      BY <1>5, <3>1, <3>4, <3>5 DEF Reduce
  <2>4. CASE SyntaxError \/ AcceptWithErrors
    <3>1. symbols' = symbols /\ ~Parsed'
      BY <2>4 DEF SyntaxError, AcceptWithErrors, Parsed, ParseFail_init
    <3> QED
      BY <1>1, <1>2, <3>1 DEF ValuesInv
  <2>5. CASE Accept
    <3>1. symbols' = symbols /\ Top = "prog"
          /\ parse_result' = ParseSuccess_init(LinkedProg(Value(1), lexer_result.name_map))
      BY <2>5 DEF Accept, AtAccept, LinkedProg
    <3>2. symbols # <<>>
      BY <3>1 DEF Top, SymbolAt
    <3>3. 1 <= Len(symbols) /\ 1 - 1 = 0 /\ 1 \in Nat \ {0}
      BY <1>2, <3>2, TopSymbol
    <3>4. Value(1) \in Sort("prog", E, C)
      BY <1>2, <3>1, <3>3, ValueAt DEF Top
    <3>5. Value(1) \in Seq(FuncsOver(C))
      BY <1>3, <3>4 DEF SortTable
    <3>6. parse_result'.prog = LinkedProg(Value(1), lexer_result.name_map)
      BY <3>1 DEF ParseSuccess_init
    <3> QED
      BY <1>1, <1>2, <3>1, <3>5, <3>6 DEF ValuesInv
  <2> QED
    BY <1>7, <2>1, <2>2, <2>3, <2>4, <2>5, ReductionsAreTyped
<1> QED
  BY <1>6, <1>7 DEF FrontEndNext, frontEndVars, parserVars

LEMMA ValuesInvariant ==
  ASSUME NEW E, NEW C, Trees(E, C), WalkThrough(E \cup C, Maps)
  PROVE  FrontEndSpec => []ValuesInv(E, C)
<1>1. FrontEndInit => ValuesInv(E, C)
  BY ValuesInit
<1>2. ValuesInv(E, C) /\ [FrontEndNext]_frontEndVars => ValuesInv(E, C)'
  BY ValuesNext
<1> QED
  BY <1>1, <1>2, PTL DEF FrontEndSpec

----------------------------------------------------------------------------
(* A linked program: what lease_name has made of the functions' names and calls. *)
LEMMA NamesOfFunctions ==
  ASSUME NEW E, NEW C, Trees(E, C), WalkThrough(E \cup C, Maps),
         NEW funcs \in Seq(FuncsOver(C))
  PROVE  LET names == FunctionNamesIn(funcs)
             map   == CompleteFuncMap(funcs)
         IN  /\ names \in Seq(Int) /\ Len(funcs) \in 0 .. Len(names)
             /\ \A i \in DOMAIN funcs : names[i] = funcs[i].name
             /\ map \in Seq(Int) /\ Range(map) = Range(names)
             /\ \A i, j \in DOMAIN map : map[i] = map[j] => i = j
             /\ \A i \in DOMAIN funcs :
                  funcs[i].name \in Range(map) /\ CalleesOf(funcs[i].body) \subseteq Range(map)
<1> DEFINE names == FunctionNamesIn(funcs)
           map   == CompleteFuncMap(funcs)
           own   == [i \in DOMAIN funcs |-> funcs[i].name]
           calls == [i \in DOMAIN funcs |-> CallsOf(funcs[i].body)]
           n     == Len(funcs)
<1>1. n \in Nat /\ DOMAIN funcs = 1 .. n
  OBVIOUS
<1>2. \A i \in 1 .. n : funcs[i].name \in Int /\ funcs[i].body \in C
  <2>1. \A i \in 1 .. n : funcs[i] \in FuncsOver(C)
    BY <1>1
  <2> QED
    BY <2>1 DEF FuncsOver
<1>3. \A i \in 1 .. n : CallsOf(funcs[i].body) \in Seq(Int)
                          /\ CalleesOf(funcs[i].body) = Range(CallsOf(funcs[i].body))
  BY <1>2, TermsAreWalked DEF Walked
<1>4. own \in Seq(Int) /\ Len(own) = n /\ \A i \in 1 .. n : own[i] = funcs[i].name
  BY <1>1, <1>2
<1>5. calls \in Seq(Seq(Int)) /\ DOMAIN calls = 1 .. n
      /\ \A i \in 1 .. n : calls[i] = CallsOf(funcs[i].body)
  BY <1>1, <1>3
<1>6. names = own \o Concatenated(calls)
  BY DEF FunctionNamesIn
<1>7. map = Leased(<<>>, names)
  BY DEF CompleteFuncMap
<1> HIDE DEF own, calls, names, map, n
<1>8. Concatenated(calls) \in Seq(Int)
      /\ Range(Concatenated(calls)) = UNION {Range(calls[i]) : i \in 1 .. n}
  BY <1>5, ConcatenatedType
<1>9. names \in Seq(Int) /\ Range(names) = Range(own) \cup Range(Concatenated(calls))
  BY <1>4, <1>6, <1>8, RangeOfConcatenation
<1>10. n \in 0 .. Len(names) /\ \A i \in 1 .. n : names[i] = funcs[i].name
  BY <1>1, <1>4, <1>6, <1>8
<1>11. \A i \in 1 .. n : funcs[i].name \in Range(names)
  <2>1. DOMAIN own = 1 .. n
    BY <1>4
  <2>2. \A i \in 1 .. n : funcs[i].name \in Range(own)
    BY <1>4, <2>1 DEF Range
  <2> QED
    BY <1>9, <2>2
<1>12. \A i \in 1 .. n : CalleesOf(funcs[i].body) \subseteq Range(names)
  <2>1. ASSUME NEW i \in 1 .. n
        PROVE  CalleesOf(funcs[i].body) \subseteq Range(names)
    <3>1. CalleesOf(funcs[i].body) = Range(calls[i])
      BY <1>3, <1>5
    <3>2. Range(calls[i]) \subseteq Range(Concatenated(calls))
      BY <1>8
    <3> QED
      BY <1>9, <3>1, <3>2
  <2> QED
    BY <2>1
<1>13. map \in Seq(Int) /\ Range(map) = Range(names)
       /\ \A i, j \in DOMAIN map : map[i] = map[j] => i = j
  <2>1. <<>> \in Seq(Int) /\ Len(<<>>) = 0 /\ Range(<<>>) = {}
    BY DEF Range
  <2>2. Extends(map, <<>>, Range(names))
    BY <1>7, <1>9, <2>1, LeasedExtends
  <2>3. map \in Seq(Int) /\ Range(map) = Range(names)
        /\ \A k, l \in DOMAIN map : k < l /\ map[k] = map[l] => l <= 0
    BY <2>1, <2>2 DEF Extends
  <2>4. DOMAIN map = 1 .. Len(map) /\ Len(map) \in Nat
    BY <2>3
  <2> QED
    BY <2>3, <2>4
<1> QED
  BY <1>1, <1>9, <1>10, <1>11, <1>12, <1>13 DEF n, names, map

LEMMA LinkedFunction ==
  ASSUME NEW E, NEW C, Trees(E, C), WalkThrough(E \cup C, Maps),
         NEW funcs \in Seq(FuncsOver(C)), NEW k \in DOMAIN funcs
  PROVE  LET map  == CompleteFuncMap(funcs)
             func == GloballyNamed(map, funcs)[k]
         IN  /\ func.name = lease_name(map, funcs[k].name)
             /\ func.num_args = funcs[k].num_args
             /\ func.local_name_map = funcs[k].local_name_map
             /\ VariablesInside(func.body) = VariablesInside(funcs[k].body)
             /\ CalleesOf(func.body) = {lease_name(map, c) : c \in CalleesOf(funcs[k].body)}
             /\ CalleesOf(funcs[k].body) \subseteq Range(map)
<1> DEFINE map  == CompleteFuncMap(funcs)
           func == GloballyNamed(map, funcs)[k]
           body == funcs[k].body
           v    == Unchanged(VariablesOf(body))
           f    == Indices(map)
<1>1. map \in Seq(Int) /\ CalleesOf(body) \subseteq Range(map)
  BY NamesOfFunctions
<1>2. funcs[k] \in FuncsOver(C)
  OBVIOUS
<1>3. funcs[k] \in [name : Int, num_args : Nat, local_name_map : Seq(Int), body : C]
  BY <1>2 DEF FuncsOver
<1>4. body \in C
  BY <1>3
<1>5. /\ func.name = lease_name(map, funcs[k].name)
      /\ func.num_args = funcs[k].num_args
      /\ func.local_name_map = funcs[k].local_name_map
      /\ func.body = Renamed(body, v, f)
  <2> HIDE DEF map, v, f
  <2>1. func = [funcs[k] EXCEPT !.name = lease_name(map, @),
                                !.body = Renamed(@, Unchanged(VariablesOf(@)), Indices(map))]
    BY DEF GloballyNamed
  <2> HIDE DEF func
  <2> QED
    BY <1>3, <2>1 DEF v, f
<1> HIDE DEF map, func, body
<1>6. VariablesOf(body) \in Seq(Int)
  BY <1>4, TermsAreWalked DEF Walked
<1>7. Range(VariablesOf(body)) \subseteq Int /\ Range(map) \subseteq Int
  BY <1>1, <1>6 DEF Range
<1>8. \A n \in Range(map) : lease_name(map, n) \in Int
  BY <1>1, LeaseNameFound
<1>9. /\ v \in Maps /\ DOMAIN v = VariablesInside(body)
      /\ \A n \in VariablesInside(body) : v[n] = n
  <2>1. v \in [Range(VariablesOf(body)) -> Int]
    BY <1>7 DEF Unchanged
  <2> QED
    BY <1>7, <2>1 DEF Maps, Unchanged, VariablesInside
<1>10. /\ f \in Maps /\ DOMAIN f = Range(map)
       /\ \A n \in Range(map) : f[n] = lease_name(map, n)
  <2>1. f \in [Range(map) -> Int]
    BY <1>8 DEF Indices
  <2> QED
    BY <1>7, <2>1 DEF Maps, Indices
<1> HIDE DEF v, f
<1>11. RenamedWell(body, C, v, f)
  BY <1>4, <1>9, <1>10, TermsRenameWell
<1>12. /\ VariablesInside(func.body) = Image(v, VariablesInside(body))
       /\ CalleesOf(func.body) = Image(f, CalleesOf(body))
  BY <1>1, <1>5, <1>9, <1>10, <1>11 DEF RenamedWell
<1>13. VariablesInside(func.body) = VariablesInside(body)
  BY <1>9, <1>12 DEF Image
<1>14. CalleesOf(func.body) = {lease_name(map, c) : c \in CalleesOf(body)}
  BY <1>1, <1>10, <1>12 DEF Image
<1> QED
  BY <1>1, <1>5, <1>13, <1>14 DEF map, func, body

LEMMA LinkedIfNamedOnce ==
  ASSUME NEW E, NEW C, Trees(E, C), WalkThrough(E \cup C, Maps),
         NEW funcs \in Seq(FuncsOver(C)), NEW names, NamesOnce(LinkedProg(funcs, names))
  PROVE  Linked(LinkedProg(funcs, names))
<1> DEFINE map  == CompleteFuncMap(funcs)
           prog == LinkedProg(funcs, names)
           n    == Len(funcs)
<1>1. /\ prog.funcs = GloballyNamed(map, funcs) /\ prog.func_name_map = map
      /\ n \in Nat /\ DOMAIN funcs = 1 .. n /\ DOMAIN prog.funcs = 1 .. n
      /\ Len(prog.funcs) = n
  <2>1. n \in Nat /\ DOMAIN funcs = 1 .. n
    OBVIOUS
  <2>2. prog.funcs = GloballyNamed(map, funcs) /\ prog.func_name_map = map
    BY DEF LinkedProg
  <2>3. DOMAIN GloballyNamed(map, funcs) = 1 .. n
    BY <2>1 DEF GloballyNamed
  <2> HIDE DEF prog, map, n
  <2> QED
    BY <2>1, <2>2, <2>3
<1>2. /\ map \in Seq(Int) /\ \A i, j \in DOMAIN map : map[i] = map[j] => i = j
      /\ FunctionNamesIn(funcs) \in Seq(Int) /\ n \in 0 .. Len(FunctionNamesIn(funcs))
      /\ \A i \in 1 .. n : FunctionNamesIn(funcs)[i] = funcs[i].name
  BY <1>1, NamesOfFunctions
<1>3. \A k \in 1 .. n :
        /\ prog.funcs[k].name = lease_name(map, funcs[k].name)
        /\ CalleesOf(prog.funcs[k].body) = {lease_name(map, c) : c \in CalleesOf(funcs[k].body)}
        /\ CalleesOf(funcs[k].body) \subseteq Range(map)
  <2>1. ASSUME NEW k \in 1 .. n
        PROVE  /\ prog.funcs[k].name = lease_name(map, funcs[k].name)
               /\ CalleesOf(prog.funcs[k].body)
                    = {lease_name(map, c) : c \in CalleesOf(funcs[k].body)}
               /\ CalleesOf(funcs[k].body) \subseteq Range(map)
    <3>1. k \in DOMAIN funcs
      BY <1>1
    <3>2. prog.funcs[k] = GloballyNamed(map, funcs)[k]
      BY <1>1
    <3> HIDE DEF prog
    <3> QED
      BY <3>1, <3>2, LinkedFunction
  <2> HIDE DEF prog, map, n
  <2> QED
    BY <2>1
<1>4. map = Leased(<<>>, FunctionNamesIn(funcs))
  BY DEF CompleteFuncMap
<1> HIDE DEF map, prog, n
<1>5. \A i, j \in 1 .. n : funcs[i].name = funcs[j].name => i = j
  BY <1>1, <1>3 DEF NamesOnce, prog
<1>6. n <= Len(map) /\ \A i \in 1 .. n : map[i] = funcs[i].name
  <2> DEFINE own == FunctionNamesIn(funcs)
  <2>1. /\ own \in Seq(Int) /\ n \in 0 .. Len(own)
        /\ \A i, j \in 1 .. n : own[i] = own[j] => i = j
    BY <1>2, <1>5
  <2> HIDE DEF own
  <2>2. n <= Len(Leased(<<>>, own)) /\ \A i \in 1 .. n : Leased(<<>>, own)[i] = own[i]
    BY <2>1, FirstNamesFirst
  <2> QED
    BY <1>2, <1>4, <2>2 DEF own
<1>7. DOMAIN map = 1 .. Len(map) /\ Len(map) \in Nat
  BY <1>2
<1>8. \A i \in 1 .. n : prog.funcs[i].name = i - 1
  <2>1. ASSUME NEW i \in 1 .. n
        PROVE  prog.funcs[i].name = i - 1
    <3>1. i \in DOMAIN map /\ \A j \in DOMAIN map : map[j] = map[i] => j = i
      <4>1. i \in DOMAIN map
        BY <1>1, <1>6, <1>7
      <4> QED
        BY <1>2, <4>1
    <3>2. lease_name(map, map[i]) = i - 1
      BY <1>2, <3>1, LeaseNameIs
    <3> QED
      BY <1>3, <1>6, <3>2
  <2> QED
    BY <2>1
<1>9. ASSUME NEW k \in 1 .. n, NEW callee \in CalleesOf(prog.funcs[k].body)
      PROVE  LET called == {i \in 1 .. n :
                              map[prog.funcs[i].name + 1] = map[callee + 1]}
             IN  IF called = {} THEN callee >= n ELSE callee + 1 \in called
  <2>1. PICK c \in Range(map) : callee = lease_name(map, c)
    BY <1>3, <1>9
  <2>2. callee \in 0 .. Len(map) - 1 /\ map[callee + 1] = c
    BY <1>2, <2>1, LeaseNameFound
  <2> DEFINE called == {i \in 1 .. n : map[prog.funcs[i].name + 1] = map[callee + 1]}
  <2>3. ASSUME NEW i \in 1 .. n
        PROVE  i \in called <=> i = callee + 1
    <3>1. prog.funcs[i].name + 1 = i
      BY <1>1, <1>8
    <3>2. i \in DOMAIN map /\ callee + 1 \in DOMAIN map
      BY <1>1, <1>6, <1>7, <2>2
    <3> QED
      BY <1>2, <3>1, <3>2
  <2>4. called \subseteq 1 .. n
    OBVIOUS
  <2> HIDE DEF called
  <2>5. CASE called = {}
    <3>1. callee + 1 \notin 1 .. n
      BY <2>3, <2>5
    <3> QED
      BY <1>1, <2>2, <2>5, <3>1 DEF called
  <2>6. CASE called # {}
    <3>1. callee + 1 \in called
      BY <2>3, <2>4, <2>6
    <3> QED
      BY <2>6, <3>1 DEF called
  <2> QED
    BY <2>5, <2>6
<1> QED
  BY <1>1, <1>9 DEF Linked, prog

(* In every program that parse returns, for every source, a variable has one index in
   its function, and the arguments have the first ones in their order: what lease_name
   makes of the names of a body, walked through once. *)
THEOREM VariablesAlwaysDistinct ==
  ASSUME NEW E, NEW C, Trees(E, C), WalkThrough(E \cup C, Maps)
  PROVE  FrontEndSpec => []VariablesAreDistinct
<1>1. ValuesInv(E, C) => VariablesAreDistinct
  <2> SUFFICES ASSUME ValuesInv(E, C), Parsed
               PROVE  VariablesAreDistinct
    BY DEF VariablesAreDistinct
  <2>0. PICK funcs \in Seq(FuncsOver(C)) :
          \E names : parse_result.prog = LinkedProg(funcs, names)
    BY DEF ValuesInv
  <2>1. PICK names : parse_result.prog = LinkedProg(funcs, names)
    BY <2>0
  <2>2. parse_result.prog.funcs = GloballyNamed(CompleteFuncMap(funcs), funcs)
        /\ DOMAIN parse_result.prog.funcs = DOMAIN funcs
    <3>1. parse_result.prog.funcs = GloballyNamed(CompleteFuncMap(funcs), funcs)
      BY <2>1 DEF LinkedProg
    <3>2. DOMAIN GloballyNamed(CompleteFuncMap(funcs), funcs) = DOMAIN funcs
      BY DEF GloballyNamed
    <3> QED
      BY <3>1, <3>2
  <2>3. ASSUME NEW k \in DOMAIN funcs
        PROVE  LET func == parse_result.prog.funcs[k]
                   map == func.local_name_map
               IN  \A i, j \in DOMAIN map : i < j /\ map[i] = map[j] => j <= func.num_args
    <3>1. funcs[k] \in FuncsOver(C)
      OBVIOUS
    <3>2. InFrame(funcs[k])
      BY <3>1 DEF FuncsOver
    <3>3. /\ parse_result.prog.funcs[k].num_args = funcs[k].num_args
          /\ parse_result.prog.funcs[k].local_name_map = funcs[k].local_name_map
      BY <2>2, LinkedFunction
    <3> QED
      BY <3>2, <3>3 DEF InFrame
  <2> QED
    BY <2>2, <2>3 DEF VariablesAreDistinct
<1> QED
  BY <1>1, ValuesInvariant, PTL

(* A variable in a body is the index of one of the function's local names, and the
   arguments are among these: what the code generator and both interpreters count on. *)
VariablesStayInTheFrame ==
  Parsed =>
    \A k \in DOMAIN parse_result.prog.funcs :
      LET func == parse_result.prog.funcs[k]
      IN  /\ func.num_args <= Len(func.local_name_map)
          /\ VariablesInside(func.body) \subseteq 0 .. Len(func.local_name_map) - 1

(* In every program that parse returns the variables are indices of local names, of
   which there are no fewer than arguments: no index of the frame is out of its bounds. *)
THEOREM VariablesAlwaysStayInTheFrame ==
  ASSUME NEW E, NEW C, Trees(E, C), WalkThrough(E \cup C, Maps)
  PROVE  FrontEndSpec => []VariablesStayInTheFrame
<1>1. ValuesInv(E, C) => VariablesStayInTheFrame
  <2> SUFFICES ASSUME ValuesInv(E, C), Parsed
               PROVE  VariablesStayInTheFrame
    BY DEF VariablesStayInTheFrame
  <2>0. PICK funcs \in Seq(FuncsOver(C)) :
          \E names : parse_result.prog = LinkedProg(funcs, names)
    BY DEF ValuesInv
  <2>1. PICK names : parse_result.prog = LinkedProg(funcs, names)
    BY <2>0
  <2>2. parse_result.prog.funcs = GloballyNamed(CompleteFuncMap(funcs), funcs)
        /\ DOMAIN parse_result.prog.funcs = DOMAIN funcs
    <3>1. parse_result.prog.funcs = GloballyNamed(CompleteFuncMap(funcs), funcs)
      BY <2>1 DEF LinkedProg
    <3>2. DOMAIN GloballyNamed(CompleteFuncMap(funcs), funcs) = DOMAIN funcs
      BY DEF GloballyNamed
    <3> QED
      BY <3>1, <3>2
  <2>3. ASSUME NEW k \in DOMAIN funcs
        PROVE  LET func == parse_result.prog.funcs[k]
               IN  /\ func.num_args <= Len(func.local_name_map)
                   /\ VariablesInside(func.body) \subseteq 0 .. Len(func.local_name_map) - 1
    <3>1. funcs[k] \in FuncsOver(C)
      OBVIOUS
    <3>2. InFrame(funcs[k])
      BY <3>1 DEF FuncsOver
    <3>3. /\ parse_result.prog.funcs[k].num_args = funcs[k].num_args
          /\ parse_result.prog.funcs[k].local_name_map = funcs[k].local_name_map
          /\ VariablesInside(parse_result.prog.funcs[k].body) = VariablesInside(funcs[k].body)
      BY <2>2, LinkedFunction
    <3> QED
      BY <3>2, <3>3 DEF InFrame
  <2> QED
    BY <2>2, <2>3 DEF VariablesStayInTheFrame
<1> QED
  BY <1>1, ValuesInvariant, PTL

(* In every program that parse returns, and in which no two functions have the same
   name, a call's number is the position of the function it names, and no position at
   all if there is none: what "function calls can directly index into the Prog's
   FuncVector" (parser.y:525) promises. *)
THEOREM CallsAlwaysReachTheirFunction ==
  ASSUME NEW E, NEW C, Trees(E, C), WalkThrough(E \cup C, Maps)
  PROVE  FrontEndSpec => []CallsReachTheirFunctionIfNamedOnce
<1>1. ValuesInv(E, C) => CallsReachTheirFunctionIfNamedOnce
  BY LinkedIfNamedOnce DEF ValuesInv, CallsReachTheirFunctionIfNamedOnce
<1> QED
  BY <1>1, ValuesInvariant, PTL

(***************************************************************************)
(* Part 8: what the stack derives.  The invariant cuts the tokens that     *)
(* were shifted into one span for each symbol on the stack.                *)
(***************************************************************************)
(* A chart says which spans of the tokens each symbol derives: <<i, j>> for the tokens
   behind the i-th up to the j-th.  It is closed if it has what the tokens are and what
   the rules of the grammar derive; the least one has nothing else. *)
ClosedChart(chart) ==
  /\ \A i \in 1 .. Len(parser_tokens) : <<i - 1, i>> \in chart[parser_tokens[i].type]
  /\ \A rule \in DOMAIN Grammar :
       LET rhs == Grammar[rule].rhs
       IN  \A cut \in [0 .. Len(rhs) -> Nat] :
             (\A k \in 1 .. Len(rhs) : <<cut[k - 1], cut[k]>> \in chart[rhs[k]])
               => <<cut[0], cut[Len(rhs)]>> \in chart[Grammar[rule].lhs]

(* The symbols on the stack derive, one after the other, the tokens that were shifted. *)
Shifted == parser_token_idx + 1 - (IF lookahead THEN 1 ELSE 0)

(* Where one symbol's tokens end and the next one's begin. *)
Cuts(chart, cut) ==
  /\ cut \in [0 .. Len(symbols) -> Nat]
  /\ cut[0] = 0
  /\ cut[Len(symbols)] = Shifted
  /\ \A k \in 1 .. Len(symbols) : <<cut[k - 1], cut[k]>> \in chart[symbols[k].sym]

(* All tokens but the last one, the end of the input, make a program. *)
AllDerived(chart) == <<0, Len(parser_tokens) - 1>> \in chart["prog"]

(* The invariant: while there are no errors, every closed chart cuts the tokens. *)
Derived(chart) ==
  /\ MachineInv
  /\ ~Lexed => symbols = <<>>
  /\ Parsing /\ errors = <<>> /\ ClosedChart(chart) => \E cut : Cuts(chart, cut)
  /\ Parsed /\ ClosedChart(chart) => AllDerived(chart)

LEMMA DerivedInit == ASSUME NEW CONSTANT chart PROVE FrontEndInit => Derived(chart)
<1> SUFFICES ASSUME FrontEndInit PROVE Derived(chart)
  OBVIOUS
<1>1. MachineInv
  BY MachineInit
<1>2. ~Lexed /\ symbols = <<>> /\ parse_result = Pending
  BY DEF FrontEndInit, LexInit, ParserInit, Lexed, NoResult
<1> QED
  BY <1>1, <1>2 DEF Derived, Parsing, Parsed, Pending

(* An empty stack has one cut, before the first token. *)
LEMMA DerivedLexing ==
  ASSUME NEW CONSTANT chart, Derived(chart), LexNext, UNCHANGED parserVars
  PROVE  Derived(chart)'
<1>1. MachineInv'
  BY LexingInv DEF Derived
<1>2. ~Lexed
  BY DEF LexNext, ReadKnownName, ReadNewName, ReadInt, ReadKeyword, ReadUnknown, ReadEnd,
     Reading
<1>3. parser_tokens = <<>> /\ parser_token_idx = -1 /\ lookahead = FALSE
  <2>1. parser_tokens = <<>>
    BY <1>2 DEF Lexed, parser_tokens
  <2> QED
    BY <2>1 DEF Derived, MachineInv, ReadSoFar
<1>4. parse_result = Pending /\ symbols = <<>>
  BY <1>2 DEF Derived, MachineInv, Decided
<1>5. /\ symbols' = <<>> /\ parser_token_idx' = -1 /\ lookahead' = FALSE
      /\ parse_result' = Pending
  BY <1>3, <1>4 DEF parserVars
<1>6. ~Parsed'
  BY <1>5 DEF Parsed, Pending
<1> DEFINE none == [k \in 0 .. 0 |-> 0]
<1>7. Cuts(chart, none)'
  <2>1. none \in [0 .. 0 -> Nat] /\ none[0] = 0
    OBVIOUS
  <2>2. Len(symbols') = 0 /\ Shifted' = 0
    <3>1. Shifted' = -1 + 1 - (IF FALSE THEN 1 ELSE 0)
      BY <1>5 DEF Shifted
    <3>2. Len(symbols') = 0
      BY <1>5
    <3> QED
      BY <3>1, <3>2
  <2> HIDE DEF none
  <2>3. \A k \in 1 .. 0 : FALSE
    OBVIOUS
  <2> QED
    BY <2>1, <2>2, <2>3 DEF Cuts
<1> QED
  BY <1>1, <1>5, <1>6, <1>7 DEF Derived

(* A step that leaves the stack, and what is shifted, as they are. *)
LEMMA CutsKept ==
  ASSUME NEW CONSTANT chart, NEW cut, Cuts(chart, cut), symbols' = symbols, Shifted' = Shifted
  PROVE  Cuts(chart, cut)'
BY DEF Cuts

LEMMA ChartKept ==
  ASSUME NEW CONSTANT chart, UNCHANGED lexerVars
  PROVE  /\ ClosedChart(chart)' <=> ClosedChart(chart)
         /\ Lexed' <=> Lexed
         /\ parser_tokens' = parser_tokens
BY DEF lexerVars, ClosedChart, parser_tokens, Lexed

(* What is on the stack has been read. *)
LEMMA DerivedReading ==
  ASSUME NEW CONSTANT chart, Derived(chart), ReadToken \/ SkipErrorToken, UNCHANGED lexerVars
  PROVE  Derived(chart)'
<1>1. MachineInv' /\ Parsing /\ symbols' = symbols /\ parse_result' = parse_result
      /\ parser_token_idx' = parser_token_idx + 1 /\ ~lookahead
  BY ReadTokenInv, SkipErrorTokenInv DEF Derived, ReadToken, SkipErrorToken, Yylex
<1>2. Lexed' /\ Lexed /\ ~Parsed'
  BY <1>1, ChartKept DEF Parsing, Parsed, Pending
<1>3. ASSUME errors' = <<>>, ClosedChart(chart)
      PROVE  \E cut : Cuts(chart, cut)'
  <2>1. errors \in Seq(Token) /\ parser_token_idx \in Int
    BY <1>1, TokensRead DEF Derived, MachineInv, ReadSoFar
  <2>2. ReadToken
    <3>1. CASE SkipErrorToken
      <4>1. errors' = Append(errors, NextToken)
        BY <3>1 DEF SkipErrorToken
      <4>2. Len(errors') = Len(errors) + 1 /\ Len(errors) \in Nat
        BY <2>1, <4>1
      <4> QED
        BY <1>3, <4>2
    <3> QED
      BY <3>1
  <2>3. errors = <<>> /\ lookahead' = TRUE
    BY <1>3, <2>2 DEF ReadToken
  <2>4. PICK cut : Cuts(chart, cut)
    BY <1>1, <1>3, <2>3 DEF Derived
  <2>5. Shifted' = Shifted
    BY <1>1, <2>1, <2>3 DEF Shifted
  <2> QED
    BY <1>1, <2>4, <2>5, CutsKept
<1> QED
  BY <1>1, <1>2, <1>3, ChartKept DEF Derived

(* The token that is shifted derives itself. *)
LEMMA DerivedShift ==
  ASSUME NEW CONSTANT chart, Derived(chart), Shift, UNCHANGED lexerVars
  PROVE  Derived(chart)'
<1>1. /\ MachineInv' /\ Parsing /\ parse_result' = parse_result /\ errors' = errors
      /\ parser_token_idx' = parser_token_idx /\ lookahead /\ lookahead' = FALSE
  BY ShiftInv DEF Derived, Shift
<1>2. Lexed' /\ Lexed /\ ~Parsed'
  BY <1>1, ChartKept DEF Parsing, Parsed, Pending
<1>3. ASSUME errors = <<>>, ClosedChart(chart)
      PROVE  \E cut : Cuts(chart, cut)'
  <2>1. PICK cut : Cuts(chart, cut)
    BY <1>1, <1>3 DEF Derived
  <2>2. PICK S : symbols \in Seq(S)
    BY DEF Derived, MachineInv, Stacked
  <2> DEFINE n == Len(symbols)
             i == parser_token_idx
             longer == [k \in 0 .. n + 1 |-> IF k <= n THEN cut[k] ELSE i + 1]
  <2>3. /\ n \in Nat /\ Len(symbols') = n + 1
        /\ symbols'[n + 1] = [sym |-> yylval.type, yyval |-> yylval]
        /\ \A k \in 1 .. n : symbols'[k] = symbols[k]
    <3>1. n \in Nat
      BY <2>2
    <3>2. /\ Len(symbols') = n + 1
          /\ symbols'[n + 1] = [sym |-> yylval.type, yyval |-> yylval]
          /\ \A k \in 1 .. n : symbols'[k] = symbols[k]
      BY <2>2, ShiftStack
    <3> QED
      BY <3>1, <3>2
  <2>4. i \in Nat /\ i + 1 \in 1 .. Len(parser_tokens)
    BY <1>1, TokensRead DEF Derived, MachineInv, ReadSoFar
  <2>5. <<i, i + 1>> \in chart[yylval.type]
    <3>1. <<(i + 1) - 1, i + 1>> \in chart[parser_tokens[i + 1].type]
      BY <1>3, <2>4 DEF ClosedChart
    <3>2. (i + 1) - 1 = i
      BY <2>4
    <3> QED
      BY <3>1, <3>2 DEF yylval
  <2>6. /\ cut \in [0 .. n -> Nat] /\ cut[0] = 0 /\ cut[n] = i
        /\ \A k \in 1 .. n : <<cut[k - 1], cut[k]>> \in chart[symbols[k].sym]
    <3>1. Shifted = i
      BY <1>1, <2>4 DEF Shifted
    <3> QED
      BY <2>1, <3>1 DEF Cuts
  <2>7. Shifted' = i + 1
    BY <1>1, <2>4 DEF Shifted
  <2>8. symbols'[n + 1].sym = yylval.type
    BY <2>3
  <2> HIDE DEF n, i
  <2>9. /\ longer \in [0 .. n + 1 -> Nat]
        /\ \A k \in 0 .. n : longer[k] = cut[k]
        /\ longer[n + 1] = i + 1
    BY <2>3, <2>4, <2>6
  <2> HIDE DEF longer
  <2>10. ASSUME NEW k \in 1 .. n + 1
         PROVE  <<longer[k - 1], longer[k]>> \in chart[symbols'[k].sym]
    <3>1. CASE k = n + 1
      <4>1. (n + 1) - 1 = n /\ n \in 0 .. n
        BY <2>3
      <4> QED
        BY <2>5, <2>6, <2>8, <2>9, <3>1, <4>1
    <3>2. CASE k \in 1 .. n
      <4>1. k - 1 \in 0 .. n /\ k \in 0 .. n
        BY <2>3, <3>2
      <4> QED
        BY <2>3, <2>6, <2>9, <3>2, <4>1
    <3> QED
      BY <2>3, <3>1, <3>2
  <2>11. longer[0] = 0
    BY <2>3, <2>6, <2>9
  <2> QED
    BY <2>3, <2>7, <2>9, <2>10, <2>11 DEF Cuts
<1> QED
  BY <1>1, <1>2, <1>3, ChartKept DEF Derived

(* The symbols of a right-hand side together derive what the left one does. *)
LEMMA DerivedReduce ==
  ASSUME NEW CONSTANT chart, Derived(chart), NEW rule \in DOMAIN Grammar, NEW value,
         Reduce(rule, value), UNCHANGED lexerVars
  PROVE  Derived(chart)'
<1>1. /\ MachineInv' /\ Parsing /\ parse_result' = parse_result /\ errors' = errors
      /\ parser_token_idx' = parser_token_idx /\ lookahead' = lookahead /\ OnTop(rule)
  BY ReduceInv DEF Derived, Reduce
<1>2. Lexed' /\ Lexed /\ ~Parsed'
  BY <1>1, ChartKept DEF Parsing, Parsed, Pending
<1>3. ASSUME errors = <<>>, ClosedChart(chart)
      PROVE  \E cut : Cuts(chart, cut)'
  <2>1. PICK cut : Cuts(chart, cut)
    BY <1>1, <1>3 DEF Derived
  <2>2. PICK S : symbols \in Seq(S)
    BY DEF Derived, MachineInv, Stacked
  <2> DEFINE n == Len(symbols)
             rhs == Grammar[rule].rhs
             lhs == Grammar[rule].lhs
             m == Len(rhs)
             low == n - m
             below == [k \in 0 .. low + 1 |-> IF k <= low THEN cut[k] ELSE cut[n]]
             handle == [k \in 0 .. m |-> cut[low + k]]
  <2>3. m \in 0 .. n
    BY <2>2, ReduceStack
  <2>4. n \in Nat
    BY <2>2
  <2>5. /\ Len(symbols') = low + 1
        /\ symbols'[low + 1] = [sym |-> lhs, yyval |-> value]
        /\ \A k \in 1 .. low : symbols'[k] = symbols[k]
    BY <2>2, ReduceStack
  <2>6. symbols'[low + 1].sym = lhs
    BY <2>5
  <2>7. rhs \in Seq(Symbol) /\ DOMAIN rhs = 1 .. m
    <3>1. rhs \in Seq(Symbol)
      BY GrammarType
    <3> QED
      BY <3>1
  <2>8. /\ cut \in [0 .. n -> Nat] /\ cut[0] = 0 /\ cut[n] = Shifted
        /\ \A k \in 1 .. n : <<cut[k - 1], cut[k]>> \in chart[symbols[k].sym]
    BY <2>1 DEF Cuts
  <2>9. \A k \in 1 .. m : symbols[low + k].sym = rhs[k]
    <3>1. ASSUME NEW k \in 1 .. m
          PROVE  symbols[low + k].sym = rhs[k]
      <4>1. SymbolAt(m - k) = rhs[k]
        BY <1>1, <2>7 DEF OnTop, Handle
      <4>2. m - k < n /\ n - (m - k) = low + k
        BY <2>3, <2>4
      <4> QED
        BY <4>1, <4>2 DEF SymbolAt
    <3> QED
      BY <3>1
  <2>10. \A c \in [0 .. m -> Nat] :
           (\A k \in 1 .. m : <<c[k - 1], c[k]>> \in chart[rhs[k]])
             => <<c[0], c[m]>> \in chart[lhs]
    BY <1>3 DEF ClosedChart
  <2>11. Shifted' = Shifted
    BY <1>1 DEF Shifted
  <2>12. low \in Nat /\ low + m = n
    BY <2>3, <2>4
  <2> HIDE DEF n, m, rhs, lhs, low
  <2>13. /\ handle \in [0 .. m -> Nat]
         /\ \A k \in 0 .. m : handle[k] = cut[low + k]
    BY <2>3, <2>4, <2>8, <2>12
  <2>14. /\ below \in [0 .. low + 1 -> Nat]
         /\ \A k \in 0 .. low : below[k] = cut[k]
         /\ below[low + 1] = cut[n]
    BY <2>3, <2>4, <2>8, <2>12
  <2> HIDE DEF handle, below
  <2>15. \A k \in 1 .. m : <<handle[k - 1], handle[k]>> \in chart[rhs[k]]
    <3>1. ASSUME NEW k \in 1 .. m
          PROVE  <<handle[k - 1], handle[k]>> \in chart[rhs[k]]
      <4>1. k - 1 \in 0 .. m /\ k \in 0 .. m /\ low + k \in 1 .. n
            /\ low + (k - 1) = (low + k) - 1
        BY <2>3, <2>4, <2>12
      <4>2. handle[k - 1] = cut[(low + k) - 1] /\ handle[k] = cut[low + k]
        BY <2>13, <4>1
      <4> QED
        BY <2>8, <2>9, <4>1, <4>2
    <3> QED
      BY <3>1
  <2>16. <<cut[low], cut[n]>> \in chart[lhs]
    <3>1. handle[0] = cut[low] /\ handle[m] = cut[n]
      BY <2>3, <2>4, <2>12, <2>13
    <3> QED
      BY <2>10, <2>13, <2>15, <3>1
  <2>17. ASSUME NEW k \in 1 .. low + 1
         PROVE  <<below[k - 1], below[k]>> \in chart[symbols'[k].sym]
    <3>1. CASE k = low + 1
      <4>1. (low + 1) - 1 = low /\ low \in 0 .. low
        BY <2>12
      <4> QED
        BY <2>6, <2>14, <2>16, <3>1, <4>1
    <3>2. CASE k \in 1 .. low
      <4>1. k - 1 \in 0 .. low /\ k \in 0 .. low /\ k \in 1 .. n
        BY <2>3, <2>4, <2>12, <3>2
      <4> QED
        BY <2>5, <2>8, <2>14, <3>2, <4>1
    <3> QED
      BY <2>12, <3>1, <3>2
  <2>18. below[0] = 0
    BY <2>8, <2>12, <2>14
  <2> QED
    BY <2>5, <2>8, <2>11, <2>14, <2>17, <2>18 DEF Cuts
<1> QED
  BY <1>1, <1>2, <1>3, ChartKept DEF Derived

(* At the end the program is alone, and the end of the input is all that is left. *)
LEMMA DerivedAccept ==
  ASSUME NEW CONSTANT chart, Derived(chart), Accept, UNCHANGED lexerVars
  PROVE  Derived(chart)'
<1>1. MachineInv' /\ Parsing /\ lookahead /\ Top = "prog" /\ yylval.type = "endOfInput"
      /\ errors = <<>>
  BY DecidedInv DEF Derived, Accept, AtAccept
<1>2. Lexed' /\ Lexed /\ ~Parsing'
  BY <1>1, ChartKept DEF Parsing, Accept, ParseSuccess_init, Pending
<1>3. ASSUME ClosedChart(chart)
      PROVE  AllDerived(chart)'
  <2>1. PICK cut : Cuts(chart, cut)
    BY <1>1, <1>3 DEF Derived
  <2>2. PICK S : symbols \in Seq(S)
    BY DEF Derived, MachineInv, Stacked
  <2>3. symbols # <<>>
    BY <1>1 DEF Top, SymbolAt
  <2>4. Len(symbols) \in Nat \ {0} /\ symbols[Len(symbols)].sym = "prog"
        /\ Len(symbols) \in DOMAIN symbols
    BY <1>1, <2>2, <2>3, TopSymbol
  <2>5. Len(symbols) = 1
    BY <2>4 DEF Derived, MachineInv, ProgAlone
  <2>6. /\ Len(parser_tokens) \in Nat /\ parser_token_idx \in Nat
        /\ parser_token_idx + 1 \in 1 .. Len(parser_tokens)
    BY <1>1, TokensRead DEF Derived, MachineInv, ReadSoFar
  <2>7. parser_token_idx + 1 = Len(parser_tokens)
    BY <1>1, <2>6, TokensRead DEF Derived, yylval
  <2>8. cut[0] = 0 /\ cut[1] = Len(parser_tokens) - 1
    BY <1>1, <2>1, <2>5, <2>6, <2>7 DEF Cuts, Shifted
  <2>9. <<cut[1 - 1], cut[1]>> \in chart["prog"] /\ 1 - 1 = 0
    BY <2>1, <2>4, <2>5 DEF Cuts
  <2>10. AllDerived(chart)
    BY <2>8, <2>9 DEF AllDerived
  <2> QED
    BY <2>10, ChartKept DEF AllDerived
<1> QED
  BY <1>1, <1>2, <1>3, ChartKept DEF Derived

LEMMA DerivedNext ==
  ASSUME NEW CONSTANT chart
  PROVE  Derived(chart) /\ [FrontEndNext]_frontEndVars => Derived(chart)'
<1> SUFFICES ASSUME Derived(chart), [FrontEndNext]_frontEndVars
             PROVE  Derived(chart)'
  OBVIOUS
<1>1. CASE LexNext /\ UNCHANGED parserVars
  BY <1>1, DerivedLexing
<1>2. CASE ParserNext /\ UNCHANGED lexerVars
  <2>1. CASE ReadToken \/ SkipErrorToken \/ Shift
    BY <1>2, <2>1, DerivedReading, DerivedShift
  <2>2. CASE \E rule \in DOMAIN Grammar : \E value : Reduce(rule, value)
    BY <1>2, <2>2, DerivedReduce
  <2>3. CASE SyntaxError \/ AcceptWithErrors
    <3>1. MachineInv'
      BY <1>2, <2>3, DecidedInv DEF Derived
    <3>2. Parsing /\ ~Parsing' /\ ~Parsed'
      BY <2>3 DEF SyntaxError, AcceptWithErrors, AtAccept, Parsing, Parsed, ParseFail_init,
         Pending
    <3>3. Lexed'
      BY <1>2, <3>2, ChartKept DEF Parsing
    <3> QED
      BY <3>1, <3>2, <3>3 DEF Derived
  <2>4. CASE Accept
    BY <1>2, <2>4, DerivedAccept
  <2> QED
    BY <1>2, <2>1, <2>2, <2>3, <2>4, ParserSteps
<1>3. CASE UNCHANGED frontEndVars
  <2>1. MachineInv'
    BY <1>3, MachineNext DEF Derived
  <2>2. UNCHANGED lexerVars
        /\ UNCHANGED <<symbols, parser_token_idx, lookahead, errors, parse_result>>
    BY <1>3 DEF frontEndVars, parserVars
  <2>3. Shifted' = Shifted /\ symbols' = symbols /\ (Parsing' <=> Parsing)
        /\ (Parsed' <=> Parsed) /\ (AllDerived(chart)' <=> AllDerived(chart))
    BY <2>2, ChartKept DEF Shifted, Parsing, Parsed, AllDerived
  <2>4. ASSUME NEW cut, Cuts(chart, cut)
        PROVE  Cuts(chart, cut)'
    BY <2>3, <2>4, CutsKept
  <2> QED
    BY <2>1, <2>2, <2>3, <2>4, ChartKept DEF Derived
<1> QED
  BY <1>1, <1>2, <1>3 DEF FrontEndNext

(* What is parsed is a sentence of the grammar: every chart that has what the tokens are
   and what the rules derive has the whole file, but for its end, as a program. *)
THEOREM AcceptsOnlySentences ==
  ASSUME NEW CONSTANT chart
  PROVE  FrontEndSpec => [](Parsed /\ ClosedChart(chart) => AllDerived(chart))
<1>1. FrontEndInit => Derived(chart)
  BY DerivedInit
<1>2. Derived(chart) /\ [FrontEndNext]_frontEndVars => Derived(chart)'
  BY DerivedNext
<1>3. Derived(chart) => (Parsed /\ ClosedChart(chart) => AllDerived(chart))
  BY DEF Derived
<1> QED
  BY <1>1, <1>2, <1>3, PTL DEF FrontEndSpec

(***************************************************************************)
(* Part 9: what can be on the stack.  bison's tables know which symbols    *)
(* can be on top of which, and the guards of the model look at the top few *)
(* only.  That these are enough is an invariant of the whole stack: each   *)
(* symbol fits on the two below it.                                        *)
(***************************************************************************)
(* The symbol at a place of the stack, and whether no body has begun below it. *)
Sym(i) == IF i >= 1 THEN symbols[i].sym ELSE "start"
Header(i) == \A j \in 1 .. i - 1 : Sym(j) # "LCurly"

(* A symbol fits on the two below it, in a function's header or in its body. *)
Fitting(x, below, under, header) ==
  /\ x \in {"func", "funcs"} => below \in {"start", "func"}
  /\ x = "LParen"    => below = "name" /\ (header => under \in {"start", "func"})
  /\ x = "names"     => below = "LParen" /\ header
  /\ x = "exprs"     => below = "LParen" /\ ~header
  /\ x = "RParen"    => below = IF header THEN "names" ELSE "exprs"
  /\ x = "LCurly"    => below = "Do" \/ (below = "RParen" /\ header)
  /\ x = "Do"        => below = "expr" /\ under = "While"
  /\ x = "RCurly"    => below = "comm" /\ under = "LCurly"
  /\ x = "namescont" => below = "name" /\ under \in {"LParen", "Comma"} /\ header
  /\ x = "exprscont" => below = "expr" /\ under \in {"LParen", "Comma"} /\ ~header
  /\ x = "Comma"     => below = (IF header THEN "name" ELSE "expr")
                          /\ under \in {"LParen", "Comma"}
  /\ x \in {"While", "Return", "Assign", "Semi", "Add", "Sub", "Int", "expr", "comm"} => ~header

Fits(i) == Fitting(Sym(i), Sym(i - 1), Sym(i - 2), Header(i))
Viable == \A i \in 1 .. Len(symbols) : Fits(i)

(* Places counted from the top and from the bottom. *)
LEMMA Places ==
  ASSUME Stacked
  PROVE  /\ Len(symbols) \in Nat /\ DOMAIN symbols = 1 .. Len(symbols)
         /\ \A d \in Nat : SymbolAt(d) = Sym(Len(symbols) - d)
         /\ \A i \in Int : i <= Len(symbols) /\ Sym(i) # "start" => i >= 1
         /\ \A i \in 1 .. Len(symbols) : Sym(i) # "start"
         /\ \A i \in Int : i < 1 => Sym(i) = "start"
         /\ InHeader <=> Header(Len(symbols) + 1)
         /\ \A i \in Int : i >= 1 => (Header(i + 1) <=> Header(i) /\ Sym(i) # "LCurly")
         /\ \A i \in Int : i < 1 => Header(i) /\ Header(i + 1)
<1>1. PICK S : symbols \in Seq(S) /\ \A entry \in S : entry.sym \in Symbol
  BY DEF Stacked
<1>2. Len(symbols) \in Nat /\ DOMAIN symbols = 1 .. Len(symbols)
      /\ \A i \in 1 .. Len(symbols) : symbols[i] \in S
  BY <1>1
<1>3. "start" \notin Symbol
  BY GrammarRules DEF Symbol, TokenType
<1>4. \A d \in Nat : SymbolAt(d) = Sym(Len(symbols) - d)
  BY <1>2 DEF SymbolAt, Sym
<1>5. \A i \in 1 .. Len(symbols) : Sym(i) = symbols[i].sym /\ Sym(i) # "start"
  BY <1>1, <1>2, <1>3 DEF Sym
<1>6. \A i \in Int : i < 1 => Sym(i) = "start"
  BY DEF Sym
<1>7. InHeader <=> Header(Len(symbols) + 1)
  <2>1. 1 .. (Len(symbols) + 1) - 1 = 1 .. Len(symbols)
    BY <1>2
  <2> QED
    BY <1>2, <1>5, <2>1 DEF InHeader, Header
<1>8. ASSUME NEW i \in Int, i >= 1
      PROVE  Header(i + 1) <=> Header(i) /\ Sym(i) # "LCurly"
  <2>1. 1 .. (i + 1) - 1 = (1 .. i - 1) \cup {i}
    BY <1>8
  <2> QED
    BY <2>1 DEF Header
<1>9. ASSUME NEW i \in Int, i < 1
      PROVE  Header(i) /\ Header(i + 1)
  <2>1. 1 .. i - 1 = {} /\ 1 .. (i + 1) - 1 = {}
    BY <1>9
  <2> QED
    BY <2>1 DEF Header
<1>10. \A i \in Int : i <= Len(symbols) /\ Sym(i) # "start" => i >= 1
  BY <1>6
<1> QED
  BY <1>2, <1>4, <1>5, <1>6, <1>7, <1>8, <1>9, <1>10

(* What is on a viable stack fits, and so it does when a symbol that fits is put on it. *)
LEMMA ViablePush ==
  ASSUME Viable, Len(symbols) \in Nat, NEW p \in 1 .. Len(symbols) + 1, Len(symbols') = p,
         \A i \in 1 .. p - 1 : symbols'[i] = symbols[i],
         NEW x, symbols'[p].sym = x, Fitting(x, Sym(p - 1), Sym(p - 2), Header(p))
  PROVE  Viable'
<1>1. \A i \in Int : i < p => Sym(i)' = Sym(i)
  BY DEF Sym
<1>2. Sym(p)' = x
  BY DEF Sym
<1>3. ASSUME NEW i \in 1 .. p
      PROVE  Header(i)' = Header(i)
  <2>1. \A j \in 1 .. i - 1 : Sym(j)' = Sym(j)
    BY <1>1
  <2> QED
    BY <2>1 DEF Header
<1>4. ASSUME NEW i \in 1 .. p
      PROVE  Fits(i)'
  <2>1. Sym(i - 1)' = Sym(i - 1) /\ Sym(i - 2)' = Sym(i - 2) /\ Header(i)' = Header(i)
    BY <1>1, <1>3
  <2>2. CASE i = p
    BY <1>2, <2>1, <2>2 DEF Fits
  <2>3. CASE i < p
    <3>1. Sym(i)' = Sym(i) /\ Fits(i)
      BY <1>1, <2>3 DEF Viable
    <3> QED
      BY <2>1, <3>1 DEF Fits
  <2> QED
    BY <2>2, <2>3
<1> QED
  BY <1>4 DEF Viable

(* The two symbols on top, and where a body has begun. *)
LEMMA TopTwo ==
  ASSUME Stacked, Viable
  PROVE  LET n == Len(symbols)
         IN  /\ n \in Nat /\ Top = Sym(n) /\ Beneath = Sym(n - 1)
             /\ InHeader <=> Header(n + 1)
             /\ Top # "start" =>
                  /\ n >= 1
                  /\ Fitting(Top, Beneath, Sym(n - 2), Header(n))
                  /\ Header(n + 1) <=> Header(n) /\ Top # "LCurly"
             /\ Beneath # "start" =>
                  /\ n >= 2
                  /\ Fitting(Beneath, Sym(n - 2), Sym(n - 3), Header(n - 1))
                  /\ Header(n) <=> Header(n - 1) /\ Beneath # "LCurly"
<1> DEFINE n == Len(symbols)
<1>1. n \in Nat /\ Top = Sym(n) /\ Beneath = Sym(n - 1) /\ (InHeader <=> Header(n + 1))
  <2>1. n \in Nat /\ 0 \in Nat /\ 1 \in Nat /\ n - 0 = n
    BY Places
  <2>2. SymbolAt(0) = Sym(n - 0) /\ SymbolAt(1) = Sym(n - 1)
    BY <2>1, Places
  <2> QED
    BY <2>1, <2>2, Places DEF Top, Beneath
<1>2. ASSUME Top # "start"
      PROVE  /\ n >= 1
             /\ Fitting(Top, Beneath, Sym(n - 2), Header(n))
             /\ Header(n + 1) <=> Header(n) /\ Top # "LCurly"
  <2>1. n >= 1 /\ n \in Int
    BY <1>1, <1>2, Places
  <2>2. Fits(n)
    BY <1>1, <2>1 DEF Viable
  <2>3. Header(n + 1) <=> Header(n) /\ Sym(n) # "LCurly"
    BY <2>1, Places
  <2> QED
    BY <1>1, <2>1, <2>2, <2>3 DEF Fits
<1>3. ASSUME Beneath # "start"
      PROVE  /\ n >= 2
             /\ Fitting(Beneath, Sym(n - 2), Sym(n - 3), Header(n - 1))
             /\ Header(n) <=> Header(n - 1) /\ Beneath # "LCurly"
  <2>1. n - 1 \in Int /\ n - 1 <= n /\ (n - 1) - 1 = n - 2 /\ (n - 1) - 2 = n - 3
        /\ (n - 1) + 1 = n
    BY <1>1
  <2>2. n - 1 >= 1 /\ n >= 2
    BY <1>1, <1>3, <2>1, Places
  <2>3. Fits(n - 1)
    BY <1>1, <2>1, <2>2 DEF Viable
  <2>4. Header((n - 1) + 1) <=> Header(n - 1) /\ Sym(n - 1) # "LCurly"
    BY <2>1, <2>2, Places
  <2> QED
    BY <1>1, <2>1, <2>2, <2>3, <2>4 DEF Fits
<1> QED
  BY <1>1, <1>2, <1>3

LEMMA ShiftFits ==
  ASSUME Stacked, Viable, NEW type, MayShift(type)
  PROVE  LET n == Len(symbols)
         IN  Fitting(type, Sym(n), Sym(n - 1), Header(n + 1))
<1> DEFINE n == Len(symbols)
<1>1. /\ n \in Nat /\ Top = Sym(n) /\ Beneath = Sym(n - 1)
      /\ InHeader <=> Header(n + 1)
      /\ Top # "start" =>
           /\ Fitting(Top, Beneath, Sym(n - 2), Header(n))
           /\ Header(n + 1) <=> Header(n) /\ Top # "LCurly"
      /\ Beneath # "start" =>
           /\ Fitting(Beneath, Sym(n - 2), Sym(n - 3), Header(n - 1))
           /\ Header(n) <=> Header(n - 1) /\ Beneath # "LCurly"
  BY TopTwo
<1> HIDE DEF n
<1>2. OperandPlace(Top) => ~InHeader
  BY <1>1 DEF OperandPlace, Fitting
<1>3. Beneath \in {"LCurly", "Semi"} \/ OperandPlace(Beneath) => (Top = "name" => ~InHeader)
  BY <1>1 DEF OperandPlace, Fitting
<1>4. Top \in {"LCurly", "Semi", "expr", "comm"} => ~InHeader
  BY <1>1 DEF Fitting
<1>5. /\ Top = "names" => InHeader
      /\ Top = "exprs" => ~InHeader
  BY <1>1 DEF Fitting
<1>6. Fitting(type, Top, Beneath, InHeader)
  <2>1. CASE type \in {"Int", "Name", "While", "Return"}
    BY <1>2, <1>3, <1>4, <2>1 DEF MayShift, Fitting
  <2>2. CASE type \in {"LParen", "Assign", "Comma", "RParen"}
    BY <1>2, <1>3, <1>4, <1>5, <2>2 DEF MayShift, Fitting
  <2>3. CASE type \in {"LCurly", "RCurly", "Add", "Sub", "Do", "Semi"}
    BY <1>2, <1>3, <1>4, <1>5, <2>3 DEF MayShift, Fitting
  <2>4. type \in {"Int", "Name", "While", "Return", "LParen", "Assign", "Comma", "RParen",
                  "LCurly", "RCurly", "Add", "Sub", "Do", "Semi"}
    BY DEF MayShift
  <2> QED
    BY <2>1, <2>2, <2>3, <2>4
<1> QED
  BY <1>1, <1>6 DEF Fitting, n

(* The same, counted from the top: HeaderUnder(d) is about what is under the d symbols
   on top. *)
HeaderUnder(d) == Header(Len(symbols) + 1 - d)
FitsAt(d) ==
  SymbolAt(d) # "start" =>
    /\ d < Len(symbols)
    /\ Fitting(SymbolAt(d), SymbolAt(d + 1), SymbolAt(d + 2), HeaderUnder(d + 1))
    /\ HeaderUnder(d) <=> HeaderUnder(d + 1) /\ SymbolAt(d) # "LCurly"

LEMMA EveryDepthFits == ASSUME Stacked, Viable PROVE \A d \in Nat : FitsAt(d)
<1> SUFFICES ASSUME NEW d \in Nat, SymbolAt(d) # "start" PROVE FitsAt(d)
  BY DEF FitsAt
<1> DEFINE n == Len(symbols)
<1>1. n \in Nat /\ SymbolAt(d) = Sym(n - d) /\ n - d <= n /\ n - d \in Int
  BY Places
<1>2. n - d >= 1 /\ d < n /\ n - d \in 1 .. n
  <2> DEFINE i == n - d
  <2>1. i \in Int /\ i <= n /\ Sym(i) # "start"
    BY <1>1
  <2> HIDE DEF i
  <2>2. i >= 1
    BY <2>1, Places
  <2> QED
    BY <1>1, <2>2 DEF i
<1>3. Fits(n - d)
  BY <1>2 DEF Viable
<1>4. /\ n - (d + 1) = (n - d) - 1 /\ n - (d + 2) = (n - d) - 2
      /\ n + 1 - (d + 1) = n - d /\ n + 1 - d = (n - d) + 1
  BY <1>1
<1>5. SymbolAt(d + 1) = Sym((n - d) - 1) /\ SymbolAt(d + 2) = Sym((n - d) - 2)
  <2>1. d + 1 \in Nat /\ d + 2 \in Nat
    OBVIOUS
  <2>2. SymbolAt(d + 1) = Sym(n - (d + 1)) /\ SymbolAt(d + 2) = Sym(n - (d + 2))
    BY <2>1, Places
  <2> QED
    BY <1>4, <2>2
<1>6. (HeaderUnder(d) <=> Header((n - d) + 1)) /\ (HeaderUnder(d + 1) <=> Header(n - d))
  BY <1>4 DEF HeaderUnder
<1>7. Header((n - d) + 1) <=> Header(n - d) /\ Sym(n - d) # "LCurly"
  BY <1>1, <1>2, Places
<1> HIDE DEF n
<1>8. Fitting(SymbolAt(d), SymbolAt(d + 1), SymbolAt(d + 2), HeaderUnder(d + 1))
  BY <1>1, <1>3, <1>5, <1>6 DEF Fits, Fitting
<1>9. HeaderUnder(d) <=> HeaderUnder(d + 1) /\ SymbolAt(d) # "LCurly"
  BY <1>1, <1>6, <1>7
<1> QED
  BY <1>2, <1>8, <1>9 DEF FitsAt, n

LEMMA SevenDeep ==
  ASSUME Stacked, Viable
  PROVE  /\ FitsAt(0) /\ FitsAt(1) /\ FitsAt(2) /\ FitsAt(3) /\ FitsAt(4) /\ FitsAt(5)
         /\ FitsAt(6)
         /\ Top = SymbolAt(0) /\ Beneath = SymbolAt(1) /\ (InHeader <=> HeaderUnder(0))
<1>1. /\ FitsAt(0) /\ FitsAt(1) /\ FitsAt(2) /\ FitsAt(3) /\ FitsAt(4) /\ FitsAt(5)
      /\ FitsAt(6)
  BY EveryDepthFits
<1>2. InHeader <=> HeaderUnder(0)
  <2>1. Len(symbols) \in Nat
    BY Places
  <2>2. Len(symbols) + 1 - 0 = Len(symbols) + 1
    BY <2>1
  <2> QED
    BY <2>2, Places DEF HeaderUnder
<1> QED
  BY <1>1, <1>2 DEF Top, Beneath

(* The left-hand side of a complete rule fits where the right-hand side was. *)
LEMMA ReduceFits ==
  ASSUME Stacked, Viable, NEW rule \in DOMAIN Grammar, OnTop(rule)
  PROVE  LET m == Len(Grammar[rule].rhs)
         IN  Fitting(Grammar[rule].lhs, SymbolAt(m), SymbolAt(m + 1), HeaderUnder(m))
<1> DEFINE Goal(r) ==
             LET m == Len(Grammar[r].rhs)
             IN  Fitting(Grammar[r].lhs, SymbolAt(m), SymbolAt(m + 1), HeaderUnder(m))
<1>1. /\ FitsAt(0) /\ FitsAt(1) /\ FitsAt(2) /\ FitsAt(3) /\ FitsAt(4) /\ FitsAt(5)
      /\ FitsAt(6)
      /\ Top = SymbolAt(0) /\ Beneath = SymbolAt(1) /\ (InHeader <=> HeaderUnder(0))
  BY SevenDeep
<1>2. CASE rule = "prog"
  <2>1. Fitting("prog", SymbolAt(1), SymbolAt(1 + 1), HeaderUnder(1))
    BY <1>1, <1>2, Handles, SMTT(30) DEF OnTop, OperandPlace, FitsAt, Fitting
  <2>2. Len(Grammar["prog"].rhs) = 1 /\ Grammar["prog"].lhs = "prog"
    BY DEF Grammar, Rule
  <2> QED
    BY <1>2, <2>1, <2>2
<1>3. CASE rule = "func"
  <2>1. Fitting("func", SymbolAt(7), SymbolAt(7 + 1), HeaderUnder(7))
    BY <1>1, <1>3, Handles, SMTT(30) DEF OnTop, OperandPlace, FitsAt, Fitting
  <2>2. Len(Grammar["func"].rhs) = 7 /\ Grammar["func"].lhs = "func"
    BY DEF Grammar, Rule
  <2> QED
    BY <1>3, <2>1, <2>2
<1>4. CASE rule = "funcs"
  <2>1. Fitting("funcs", SymbolAt(2), SymbolAt(2 + 1), HeaderUnder(2))
    BY <1>1, <1>4, Handles, SMTT(30) DEF OnTop, OperandPlace, FitsAt, Fitting
  <2>2. Len(Grammar["funcs"].rhs) = 2 /\ Grammar["funcs"].lhs = "funcs"
    BY DEF Grammar, Rule
  <2> QED
    BY <1>4, <2>1, <2>2
<1>5. CASE rule = "lastFunc"
  <2>1. Fitting("funcs", SymbolAt(1), SymbolAt(1 + 1), HeaderUnder(1))
    BY <1>1, <1>5, Handles, SMTT(30) DEF OnTop, OperandPlace, FitsAt, Fitting
  <2>2. Len(Grammar["lastFunc"].rhs) = 1 /\ Grammar["lastFunc"].lhs = "funcs"
    BY DEF Grammar, Rule
  <2> QED
    BY <1>5, <2>1, <2>2
<1>6. CASE rule = "while"
  <2>1. Fitting("comm", SymbolAt(6), SymbolAt(6 + 1), HeaderUnder(6))
    BY <1>1, <1>6, Handles, SMTT(30) DEF OnTop, OperandPlace, FitsAt, Fitting
  <2>2. Len(Grammar["while"].rhs) = 6 /\ Grammar["while"].lhs = "comm"
    BY DEF Grammar, Rule
  <2> QED
    BY <1>6, <2>1, <2>2
<1>7. CASE rule = "assign"
  <2>1. Fitting("comm", SymbolAt(3), SymbolAt(3 + 1), HeaderUnder(3))
    BY <1>1, <1>7, Handles, SMTT(30) DEF OnTop, OperandPlace, FitsAt, Fitting
  <2>2. Len(Grammar["assign"].rhs) = 3 /\ Grammar["assign"].lhs = "comm"
    BY DEF Grammar, Rule
  <2> QED
    BY <1>7, <2>1, <2>2
<1>8. CASE rule = "comp"
  <2>1. Fitting("comm", SymbolAt(3), SymbolAt(3 + 1), HeaderUnder(3))
    BY <1>1, <1>8, Handles, SMTT(30) DEF OnTop, OperandPlace, FitsAt, Fitting
  <2>2. Len(Grammar["comp"].rhs) = 3 /\ Grammar["comp"].lhs = "comm"
    BY DEF Grammar, Rule
  <2> QED
    BY <1>8, <2>1, <2>2
<1>9. CASE rule = "return"
  <2>1. Fitting("comm", SymbolAt(2), SymbolAt(2 + 1), HeaderUnder(2))
    BY <1>1, <1>9, Handles, SMTT(30) DEF OnTop, OperandPlace, FitsAt, Fitting
  <2>2. Len(Grammar["return"].rhs) = 2 /\ Grammar["return"].lhs = "comm"
    BY DEF Grammar, Rule
  <2> QED
    BY <1>9, <2>1, <2>2
<1>10. CASE rule = "int"
  <2>1. Fitting("expr", SymbolAt(1), SymbolAt(1 + 1), HeaderUnder(1))
    BY <1>1, <1>10, Handles, SMTT(30) DEF OnTop, OperandPlace, FitsAt, Fitting
  <2>2. Len(Grammar["int"].rhs) = 1 /\ Grammar["int"].lhs = "expr"
    BY DEF Grammar, Rule
  <2> QED
    BY <1>10, <2>1, <2>2
<1>11. CASE rule = "add"
  <2>1. Fitting("expr", SymbolAt(3), SymbolAt(3 + 1), HeaderUnder(3))
    BY <1>1, <1>11, Handles, SMTT(30) DEF OnTop, OperandPlace, FitsAt, Fitting
  <2>2. Len(Grammar["add"].rhs) = 3 /\ Grammar["add"].lhs = "expr"
    BY DEF Grammar, Rule
  <2> QED
    BY <1>11, <2>1, <2>2
<1>12. CASE rule = "sub"
  <2>1. Fitting("expr", SymbolAt(3), SymbolAt(3 + 1), HeaderUnder(3))
    BY <1>1, <1>12, Handles, SMTT(30) DEF OnTop, OperandPlace, FitsAt, Fitting
  <2>2. Len(Grammar["sub"].rhs) = 3 /\ Grammar["sub"].lhs = "expr"
    BY DEF Grammar, Rule
  <2> QED
    BY <1>12, <2>1, <2>2
<1>13. CASE rule = "call"
  <2>1. Fitting("expr", SymbolAt(4), SymbolAt(4 + 1), HeaderUnder(4))
    BY <1>1, <1>13, Handles, SMTT(30) DEF OnTop, OperandPlace, FitsAt, Fitting
  <2>2. Len(Grammar["call"].rhs) = 4 /\ Grammar["call"].lhs = "expr"
    BY DEF Grammar, Rule
  <2> QED
    BY <1>13, <2>1, <2>2
<1>14. CASE rule = "var"
  <2>1. Fitting("expr", SymbolAt(1), SymbolAt(1 + 1), HeaderUnder(1))
    BY <1>1, <1>14, Handles, SMTT(30) DEF OnTop, OperandPlace, FitsAt, Fitting
  <2>2. Len(Grammar["var"].rhs) = 1 /\ Grammar["var"].lhs = "expr"
    BY DEF Grammar, Rule
  <2> QED
    BY <1>14, <2>1, <2>2
<1>15. CASE rule = "name"
  <2>1. Fitting("name", SymbolAt(1), SymbolAt(1 + 1), HeaderUnder(1))
    BY <1>1, <1>15, Handles, SMTT(30) DEF OnTop, OperandPlace, FitsAt, Fitting
  <2>2. Len(Grammar["name"].rhs) = 1 /\ Grammar["name"].lhs = "name"
    BY DEF Grammar, Rule
  <2> QED
    BY <1>15, <2>1, <2>2
<1>16. CASE rule = "noNames"
  <2>1. Fitting("names", SymbolAt(0), SymbolAt(0 + 1), HeaderUnder(0))
    BY <1>1, <1>16, SMTT(30) DEF OnTop, OperandPlace, FitsAt, Fitting
  <2>2. Len(Grammar["noNames"].rhs) = 0 /\ Grammar["noNames"].lhs = "names"
    BY DEF Grammar, Rule
  <2> QED
    BY <1>16, <2>1, <2>2
<1>17. CASE rule = "names"
  <2>1. Fitting("names", SymbolAt(2), SymbolAt(2 + 1), HeaderUnder(2))
    BY <1>1, <1>17, Handles, SMTT(30) DEF OnTop, OperandPlace, FitsAt, Fitting
  <2>2. Len(Grammar["names"].rhs) = 2 /\ Grammar["names"].lhs = "names"
    BY DEF Grammar, Rule
  <2> QED
    BY <1>17, <2>1, <2>2
<1>18. CASE rule = "lastName"
  <2>1. Fitting("namescont", SymbolAt(0), SymbolAt(0 + 1), HeaderUnder(0))
    BY <1>1, <1>18, SMTT(30) DEF OnTop, OperandPlace, FitsAt, Fitting
  <2>2. Len(Grammar["lastName"].rhs) = 0 /\ Grammar["lastName"].lhs = "namescont"
    BY DEF Grammar, Rule
  <2> QED
    BY <1>18, <2>1, <2>2
<1>19. CASE rule = "namescont"
  <2>1. Fitting("namescont", SymbolAt(3), SymbolAt(3 + 1), HeaderUnder(3))
    BY <1>1, <1>19, Handles, SMTT(30) DEF OnTop, OperandPlace, FitsAt, Fitting
  <2>2. Len(Grammar["namescont"].rhs) = 3 /\ Grammar["namescont"].lhs = "namescont"
    BY DEF Grammar, Rule
  <2> QED
    BY <1>19, <2>1, <2>2
<1>20. CASE rule = "noExprs"
  <2>1. Fitting("exprs", SymbolAt(0), SymbolAt(0 + 1), HeaderUnder(0))
    BY <1>1, <1>20, SMTT(30) DEF OnTop, OperandPlace, FitsAt, Fitting
  <2>2. Len(Grammar["noExprs"].rhs) = 0 /\ Grammar["noExprs"].lhs = "exprs"
    BY DEF Grammar, Rule
  <2> QED
    BY <1>20, <2>1, <2>2
<1>21. CASE rule = "exprs"
  <2>1. Fitting("exprs", SymbolAt(2), SymbolAt(2 + 1), HeaderUnder(2))
    BY <1>1, <1>21, Handles, SMTT(30) DEF OnTop, OperandPlace, FitsAt, Fitting
  <2>2. Len(Grammar["exprs"].rhs) = 2 /\ Grammar["exprs"].lhs = "exprs"
    BY DEF Grammar, Rule
  <2> QED
    BY <1>21, <2>1, <2>2
<1>22. CASE rule = "lastExpr"
  <2>1. Fitting("exprscont", SymbolAt(0), SymbolAt(0 + 1), HeaderUnder(0))
    BY <1>1, <1>22, SMTT(30) DEF OnTop, OperandPlace, FitsAt, Fitting
  <2>2. Len(Grammar["lastExpr"].rhs) = 0 /\ Grammar["lastExpr"].lhs = "exprscont"
    BY DEF Grammar, Rule
  <2> QED
    BY <1>22, <2>1, <2>2
<1>23. CASE rule = "exprscont"
  <2>1. Fitting("exprscont", SymbolAt(3), SymbolAt(3 + 1), HeaderUnder(3))
    BY <1>1, <1>23, Handles, SMTT(30) DEF OnTop, OperandPlace, FitsAt, Fitting
  <2>2. Len(Grammar["exprscont"].rhs) = 3 /\ Grammar["exprscont"].lhs = "exprscont"
    BY DEF Grammar, Rule
  <2> QED
    BY <1>23, <2>1, <2>2
<1> QED
  BY <1>2, <1>3, <1>4, <1>5, <1>6, <1>7, <1>8, <1>9, <1>10, <1>11, <1>12, <1>13, <1>14, <1>15,
     <1>16, <1>17, <1>18, <1>19, <1>20, <1>21, <1>22, <1>23, GrammarRules DEF RuleNames

(***************************************************************************)
(* Part 10: one step in every state.                                       *)
(***************************************************************************)
(* The converse of Handles, for the rules that are reduced without reading on. *)
LEMMA CompleteHandles ==
  ASSUME Len(symbols) \in Nat
  PROVE  /\ 1 <= Len(symbols) /\ SymbolAt(0) = "Int"
            => OnTop("int")
         /\ 1 <= Len(symbols) /\ SymbolAt(0) = "Name"
            => OnTop("name")
         /\ 7 <= Len(symbols) /\ SymbolAt(0) = "RCurly" /\ SymbolAt(1) = "comm"
            /\ SymbolAt(2) = "LCurly" /\ SymbolAt(3) = "RParen" /\ SymbolAt(4) = "names"
            /\ SymbolAt(5) = "LParen" /\ SymbolAt(6) = "name"
            => OnTop("func")
         /\ 6 <= Len(symbols) /\ SymbolAt(0) = "RCurly" /\ SymbolAt(1) = "comm"
            /\ SymbolAt(2) = "LCurly" /\ SymbolAt(3) = "Do" /\ SymbolAt(4) = "expr"
            /\ SymbolAt(5) = "While"
            => OnTop("while")
         /\ 4 <= Len(symbols) /\ SymbolAt(0) = "RParen" /\ SymbolAt(1) = "exprs"
            /\ SymbolAt(2) = "LParen" /\ SymbolAt(3) = "name"
            => OnTop("call")
         /\ 2 <= Len(symbols) /\ SymbolAt(0) = "namescont" /\ SymbolAt(1) = "name"
            /\ SymbolAt(2) = "LParen"
            => OnTop("names")
         /\ 3 <= Len(symbols) /\ SymbolAt(0) = "namescont" /\ SymbolAt(1) = "name"
            /\ SymbolAt(2) = "Comma"
            => OnTop("namescont")
         /\ 2 <= Len(symbols) /\ SymbolAt(0) = "exprscont" /\ SymbolAt(1) = "expr"
            /\ SymbolAt(2) = "LParen"
            => OnTop("exprs")
         /\ 3 <= Len(symbols) /\ SymbolAt(0) = "exprscont" /\ SymbolAt(1) = "expr"
            /\ SymbolAt(2) = "Comma"
            => OnTop("exprscont")
         /\ 1 <= Len(symbols) /\ SymbolAt(0) = "funcs" /\ Len(symbols) = 1
            => OnTop("prog")
         /\ 2 <= Len(symbols) /\ SymbolAt(0) = "funcs" /\ SymbolAt(1) = "func"
            => OnTop("funcs")
<1>1. ASSUME 1 <= Len(symbols) /\ SymbolAt(0) = "Int"
      PROVE  OnTop("int")
  <2>1. Grammar["int"].rhs = <<"Int">>
    BY DEF Grammar, Rule
  <2> DEFINE rhs == <<"Int">>
  <2>2. DOMAIN rhs = 1 .. 1 /\ Len(rhs) = 1
    OBVIOUS
  <2>3. SymbolAt(1 - 1) = rhs[1]
    BY <1>1
  <2> HIDE DEF rhs
  <2>4. \A i \in 1 .. 1 : SymbolAt(1 - i) = rhs[i]
    BY <2>3
  <2>5. Handle(rhs)
    BY <1>1, <2>2, <2>4 DEF Handle
  <2> QED
    BY <1>1, <2>1, <2>5 DEF OnTop, rhs
<1>2. ASSUME 1 <= Len(symbols) /\ SymbolAt(0) = "Name"
      PROVE  OnTop("name")
  <2>1. Grammar["name"].rhs = <<"Name">>
    BY DEF Grammar, Rule
  <2> DEFINE rhs == <<"Name">>
  <2>2. DOMAIN rhs = 1 .. 1 /\ Len(rhs) = 1
    OBVIOUS
  <2>3. SymbolAt(1 - 1) = rhs[1]
    BY <1>2
  <2> HIDE DEF rhs
  <2>4. \A i \in 1 .. 1 : SymbolAt(1 - i) = rhs[i]
    BY <2>3
  <2>5. Handle(rhs)
    BY <1>2, <2>2, <2>4 DEF Handle
  <2> QED
    BY <1>2, <2>1, <2>5 DEF OnTop, rhs
<1>3. ASSUME 7 <= Len(symbols) /\ SymbolAt(0) = "RCurly" /\ SymbolAt(1) = "comm"
            /\ SymbolAt(2) = "LCurly" /\ SymbolAt(3) = "RParen" /\ SymbolAt(4) = "names"
            /\ SymbolAt(5) = "LParen" /\ SymbolAt(6) = "name"
      PROVE  OnTop("func")
  <2>1. Grammar["func"].rhs = <<"name", "LParen", "names", "RParen", "LCurly", "comm",
  "RCurly">>
    BY DEF Grammar, Rule
  <2> DEFINE rhs == <<"name", "LParen", "names", "RParen", "LCurly", "comm", "RCurly">>
  <2>2. DOMAIN rhs = 1 .. 7 /\ Len(rhs) = 7
    OBVIOUS
  <2>3. SymbolAt(7 - 1) = rhs[1] /\ SymbolAt(7 - 2) = rhs[2] /\ SymbolAt(7 - 3) = rhs[3]
        /\ SymbolAt(7 - 4) = rhs[4] /\ SymbolAt(7 - 5) = rhs[5] /\ SymbolAt(7 - 6) = rhs[6]
             /\ SymbolAt(7 - 7) = rhs[7]
    BY <1>3
  <2> HIDE DEF rhs
  <2>4. \A i \in 1 .. 7 : SymbolAt(7 - i) = rhs[i]
    BY <2>3
  <2>5. Handle(rhs)
    BY <1>3, <2>2, <2>4 DEF Handle
  <2> QED
    BY <1>3, <2>1, <2>5 DEF OnTop, rhs
<1>4. ASSUME 6 <= Len(symbols) /\ SymbolAt(0) = "RCurly" /\ SymbolAt(1) = "comm"
            /\ SymbolAt(2) = "LCurly" /\ SymbolAt(3) = "Do" /\ SymbolAt(4) = "expr"
            /\ SymbolAt(5) = "While"
      PROVE  OnTop("while")
  <2>1. Grammar["while"].rhs = <<"While", "expr", "Do", "LCurly", "comm", "RCurly">>
    BY DEF Grammar, Rule
  <2> DEFINE rhs == <<"While", "expr", "Do", "LCurly", "comm", "RCurly">>
  <2>2. DOMAIN rhs = 1 .. 6 /\ Len(rhs) = 6
    OBVIOUS
  <2>3. SymbolAt(6 - 1) = rhs[1] /\ SymbolAt(6 - 2) = rhs[2] /\ SymbolAt(6 - 3) = rhs[3]
        /\ SymbolAt(6 - 4) = rhs[4] /\ SymbolAt(6 - 5) = rhs[5] /\ SymbolAt(6 - 6) = rhs[6]
    BY <1>4
  <2> HIDE DEF rhs
  <2>4. \A i \in 1 .. 6 : SymbolAt(6 - i) = rhs[i]
    BY <2>3
  <2>5. Handle(rhs)
    BY <1>4, <2>2, <2>4 DEF Handle
  <2> QED
    BY <1>4, <2>1, <2>5 DEF OnTop, rhs
<1>5. ASSUME 4 <= Len(symbols) /\ SymbolAt(0) = "RParen" /\ SymbolAt(1) = "exprs"
            /\ SymbolAt(2) = "LParen" /\ SymbolAt(3) = "name"
      PROVE  OnTop("call")
  <2>1. Grammar["call"].rhs = <<"name", "LParen", "exprs", "RParen">>
    BY DEF Grammar, Rule
  <2> DEFINE rhs == <<"name", "LParen", "exprs", "RParen">>
  <2>2. DOMAIN rhs = 1 .. 4 /\ Len(rhs) = 4
    OBVIOUS
  <2>3. SymbolAt(4 - 1) = rhs[1] /\ SymbolAt(4 - 2) = rhs[2] /\ SymbolAt(4 - 3) = rhs[3]
        /\ SymbolAt(4 - 4) = rhs[4]
    BY <1>5
  <2> HIDE DEF rhs
  <2>4. \A i \in 1 .. 4 : SymbolAt(4 - i) = rhs[i]
    BY <2>3
  <2>5. Handle(rhs)
    BY <1>5, <2>2, <2>4 DEF Handle
  <2> QED
    BY <1>5, <2>1, <2>5 DEF OnTop, rhs
<1>6. ASSUME 2 <= Len(symbols) /\ SymbolAt(0) = "namescont" /\ SymbolAt(1) = "name"
            /\ SymbolAt(2) = "LParen"
      PROVE  OnTop("names")
  <2>1. Grammar["names"].rhs = <<"name", "namescont">>
    BY DEF Grammar, Rule
  <2> DEFINE rhs == <<"name", "namescont">>
  <2>2. DOMAIN rhs = 1 .. 2 /\ Len(rhs) = 2
    OBVIOUS
  <2>3. SymbolAt(2 - 1) = rhs[1] /\ SymbolAt(2 - 2) = rhs[2]
    BY <1>6
  <2> HIDE DEF rhs
  <2>4. \A i \in 1 .. 2 : SymbolAt(2 - i) = rhs[i]
    BY <2>3
  <2>5. Handle(rhs)
    BY <1>6, <2>2, <2>4 DEF Handle
  <2> QED
    BY <1>6, <2>1, <2>5 DEF OnTop, rhs
<1>7. ASSUME 3 <= Len(symbols) /\ SymbolAt(0) = "namescont" /\ SymbolAt(1) = "name"
            /\ SymbolAt(2) = "Comma"
      PROVE  OnTop("namescont")
  <2>1. Grammar["namescont"].rhs = <<"Comma", "name", "namescont">>
    BY DEF Grammar, Rule
  <2> DEFINE rhs == <<"Comma", "name", "namescont">>
  <2>2. DOMAIN rhs = 1 .. 3 /\ Len(rhs) = 3
    OBVIOUS
  <2>3. SymbolAt(3 - 1) = rhs[1] /\ SymbolAt(3 - 2) = rhs[2] /\ SymbolAt(3 - 3) = rhs[3]
    BY <1>7
  <2> HIDE DEF rhs
  <2>4. \A i \in 1 .. 3 : SymbolAt(3 - i) = rhs[i]
    BY <2>3
  <2>5. Handle(rhs)
    BY <1>7, <2>2, <2>4 DEF Handle
  <2> QED
    BY <1>7, <2>1, <2>5 DEF OnTop, rhs
<1>8. ASSUME 2 <= Len(symbols) /\ SymbolAt(0) = "exprscont" /\ SymbolAt(1) = "expr"
            /\ SymbolAt(2) = "LParen"
      PROVE  OnTop("exprs")
  <2>1. Grammar["exprs"].rhs = <<"expr", "exprscont">>
    BY DEF Grammar, Rule
  <2> DEFINE rhs == <<"expr", "exprscont">>
  <2>2. DOMAIN rhs = 1 .. 2 /\ Len(rhs) = 2
    OBVIOUS
  <2>3. SymbolAt(2 - 1) = rhs[1] /\ SymbolAt(2 - 2) = rhs[2]
    BY <1>8
  <2> HIDE DEF rhs
  <2>4. \A i \in 1 .. 2 : SymbolAt(2 - i) = rhs[i]
    BY <2>3
  <2>5. Handle(rhs)
    BY <1>8, <2>2, <2>4 DEF Handle
  <2> QED
    BY <1>8, <2>1, <2>5 DEF OnTop, rhs
<1>9. ASSUME 3 <= Len(symbols) /\ SymbolAt(0) = "exprscont" /\ SymbolAt(1) = "expr"
            /\ SymbolAt(2) = "Comma"
      PROVE  OnTop("exprscont")
  <2>1. Grammar["exprscont"].rhs = <<"Comma", "expr", "exprscont">>
    BY DEF Grammar, Rule
  <2> DEFINE rhs == <<"Comma", "expr", "exprscont">>
  <2>2. DOMAIN rhs = 1 .. 3 /\ Len(rhs) = 3
    OBVIOUS
  <2>3. SymbolAt(3 - 1) = rhs[1] /\ SymbolAt(3 - 2) = rhs[2] /\ SymbolAt(3 - 3) = rhs[3]
    BY <1>9
  <2> HIDE DEF rhs
  <2>4. \A i \in 1 .. 3 : SymbolAt(3 - i) = rhs[i]
    BY <2>3
  <2>5. Handle(rhs)
    BY <1>9, <2>2, <2>4 DEF Handle
  <2> QED
    BY <1>9, <2>1, <2>5 DEF OnTop, rhs
<1>10. ASSUME 1 <= Len(symbols) /\ SymbolAt(0) = "funcs" /\ Len(symbols) = 1
      PROVE  OnTop("prog")
  <2>1. Grammar["prog"].rhs = <<"funcs">>
    BY DEF Grammar, Rule
  <2> DEFINE rhs == <<"funcs">>
  <2>2. DOMAIN rhs = 1 .. 1 /\ Len(rhs) = 1
    OBVIOUS
  <2>3. SymbolAt(1 - 1) = rhs[1]
    BY <1>10
  <2> HIDE DEF rhs
  <2>4. \A i \in 1 .. 1 : SymbolAt(1 - i) = rhs[i]
    BY <2>3
  <2>5. Handle(rhs)
    BY <1>10, <2>2, <2>4 DEF Handle
  <2> QED
    BY <1>10, <2>1, <2>5 DEF OnTop, rhs
<1>11. ASSUME 2 <= Len(symbols) /\ SymbolAt(0) = "funcs" /\ SymbolAt(1) = "func"
      PROVE  OnTop("funcs")
  <2>1. Grammar["funcs"].rhs = <<"func", "funcs">>
    BY DEF Grammar, Rule
  <2> DEFINE rhs == <<"func", "funcs">>
  <2>2. DOMAIN rhs = 1 .. 2 /\ Len(rhs) = 2
    OBVIOUS
  <2>3. SymbolAt(2 - 1) = rhs[1] /\ SymbolAt(2 - 2) = rhs[2]
    BY <1>11
  <2> HIDE DEF rhs
  <2>4. \A i \in 1 .. 2 : SymbolAt(2 - i) = rhs[i]
    BY <2>3
  <2>5. Handle(rhs)
    BY <1>11, <2>2, <2>4 DEF Handle
  <2> QED
    BY <1>11, <2>1, <2>5 DEF OnTop, rhs
<1> QED
  BY <1>1, <1>2, <1>3, <1>4, <1>5, <1>6, <1>7, <1>8, <1>9, <1>10, <1>11

(* In a state in which bison does not read on there is a rule to reduce. *)
LEMMA ConsistentReduces ==
  ASSUME Stacked, Viable, Consistent
  PROVE  \E rule \in DOMAIN Grammar : OnTop(rule)
<1>1. /\ FitsAt(0) /\ FitsAt(1) /\ FitsAt(2) /\ FitsAt(3) /\ FitsAt(4) /\ FitsAt(5)
      /\ FitsAt(6)
      /\ Top = SymbolAt(0) /\ Beneath = SymbolAt(1) /\ (InHeader <=> HeaderUnder(0))
  BY SevenDeep
<1>2. Len(symbols) \in Nat
  BY Places
<1>3. DOMAIN Grammar = RuleNames
  BY GrammarRules
<1>4. CASE Top = "Int"
  <2>1. OnTop("int")
    BY <1>1, <1>2, <1>4, CompleteHandles DEF FitsAt
  <2> QED
    BY <1>3, <2>1 DEF RuleNames
<1>5. CASE Top = "Name"
  <2>1. OnTop("name")
    BY <1>1, <1>2, <1>5, CompleteHandles DEF FitsAt
  <2> QED
    BY <1>3, <2>1 DEF RuleNames
<1>6. CASE Top = "RCurly"
  <2>1. SymbolAt(1) = "comm" /\ SymbolAt(2) = "LCurly"
    BY <1>1, <1>6 DEF FitsAt, Fitting
  <2>2. SymbolAt(3) = "Do" \/ (SymbolAt(3) = "RParen" /\ HeaderUnder(3))
    BY <1>1, <2>1 DEF FitsAt, Fitting
  <2>3. CASE SymbolAt(3) = "Do"
    <3>1. SymbolAt(4) = "expr" /\ SymbolAt(5) = "While" /\ 6 <= Len(symbols)
      BY <1>1, <1>2, <2>3 DEF FitsAt, Fitting
    <3>2. OnTop("while")
      BY <1>1, <1>2, <1>6, <2>1, <2>3, <3>1, CompleteHandles
    <3> QED
      BY <1>3, <3>2 DEF RuleNames
  <2>4. CASE SymbolAt(3) = "RParen" /\ HeaderUnder(3)
    <3>1. SymbolAt(4) = "names"
      BY <1>1, <2>4 DEF FitsAt, Fitting
    <3>2. SymbolAt(5) = "LParen" /\ SymbolAt(6) = "name" /\ 7 <= Len(symbols)
      BY <1>1, <1>2, <3>1 DEF FitsAt, Fitting
    <3>3. OnTop("func")
      BY <1>1, <1>2, <1>6, <2>1, <2>4, <3>1, <3>2, CompleteHandles
    <3> QED
      BY <1>3, <3>3 DEF RuleNames
  <2> QED
    BY <2>2, <2>3, <2>4
<1>7. CASE Top = "namescont"
  <2>1. SymbolAt(1) = "name" /\ SymbolAt(2) \in {"LParen", "Comma"} /\ 3 <= Len(symbols)
    BY <1>1, <1>2, <1>7 DEF FitsAt, Fitting
  <2>2. OnTop("names") \/ OnTop("namescont")
    BY <1>1, <1>2, <1>7, <2>1, CompleteHandles
  <2> QED
    BY <1>3, <2>2 DEF RuleNames
<1>8. CASE Top = "exprscont"
  <2>1. SymbolAt(1) = "expr" /\ SymbolAt(2) \in {"LParen", "Comma"} /\ 3 <= Len(symbols)
    BY <1>1, <1>2, <1>8 DEF FitsAt, Fitting
  <2>2. OnTop("exprs") \/ OnTop("exprscont")
    BY <1>1, <1>2, <1>8, <2>1, CompleteHandles
  <2> QED
    BY <1>3, <2>2 DEF RuleNames
<1>9. CASE Top = "funcs"
  <2>1. SymbolAt(1) \in {"start", "func"} /\ 1 <= Len(symbols)
    BY <1>1, <1>2, <1>9 DEF FitsAt, Fitting
  <2>2. CASE SymbolAt(1) = "start"
    <3>1. Len(symbols) = 1
      <4>1. CASE 1 < Len(symbols)
        <5>1. Len(symbols) - 1 \in 1 .. Len(symbols) /\ 1 \in Nat
          BY <1>2, <4>1
        <5>2. SymbolAt(1) = Sym(Len(symbols) - 1)
          BY <5>1, Places
        <5> QED
          BY <2>2, <5>1, <5>2, Places
      <4>2. \A n \in Nat : 1 <= n => n = 1 \/ 1 < n
        OBVIOUS
      <4>3. Len(symbols) = 1 \/ 1 < Len(symbols)
        BY <1>2, <2>1, <4>2
      <4> QED
        BY <4>1, <4>3
    <3>2. OnTop("prog")
      BY <1>1, <1>2, <1>9, <3>1, CompleteHandles
    <3> QED
      BY <1>3, <3>2 DEF RuleNames
  <2>3. CASE SymbolAt(1) = "func"
    <3>1. OnTop("funcs")
      BY <1>1, <1>2, <1>9, <2>3, CompleteHandles DEF FitsAt
    <3> QED
      BY <1>3, <3>1 DEF RuleNames
  <2> QED
    BY <2>1, <2>2, <2>3
<1>10. CASE Top = "RParen" /\ ~InHeader
  <2>1. SymbolAt(1) = "exprs"
    BY <1>1, <1>10 DEF FitsAt, Fitting
  <2>2. SymbolAt(2) = "LParen"
    BY <1>1, <2>1 DEF FitsAt, Fitting
  <2>3. SymbolAt(3) = "name"
    BY <1>1, <2>2 DEF FitsAt, Fitting
  <2>4. OnTop("call")
    BY <1>1, <1>2, <1>10, <2>1, <2>2, <2>3, CompleteHandles DEF FitsAt
  <2> QED
    BY <1>3, <2>4 DEF RuleNames
<1> QED
  BY <1>4, <1>5, <1>6, <1>7, <1>8, <1>9, <1>10 DEF Consistent

(* The invariant of the stack. *)
ViableInv == MachineInv /\ Viable

LEMMA ViableNext == ViableInv /\ [FrontEndNext]_frontEndVars => ViableInv'
<1> SUFFICES ASSUME ViableInv, [FrontEndNext]_frontEndVars PROVE Viable'
  BY MachineNext DEF ViableInv
<1>1. MachineInv /\ Viable /\ Stacked
  BY DEF ViableInv, MachineInv
<1> DEFINE n == Len(symbols)
<1>2. n \in Nat
  BY <1>1, Places
<1>3. ASSUME symbols' = symbols PROVE Viable'
  BY <1>1, <1>3 DEF Viable, Fits, Sym, Header
<1>4. PICK S : symbols \in Seq(S)
  BY <1>1 DEF Stacked
<1>5. CASE Shift
  <2>1. Fitting(yylval.type, Sym(n), Sym(n - 1), Header(n + 1))
    BY <1>1, <1>5, ShiftFits DEF Shift
  <2>2. /\ Len(symbols') = n + 1
        /\ symbols'[n + 1] = [sym |-> yylval.type, yyval |-> yylval]
        /\ \A i \in 1 .. n : symbols'[i] = symbols[i]
    BY <1>4, <1>5, ShiftStack
  <2> DEFINE p == n + 1
  <2>3. /\ p \in 1 .. n + 1 /\ Len(symbols') = p /\ p - 1 = n /\ p - 2 = n - 1
        /\ symbols'[p].sym = yylval.type
    BY <1>2, <2>2
  <2> HIDE DEF p
  <2> QED
    BY <1>1, <1>2, <2>1, <2>2, <2>3, ViablePush DEF p
<1>6. CASE \E rule \in DOMAIN Grammar : \E value : Reduce(rule, value)
  <2>1. PICK rule \in DOMAIN Grammar : \E value : Reduce(rule, value)
    BY <1>6
  <2>2. PICK value : Reduce(rule, value)
    BY <2>1
  <2> DEFINE m == Len(Grammar[rule].rhs)
             lhs == Grammar[rule].lhs
             p == n - m + 1
  <2>3. m \in 0 .. n
    BY <1>4, <2>2, ReduceStack
  <2>4. /\ Len(symbols') = p
        /\ symbols'[p] = [sym |-> lhs, yyval |-> value]
        /\ \A i \in 1 .. n - m : symbols'[i] = symbols[i]
    BY <1>4, <2>2, ReduceStack
  <2>5. symbols'[p].sym = lhs
    BY <2>4
  <2>6. Fitting(lhs, SymbolAt(m), SymbolAt(m + 1), HeaderUnder(m))
    BY <1>1, <2>2, ReduceFits DEF Reduce
  <2> HIDE DEF m, lhs
  <2>7. m \in Nat /\ m + 1 \in Nat /\ p \in 1 .. n + 1 /\ p - 1 = n - m
        /\ p - 2 = n - (m + 1) /\ n + 1 - m = p
    BY <1>2, <2>3
  <2>8. /\ SymbolAt(m) = Sym(p - 1) /\ SymbolAt(m + 1) = Sym(p - 2)
        /\ (HeaderUnder(m) <=> Header(p))
    BY <1>1, <2>7, Places DEF HeaderUnder
  <2> HIDE DEF p
  <2>9. Fitting(lhs, Sym(p - 1), Sym(p - 2), Header(p))
    BY <2>6, <2>8 DEF Fitting
  <2> QED
    BY <1>1, <1>2, <2>4, <2>5, <2>7, <2>9, ViablePush
<1>7. CASE LexNext /\ UNCHANGED parserVars
  BY <1>3, <1>7 DEF parserVars
<1>8. CASE ReadToken \/ SkipErrorToken \/ SyntaxError \/ Accept \/ AcceptWithErrors
  BY <1>3, <1>8 DEF ReadToken, SkipErrorToken, SyntaxError, Accept, AcceptWithErrors
<1>9. CASE UNCHANGED frontEndVars
  BY <1>3, <1>9 DEF frontEndVars, parserVars
<1> QED
  BY <1>5, <1>6, <1>7, <1>8, <1>9, ParserSteps DEF FrontEndNext

(* The guards of the parser's steps, of which a reduction is one for each rule. *)
MayRead      == ~Consistent /\ ~lookahead /\ parser_token_idx + 1 < Len(parser_tokens)
MayShiftIt   == lookahead /\ MayShift(yylval.type)
MayReduceTo(rule) == MayReduce /\ OnTop(rule)
MayAccept    == lookahead /\ Top = "prog" /\ yylval.type = "endOfInput"
MayComplain  ==
  /\ lookahead
  /\ ~MayShift(yylval.type)
  /\ \A rule \in DOMAIN Grammar : ~OnTop(rule)
  /\ ~(Top = "prog" /\ yylval.type = "endOfInput")

(* No state of the parser is without a step: where it does not read there is a rule to
   reduce, and where it reads there is a token. *)
THEOREM ParserNeverStuck ==
  FrontEndSpec =>
    [](Parsing => \/ MayRead \/ MayShiftIt \/ MayAccept \/ MayComplain
                  \/ \E rule \in DOMAIN Grammar : MayReduceTo(rule))
<1>1. FrontEndInit => ViableInv
  <2> SUFFICES ASSUME FrontEndInit PROVE Viable
    BY MachineInit DEF ViableInv
  <2>1. Len(symbols) = 0
    BY DEF FrontEndInit, ParserInit
  <2> QED
    BY <2>1 DEF Viable
<1>2. ViableInv =>
        (Parsing => \/ MayRead \/ MayShiftIt \/ MayAccept \/ MayComplain
                    \/ \E rule \in DOMAIN Grammar : MayReduceTo(rule))
  <2> SUFFICES ASSUME ViableInv, Parsing
               PROVE  \/ MayRead \/ MayShiftIt \/ MayAccept \/ MayComplain
                      \/ \E rule \in DOMAIN Grammar : MayReduceTo(rule)
    OBVIOUS
  <2>1. CASE Consistent
    <3>1. PICK rule \in DOMAIN Grammar : OnTop(rule)
      BY <2>1, ConsistentReduces DEF ViableInv, MachineInv
    <3> QED
      BY <2>1, <3>1 DEF MayReduceTo, MayReduce
  <2>2. CASE ~Consistent /\ ~lookahead
    BY <2>2 DEF ViableInv, MachineInv, ReadSoFar, MayRead
  <2>3. CASE lookahead
    BY <2>3 DEF MayShiftIt, MayAccept, MayComplain, MayReduceTo, MayReduce
  <2> QED
    BY <2>1, <2>2, <2>3
<1> QED
  BY <1>1, <1>2, ViableNext, PTL DEF FrontEndSpec

(* What Handles leaves out: the conditions of the rules, and those with nothing on the
   right. *)
LEMMA RuleConditions ==
  /\ OnTop("prog")     => Len(symbols) = 1
  /\ OnTop("var")      => OperandPlace(SymbolAt(1))
  /\ OnTop("noNames")  => SymbolAt(0) = "LParen" /\ InHeader
  /\ OnTop("names")    => SymbolAt(2) = "LParen"
  /\ OnTop("lastName") => SymbolAt(0) = "name" /\ SymbolAt(1) \in {"LParen", "Comma"}
       /\ InHeader
  /\ OnTop("noExprs")  => SymbolAt(0) = "LParen" /\ ~InHeader
  /\ OnTop("exprs")    => SymbolAt(2) = "LParen"
  /\ OnTop("lastExpr") => SymbolAt(0) = "expr" /\ SymbolAt(1) \in {"LParen", "Comma"}
BY DEF OnTop, Top, Beneath

(* No two right-hand sides are complete at a time. *)
LEMMA OneRuleOnTop ==
  ASSUME Stacked,
         NEW rule \in DOMAIN Grammar, NEW other \in DOMAIN Grammar, OnTop(rule), OnTop(other)
  PROVE  rule = other
<1>0. ~(Len(symbols) = 1 /\ 2 <= Len(symbols))
  <2>1. Len(symbols) \in Nat
    BY Places
  <2>2. \A n \in Nat : n = 1 => ~(2 <= n)
    OBVIOUS
  <2> QED
    BY <2>1, <2>2
<1>1. rule \in RuleNames /\ other \in RuleNames
  BY GrammarRules
<1>2. CASE rule = "prog"
  BY <1>0, <1>1, <1>2, Handles, RuleConditions DEF RuleNames, OperandPlace
<1>3. CASE rule = "func"
  BY <1>0, <1>1, <1>3, Handles, RuleConditions DEF RuleNames, OperandPlace
<1>4. CASE rule = "funcs"
  BY <1>0, <1>1, <1>4, Handles, RuleConditions DEF RuleNames, OperandPlace
<1>5. CASE rule = "lastFunc"
  BY <1>0, <1>1, <1>5, Handles, RuleConditions DEF RuleNames, OperandPlace
<1>6. CASE rule = "while"
  BY <1>0, <1>1, <1>6, Handles, RuleConditions DEF RuleNames, OperandPlace
<1>7. CASE rule = "assign"
  BY <1>0, <1>1, <1>7, Handles, RuleConditions DEF RuleNames, OperandPlace
<1>8. CASE rule = "comp"
  BY <1>0, <1>1, <1>8, Handles, RuleConditions DEF RuleNames, OperandPlace
<1>9. CASE rule = "return"
  BY <1>0, <1>1, <1>9, Handles, RuleConditions DEF RuleNames, OperandPlace
<1>10. CASE rule = "int"
  BY <1>0, <1>1, <1>10, Handles, RuleConditions DEF RuleNames, OperandPlace
<1>11. CASE rule = "add"
  BY <1>0, <1>1, <1>11, Handles, RuleConditions DEF RuleNames, OperandPlace
<1>12. CASE rule = "sub"
  BY <1>0, <1>1, <1>12, Handles, RuleConditions DEF RuleNames, OperandPlace
<1>13. CASE rule = "call"
  BY <1>0, <1>1, <1>13, Handles, RuleConditions DEF RuleNames, OperandPlace
<1>14. CASE rule = "var"
  BY <1>0, <1>1, <1>14, Handles, RuleConditions DEF RuleNames, OperandPlace
<1>15. CASE rule = "name"
  BY <1>0, <1>1, <1>15, Handles, RuleConditions DEF RuleNames, OperandPlace
<1>16. CASE rule = "noNames"
  BY <1>0, <1>1, <1>16, Handles, RuleConditions DEF RuleNames, OperandPlace
<1>17. CASE rule = "names"
  BY <1>0, <1>1, <1>17, Handles, RuleConditions DEF RuleNames, OperandPlace
<1>18. CASE rule = "lastName"
  BY <1>0, <1>1, <1>18, Handles, RuleConditions DEF RuleNames, OperandPlace
<1>19. CASE rule = "namescont"
  BY <1>0, <1>1, <1>19, Handles, RuleConditions DEF RuleNames, OperandPlace
<1>20. CASE rule = "noExprs"
  BY <1>0, <1>1, <1>20, Handles, RuleConditions DEF RuleNames, OperandPlace
<1>21. CASE rule = "exprs"
  BY <1>0, <1>1, <1>21, Handles, RuleConditions DEF RuleNames, OperandPlace
<1>22. CASE rule = "lastExpr"
  BY <1>0, <1>1, <1>22, Handles, RuleConditions DEF RuleNames, OperandPlace
<1>23. CASE rule = "exprscont"
  BY <1>0, <1>1, <1>23, Handles, RuleConditions DEF RuleNames, OperandPlace
<1> QED
  BY <1>1, <1>2, <1>3, <1>4, <1>5, <1>6, <1>7, <1>8, <1>9, <1>10, <1>11, <1>12, <1>13, <1>14,
     <1>15, <1>16, <1>17, <1>18, <1>19, <1>20, <1>21, <1>22, <1>23 DEF RuleNames

(* Where bison does not read on it could not shift either. *)
LEMMA ConsistentHasNoShift ==
  ASSUME Consistent, lookahead, InHand, NEW type
  PROVE  ~MayShift(type)
BY DEF Consistent, InHand, MayShift, OperandPlace

(* At most one of the steps can be taken in a state: the grammar's conflicts are settled,
   and what the parser makes of a file is determined. *)
ParserStepIsDetermined ==
  /\ \A rule, other \in DOMAIN Grammar :
       MayReduceTo(rule) /\ MayReduceTo(other) => rule = other
  /\ MayRead => ~lookahead /\ ~MayReduce
  /\ MayShiftIt => ~MayReduce
  /\ MayAccept \/ MayComplain => ~MayShiftIt /\ \A rule \in DOMAIN Grammar : ~MayReduceTo(rule)

(* In no state do the guards of two of the parser's steps hold, where reductions by
   different rules are different steps: shifting where that is possible settles every
   conflict of the grammar. *)
THEOREM ParserIsDetermined == FrontEndSpec => []ParserStepIsDetermined
<1>1. MachineInv => ParserStepIsDetermined
  <2> SUFFICES ASSUME MachineInv PROVE ParserStepIsDetermined
    OBVIOUS
  <2>1. \A rule, other \in DOMAIN Grammar :
          MayReduceTo(rule) /\ MayReduceTo(other) => rule = other
    BY OneRuleOnTop DEF MayReduceTo, MachineInv
  <2>2. MayRead => ~lookahead /\ ~MayReduce
    BY DEF MayRead, MayReduce
  <2>3. MayShiftIt => ~MayReduce
    BY ConsistentHasNoShift DEF MachineInv, MayShiftIt, MayReduce
  <2>4. MayAccept => ~MayShiftIt /\ \A rule \in DOMAIN Grammar : ~MayReduceTo(rule)
    <3>1. MayAccept => ~MayShiftIt
      BY DEF MayAccept, MayShiftIt, MayShift, OperandPlace
    <3> QED
      BY <3>1, DoneIsDone DEF MayAccept, MayReduceTo
  <2>5. MayComplain => ~MayShiftIt /\ \A rule \in DOMAIN Grammar : ~MayReduceTo(rule)
    BY DEF MayComplain, MayShiftIt, MayReduceTo
  <2> QED
    BY <2>1, <2>2, <2>3, <2>4, <2>5 DEF ParserStepIsDetermined
<1> QED
  BY <1>1, MachineInvariant, PTL
=============================================================================
