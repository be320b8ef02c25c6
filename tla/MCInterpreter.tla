---------------------------- MODULE MCInterpreter ----------------------------
(* A small instance of Interpreter, and what it is asked at each prompt.   *)
EXTENDS Interpreter, FiniteSets, TLC

MCHash(s) == Len(s) % Buckets
MCFold(c) == IF c = "A" THEN "a" ELSE c

(* A text is written as one string, with a blank behind each token. *)
Special == "(" :> Open @@ ")" :> Close @@ "#(" :> OpenVector @@ "'" :> Quote @@ "." :> Point
  @@ "#t" :> Tok("true") @@ "#f" :> Tok("false")
  @@ "0" :> Number(<<0>>) @@ "1" :> Number(<<1>>) @@ "2" :> Number(<<2>>) @@ "3" :> Number(<<3>>)
  @@ "100" :> Number(<<1, 0, 0>>)
  @@ "'ab'" :> [type |-> "string", s |-> <<"a", "b">>]
  @@ "'AB'" :> [type |-> "string", s |-> <<"A", "b">>]
  @@ "#b" :> [type |-> "char", c |-> "b"]
RECURSIVE Text(_)
Text(s) ==
  IF s = "" THEN << >>
  ELSE LET n == CHOOSE k \in 1 .. Len(s) :
                  /\ SubSeq(s, k, k) = " " /\ \A j \in 1 .. k - 1 : SubSeq(s, j, j) # " "
           w == SubSeq(s, 1, n - 1)
       IN  <<IF w \in DOMAIN Special THEN Special[w] ELSE Name(w)>> \o Text(SubSeq(s, n + 1, Len(s)))

(* What is typed: definitions, a counter with a variable of its own, lists *)
(* that share cells, forms that are wrong or not written, and forms with   *)
(* nothing in them.                                                        *)
MCTexts == {Text(s) : s \in {
  "x ", "( define x 1 ) ", "( define y 2 ) ", "( set! x 3 ) ", "( define z ' ( 1 2 ) ) ",
  "( define ( f x ) ( + x y ) ) ", "( f 2 ) ", "( f ) ",
  "( define ( k x ) ( lambda ( y ) x ) ) ", "( define c ( k 2 ) ) ", "( c 0 ) ",
  "( append z z z ) ", "( set-car! z 3 ) ", "( set-cdr! z z ) ", "( length z ) ",
  "( and ) ", "( ) ", "( list 1 2 ) ", "( length ( list 1 ) ) ",
  "( 1 2 ) ", "( let ) ", "( if ) ", "( cond ( else x ) ) ",
  ") ", "( a . b . c ) ", "#( ( a . b . c ) ) ", "( / 1 0 ) ", "( - ) ", "( - ' x 1 ) ",
  "( string-set! 'ab' 1 #b ) ", "( define s ( make-string 2 #b ) ) ", "( car x ) "}}

(* Objects that are written as they are printed. *)
Data == {Text(s) : s \in {
  "1 ", "x ", "#t ", "( ) ", "( 1 ) ", "( a ( b ) ) ", "( a . b ) ", "( a b . c ) ",
  "( ( a . b ) c ) ", "#( 1 ) ", "#( a ( b c ) ) ", "#( ( a ( b ) ) #( c ( d ) ) ) ",
  "( #( a ) 'ab' #b ) ", "#( #( ( a ) ) b ) ", "( ( ( ) ) a ) "}}

(* Texts that say the same. *)
Tests == {"#t ", "#f ", "0 ", "' ( ) ", "x ", "( null? ' ( ) ) ", "( and 1 #f ) "}
Alike ==
  UNION {
  { <<"( if " \o p \o "1 2 ) ", "( cond ( " \o p \o "1 ) ( #t 2 ) ) ">> : p \in Tests },
  { <<"( and " \o p \o "2 ) ", "( if " \o p \o "#t #f ) ">> : p \in Tests },
  { <<"( or " \o p \o "#f ) ", "( not ( not " \o p \o ") ) ">> : p \in Tests },
  { <<"( begin " \o p \o "x ) ", "( ( lambda ( ) " \o p \o "x ) ) ">> : p \in Tests },
  { <<"( ( lambda ( q . r ) r ) " \o p \o "1 ) ", "' ( 1 ) ">> : p \in Tests },
  { <<"( begin ( define ( g q ) ( cons q x ) ) ( g 1 ) ) ",
      "( begin ( define g ( lambda ( q ) ( cons q x ) ) ) ( g 1 ) ) ">>,
    <<"( begin ( define ( n l ) ( if ( null? l ) 0 ( + 1 ( n ( cdr l ) ) ) ) ) ( n ' ( a b c ) ) ) ", "3 ">>,
    <<"( length ' ( a b c ) ) ", "3 ">>,
    <<"( + 100 100 ) ", "( - 100 ( - 0 100 ) ) ">>,
    <<"( string=? 'ab' 'AB' ) ", "#f ">>, <<"( string-ci=? 'ab' 'ab' ) ", "#t ">>,
    <<"( string-ref ( string #b #b ) 1 ) ", "#b ">> } }

(* A procedure sees the variables of the place it was made in, whatever    *)
(* those of its callers and of the global frame are: scheme_apply extends  *)
(* SCHEME_PROC_ENV.                                                        *)
Scoped == {
  <<"( ( ( lambda ( x ) ( lambda ( y ) x ) ) 1 ) 2 ) ", "1 ">>,
  <<"( begin ( define ( h y ) ( lambda ( ) y ) ) ( ( lambda ( y ) ( ( h 3 ) ) ) 0 ) ) ", "3 ">>,
  <<"( ( lambda ( x ) ( begin ( define x 2 ) x ) ) 1 ) ", "2 ">>,
  <<"( begin ( define w ( ( lambda ( q ) ( lambda ( ) q ) ) 1 ) ) ( ( lambda ( q ) ( w ) ) 2 ) ) ", "1 ">> }

Agree(p) == Cardinality({Answer(p[i]) : i \in DOMAIN p}) = 1
TextPairs(S) == {<<Text(p[1]), Text(p[2])>> : p \in S}
AlikeTexts  == TextPairs(Alike)
ScopedTexts == TextPairs(Scoped)

-----------------------------------------------------------------------------
(* A reader that has printed an object reads it back as it was, whatever   *)
(* has been typed before: _create_list, _create_vector and                 *)
(* scheme_obj_to_string agree on points, nested vectors and the empty      *)
(* list, strtol and __itoaU_dec on all numbers that are not negative.      *)
Whole == m.heap[1].t = "null"
Printable == {<<Number(FormatD(n))>> : n \in 0 .. MaxLong}
ReadsBack ==
  pc = "read" /\ Whole =>
    \A d \in Data \cup Printable : LET r == Read(m, d) IN r.i = Len(d) + 1 /\ r.m.halt = "no" /\ Show(r.m, r.v) = d

(* The forms of the evaluator agree with each other, in every state of the *)
(* global variables: cond, and, or and begin with if and lambda, the two   *)
(* ways to define a procedure, a loop with the primitive that does it.     *)
FormsAgree ==
  pc = "read" /\ Whole => \A p \in AlikeTexts : Agree(p)

(* Lexical scope, see above. *)
LexicalScope == pc = "read" => \A p \in ScopedTexts : Agree(p)

(* What eval.c says of an illegal form, "exception: illegal form", with    *)
(* scheme_void for its value: it is not the end of the session.            *)
IllegalIsVoid ==
  pc = "halted" => typed[Len(typed)] # Text("( 1 2 ) ")

=============================================================================
