------------------------------- MODULE MCLexer -------------------------------
EXTENDS Lexer

L(t, s) == [type |-> t, chars |-> s]

(* Every type, and for words those that change their type on the way.      *)
MCLexemes ==
  {L("left_par", <<"(">>), L("right_par", <<")">>), L("left_sharpar", <<"#", "(">>),
   L("quote", <<"'">>), L("comma", <<",">>), L("comma_at", <<",", "@">>),
   L("true", <<"#", "t">>), L("radix", <<"#", "b">>), L("char", <<"#", "bslash", "(">>),
   L("string", <<"dquote", "a", "bslash", "dquote", "a", "dquote">>),
   L("point", <<".">>), L("number", <<".", "0">>), L("number", <<"0", ".", "0">>),
   L("symbol", <<"a", "#">>), L("symbol", <<"@", "a">>), L("symbol", <<"0", ".", "0", ".">>),
   L("symbol", <<"0", "t">>),
   L(Illegal, <<"#", "a">>), L(Illegal, <<"dquote", "newline">>),
   L(Illegal, <<"dquote", "dquote">>), L(Illegal, <<"dquote", "bslash", "dquote", "dquote">>)}
=============================================================================
