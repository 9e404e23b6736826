------------------------------ MODULE MCLogging ------------------------------
(* A small Logging: a buffer of six characters, a screen of two short lines. *)
EXTENDS Logging

Lit(c) == [k |-> "lit", text |-> <<c>>, arg |-> 0, width |-> 0]
Str(s, w) == [k |-> "s", text |-> s, arg |-> 0, width |-> w]
Num(k, v, w) == [k |-> k, text |-> <<>>, arg |-> v, width |-> w]

(* Numbers at the edges of their types, short and long; texts and numbers that
   fill the buffer in the middle, exactly and not quite; an empty text and a
   text with a width; a '\r'. *)
SomeMessages == {
    <<Num("d", -8, 3), Lit("\n")>>,
    <<Num("u", 15, 2), Num("x", 254, 0)>>,
    <<Num("u", 200, 0)>>,
    <<Str(<<"a", "b">>, 0), Num("d", 0, 4), Lit("c")>>,
    <<Str(<<"a">>, 4), Lit("\n"), Num("p", 10, 0)>>,
    <<Lit("a"), Str(<<>>, 3), Num("c", 0, 0)>>,
    <<Lit("b"), Lit("\r"), Num("null", 0, 0)>>,
    <<Num("?", 0, 0), Lit("\n"), Lit("c")>>}

Characters == DigitChars \cup {"x", "-", "(", ")", "?", Blank, Newline, CarriageReturn}
OneWarning == <<Lit("c"), Lit("\n")>>
AllMessages == SomeMessages \cup {OneWarning}
=============================================================================
