------------------------------ MODULE MCShell ------------------------------
(* An instance of Shell for TLC. *)
EXTENDS Shell

Char == {"x", " ", "<", ">", "|", "&", ";", "(", ")"}

\* Every line of up to two characters, and longer ones that combine commands or
\* are nearly a command.
ShortAndLong ==
  UNION {[1 .. n -> Char] : n \in 0 .. 2}
  \union {<<"c", "d", " ", "x">>,
          <<"x", "|", "x">>, <<"x", ";", "x">>, <<"x", "&", ";", "x">>,
          <<"x", "|", "x", "|", "x">>, <<"(", "x", "&", ")", "|", "x">>,
          <<"x", "<", "x", "|", "(", "x", ";", "x", ")", ">", "x">>,
          <<"x", ">", ">", "x", "<", "x", " ", "x">>,
          <<"x", "&", "x">>, <<"(", "x", ")", "x">>, <<"x", "(", "x", ")">>,
          <<"x", "&", "|", "x">>, <<"(", "x", ";">>, <<"x", ">", "(", "x">>,
          <<">", "x", " ", "x">>, <<"x", "<", "x", ">", "x">>, <<"(", ")", "&", ";">>,
          <<"x", " ", "x", " ", "x">>, <<"(", "x", ")", ">", ">", ">", "x">>}

\* Then a line that runs beside what the first left in the background.
\* A line ends with a newline, or with ^D.
TwoLines == <<{Append(l, "\n") : l \in ShortAndLong} \union {<<"x", "&">>, <<"x", "|", "x">>},
              {<<"x", "\n">>}>>
============================================================================
