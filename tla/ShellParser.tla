---------------------------- MODULE ShellParser ----------------------------
(* The parser of user/sh.c: a recursive descent over the characters of a line,
   which keeps words as pairs of pointers into the line and ends them with NUL
   characters only when the whole line has been parsed.

   A position is a number from 1; the character behind the line is NUL.  A parse
   returns the command and the position it stopped at; a panic of the shell is a
   command of type "panic".  The second half of the module is a reference that
   works the other way round, by splitting a sequence of tokens. *)
EXTENDS Integers, Sequences, SequencesExt

CONSTANT MAXARGS            \* length of argv, its terminator included

\* F of the value of e, which is computed once.
With(e, F(_)) == CHOOSE y \in {F(x) : x \in {e}} : TRUE

NUL == "\\0"
whitespace == {" ", "\n"}
symbols == {"<", "|", ">", "&", ";", "(", ")"}

\* The character s + i points to.
At(s, i) == IF i <= Len(s) THEN s[i] ELSE NUL

execcmd(argv) == [type |-> "EXEC", argv |-> argv]
redircmd(cmd, file, mode, fd) ==
  [type |-> "REDIR", cmd |-> cmd, file |-> file, mode |-> mode, fd |-> fd]
pipecmd(left, right) == [type |-> "PIPE", left |-> left, right |-> right]
listcmd(left, right) == [type |-> "LIST", left |-> left, right |-> right]
backcmd(cmd) == [type |-> "BACK", cmd |-> cmd]

Skip(s, i) == Min({j \in i .. Len(s) + 1 : At(s, j) \notin whitespace})

InWord(c) == c \notin whitespace \union symbols \union {NUL}

\* Mutant: the end of the word is found by whitespace alone.
WordEnd_Bug(s, i) == Min({j \in i .. Len(s) + 1 : At(s, j) \in whitespace \union {NUL}})

WordEnd(s, i) == Min({j \in i .. Len(s) + 1 : ~InWord(At(s, j))})

\* The token at q: what it is, where it ends, and where to go on.
TokenAt(s, q) ==
  LET c == At(s, q)
      append == c = ">" /\ At(s, q + 1) = ">"
      eq == CASE c = NUL -> q
              [] append -> q + 2
              [] c \in symbols /\ ~append -> q + 1
              [] OTHER -> WordEnd(s, q)
  IN  [tok |-> CASE append -> "+" [] InWord(c) -> "a" [] OTHER -> c,
       q |-> q, eq |-> eq, next |-> Skip(s, eq)]

gettoken(s, i) == With(Skip(s, i), LAMBDA q : TokenAt(s, q))

peek(s, i, toks) == At(s, Skip(s, i)) \in toks

Parsed(cmd, i) == [cmd |-> cmd, i |-> i]
Panic == Parsed([type |-> "panic"], 1)
Failed(r) == r.cmd.type = "panic"

Mode(tok) == CASE tok = "<" -> "read" [] tok = ">" -> "truncate" [] tok = "+" -> "write"
Fd(tok) == IF tok = "<" THEN 0 ELSE 1

RECURSIVE parseredirs(_, _, _)
parseredirs(cmd, s, i) ==
  IF ~peek(s, i, {"<", ">"}) THEN Parsed(cmd, i)
  ELSE With(gettoken(s, i), LAMBDA t : With(gettoken(s, t.next), LAMBDA f :
         IF f.tok # "a" THEN Panic
         ELSE parseredirs(redircmd(cmd, <<f.q, f.eq>>, Mode(t.tok), Fd(t.tok)),
                          s, f.next)))

\* cmd->argv[argc] = q: the arguments go to the command below the redirections.
RECURSIVE AddArg(_, _)
AddArg(ret, word) == IF ret.type = "EXEC" THEN [ret EXCEPT !.argv = Append(@, word)]
                     ELSE [ret EXCEPT !.cmd = AddArg(@, word)]

\* The loop of parseexec, from what has been parsed so far.
RECURSIVE parseargs(_, _, _)
parseargs(s, parsed, argc) ==
  With(parsed, LAMBDA r : With(gettoken(s, r.i), LAMBDA t :
    IF Failed(r) \/ peek(s, r.i, {"|", ")", "&", ";"}) \/ t.tok = NUL THEN r
    ELSE IF t.tok # "a" \/ argc + 1 >= MAXARGS THEN Panic
    ELSE parseargs(s, parseredirs(AddArg(r.cmd, <<t.q, t.eq>>), s, t.next), argc + 1)))

\* The loop of parseline over "&".
RECURSIVE Backs(_, _)
Backs(s, parsed) ==
  With(parsed, LAMBDA r :
    IF Failed(r) \/ ~peek(s, r.i, {"&"}) THEN r
    ELSE Backs(s, Parsed(backcmd(r.cmd), gettoken(s, r.i).next)))

RECURSIVE parseline(_, _), parsepipe(_, _), parseblock(_, _), parseexec(_, _)
parseline(s, i) ==
  With(Backs(s, parsepipe(s, i)), LAMBDA l :
    IF Failed(l) \/ ~peek(s, l.i, {";"}) THEN l
    ELSE With(parseline(s, gettoken(s, l.i).next), LAMBDA r :
           IF Failed(r) THEN r ELSE Parsed(listcmd(l.cmd, r.cmd), r.i)))

parsepipe(s, i) ==
  With(parseexec(s, i), LAMBDA l :
    IF Failed(l) \/ ~peek(s, l.i, {"|"}) THEN l
    ELSE With(parsepipe(s, gettoken(s, l.i).next), LAMBDA r :
           IF Failed(r) THEN r ELSE Parsed(pipecmd(l.cmd, r.cmd), r.i)))

parseexec(s, i) == IF peek(s, i, {"("}) THEN parseblock(s, i)
                   ELSE parseargs(s, parseredirs(execcmd(<<>>), s, i), 0)

parseblock(s, i) ==
  With(parseline(s, gettoken(s, i).next), LAMBDA r :
    IF Failed(r) \/ ~peek(s, r.i, {")"}) THEN Panic
    ELSE parseredirs(r.cmd, s, gettoken(s, r.i).next))

\* Where nulterminate writes a NUL.
RECURSIVE WordEnds(_)
WordEnds(cmd) ==
  CASE cmd.type = "EXEC" -> {cmd.argv[i][2] : i \in DOMAIN cmd.argv}
    [] cmd.type = "REDIR" -> WordEnds(cmd.cmd) \union {cmd.file[2]}
    [] cmd.type = "BACK" -> WordEnds(cmd.cmd)
    [] OTHER -> WordEnds(cmd.left) \union WordEnds(cmd.right)

nulterminate(cmd, s) ==
  [i \in 1 .. Len(s) + 1 |-> IF i \in WordEnds(cmd) THEN NUL ELSE At(s, i)]

\* The string that starts at a word's pointer, and a command with its strings.
String(s, word) == SubSeq(s, word[1], Min({j \in word[1] .. Len(s) : s[j] = NUL}) - 1)

RECURSIVE Strings(_, _)
Strings(cmd, s) ==
  CASE cmd.type = "EXEC" ->
         execcmd([i \in DOMAIN cmd.argv |-> String(s, cmd.argv[i])])
    [] cmd.type = "REDIR" ->
         [cmd EXCEPT !.cmd = Strings(@, s), !.file = String(s, @)]
    [] cmd.type = "BACK" -> backcmd(Strings(cmd.cmd, s))
    [] OTHER -> [cmd EXCEPT !.left = Strings(@, s), !.right = Strings(@, s)]

parsecmd(s) ==
  With(parseline(s, 1), LAMBDA r :
    IF Failed(r) \/ Skip(s, r.i) # Len(s) + 1 THEN Panic.cmd
    ELSE With(nulterminate(r.cmd, s), LAMBDA t : Strings(r.cmd, t)))

-----------------------------------------------------------------------------
(* The reference: the tokens of a line, and the command they stand for. *)

\* How many ">" stand directly before position i.
Arrows(s, i) == Max({n \in 0 .. i - 1 : \A j \in i - n .. i - 1 : s[j] = ">"})

\* The positions of s for which P holds, in order.
Positions(s, P(_)) == SelectSeq([i \in 1 .. Len(s) |-> i], P)

StartsToken(s, i) ==
  \/ InWord(s[i]) /\ (i = 1 \/ ~InWord(s[i - 1]))
  \/ s[i] \in symbols \ {">"}
  \/ s[i] = ">" /\ Arrows(s, i) % 2 = 0

Token(s, i) ==
  IF InWord(s[i])
  THEN <<"a", SubSeq(s, i, Max({j \in i .. Len(s) : \A l \in i .. j : InWord(s[l])}))>>
  ELSE IF s[i] = ">" /\ At(s, i + 1) = ">" THEN <<"+">> ELSE <<s[i]>>

Tokens(s) == LET starts == Positions(s, LAMBDA i : StartsToken(s, i))
             IN  [k \in DOMAIN starts |-> Token(s, starts[k])]

Depth(ts, k) == Len(SelectSeq(SubSeq(ts, 1, k), LAMBDA t : t = <<"(">>))
                - Len(SelectSeq(SubSeq(ts, 1, k), LAMBDA t : t = <<")">>))
Balanced(ts) == Depth(ts, Len(ts)) = 0 /\ \A k \in DOMAIN ts : Depth(ts, k) >= 0
Outside(ts, tok) == {k \in DOMAIN ts : ts[k] = <<tok>> /\ Depth(ts, k) = 0}
Before(ts, k) == SubSeq(ts, 1, k - 1)
After(ts, k) == SubSeq(ts, k + 1, Len(ts))

\* F(l, r), unless one of them is refused.
Both(l, r, F(_, _)) ==
  With(<<l, r>>, LAMBDA b : IF "panic" \in {b[1].type, b[2].type} THEN Panic.cmd
                            ELSE F(b[1], b[2]))

IsRedir(t) == t \in {<<"<">>, <<">">>, <<"+">>}
IsWord(t) == t[1] = "a"
IsFile(ts, k) == k > 1 /\ IsRedir(ts[k - 1])

\* Every redirection has its file, and there is nothing but words besides.
Simple(ts) == /\ \A k \in DOMAIN ts : IsWord(ts[k]) \/ IsRedir(ts[k])
              /\ \A k \in DOMAIN ts :
                   IsRedir(ts[k]) => k < Len(ts) /\ IsWord(ts[k + 1])

\* A command with the redirections among the tokens around it, the last outermost.
Redirected(cmd, ts) ==
  FoldLeft(LAMBDA c, k : redircmd(c, ts[k + 1][2], Mode(ts[k][1]), Fd(ts[k][1])), cmd,
           Positions(ts, LAMBDA k : IsRedir(ts[k])))

Arguments(ts) ==
  LET ks == Positions(ts, LAMBDA k : IsWord(ts[k]) /\ ~IsFile(ts, k))
  IN  [i \in DOMAIN ks |-> ts[ks[i]][2]]

RECURSIVE LineOf(_), BackOf(_), PipeOf(_), CmdOf(_)
LineOf(line) ==
  With(line, LAMBDA ts :
    IF Outside(ts, ";") = {} THEN BackOf(ts)
    ELSE LET k == Min(Outside(ts, ";"))
         IN  Both(BackOf(Before(ts, k)), LineOf(After(ts, k)), listcmd))

BackOf(ts) ==
  IF ts = <<>> \/ Last(ts) # <<"&">> THEN PipeOf(ts)
  ELSE Both(BackOf(Front(ts)), execcmd(<<>>), LAMBDA c, none : backcmd(c))

PipeOf(pipe) ==
  With(pipe, LAMBDA ts :
    IF Outside(ts, "|") = {} THEN CmdOf(ts)
    ELSE LET k == Min(Outside(ts, "|"))
         IN  Both(CmdOf(Before(ts, k)), PipeOf(After(ts, k)), pipecmd))

CmdOf(ts) ==
  IF ts # <<>> /\ ts[1] = <<"(">>
  THEN LET k == Min(Outside(ts, ")"))
           rest == After(ts, k)
       IN  IF ~Simple(rest) \/ Arguments(rest) # <<>> THEN Panic.cmd
           ELSE Both(LineOf(SubSeq(ts, 2, k - 1)), execcmd(<<>>),
                     LAMBDA c, none : Redirected(c, rest))
  ELSE IF Simple(ts) /\ Len(Arguments(ts)) < MAXARGS
       THEN Redirected(execcmd(Arguments(ts)), ts) ELSE Panic.cmd

Meaning(s) == With(Tokens(s), LAMBDA ts : IF Balanced(ts) THEN LineOf(ts) ELSE Panic.cmd)
=============================================================================
