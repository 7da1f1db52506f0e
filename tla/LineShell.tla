------------------------------ MODULE LineShell ------------------------------
(***************************************************************************)
(* The resident shells that need no disk: app is "shell"                   *)
(* (apps/legado_19_shell.c, commands compared letter by letter) or         *)
(* "showcase" (apps/legado_19_shell_showcase.c, the hash of the first word *)
(* compared).  What a command prints is not modelled, only which one it is *)
(* and what it prints of the line.                                         *)
(*                                                                         *)
(* The line is an array that is never cleared: a zero ends the text, and   *)
(* what earlier lines have left lies behind it.                            *)
(***************************************************************************)
EXTENDS UserProgram, Integers, SequencesExt

CONSTANTS
    SHELL_MAX_LINE,  \* characters of a line (63, 47)
    Letters,         \* codes of the keys that are neither Enter nor Erase
    Words,           \* the commands, as sequences of codes that print
    EchoWord,        \* the command that prints what follows it
    ExitWord         \* the command that ends the shell, one of Words

Space == 32
Enter == {13, 10}
Erase == {8, 127}

ASSUME LineShellAssumption ==
    /\ SHELL_MAX_LINE \in Nat \ {0}
    /\ Letters \subseteq 32 .. 126
    /\ ExitWord \in Words /\ EchoWord \notin Words
    /\ \A w \in Words \cup {EchoWord} : w \in Seq(33 .. 126)

VARIABLES
    line, line_len,
    typed,  \* the text the user sees on the line
    asked,  \* the text of the last line that was not empty
    answer  \* what was done about it: [does, prints]

shellVars == <<line, line_len, typed, asked, answer>>

shellAll == <<app, pc, shellVars>>

Unknown == <<>>  \* the command of a line that names none
Silent == <<>>

ShellInit ==
    /\ line = [i \in 0 .. SHELL_MAX_LINE |-> 0]
    /\ line_len = 0
    /\ typed = <<>> /\ asked = <<>>
    /\ answer = [does |-> Unknown, prints |-> Silent]

-----------------------------------------------------------------------------
(* Reading the array. *)

(* The first place of l from pos on with one of some codes. *)
FirstOf(l, pos, codes) ==
    CHOOSE i \in pos .. SHELL_MAX_LINE :
        l[i] \in codes /\ \A j \in pos .. i - 1 : l[j] \notin codes

Slice(l, pos, end) == [k \in 1 .. end - pos |-> l[pos + k - 1]]

sh_print_from(l, pos) == Slice(l, pos, FirstOf(l, pos, {0}))

sh_startswith(l, w) ==
    Len(w) <= SHELL_MAX_LINE /\ \A k \in 1 .. Len(w) : l[k - 1] = w[k]

sh_streq(l, w) == sh_startswith(l, w) /\ l[Len(w)] = 0

Reply(w, printed) == [does |-> w, prints |-> printed]

sh_handle_command(l) ==
    IF \E w \in Words : sh_streq(l, w)
    THEN Reply(CHOOSE w \in Words : sh_streq(l, w), Silent)
    ELSE IF sh_startswith(l, Append(EchoWord, Space))
    THEN Reply(EchoWord, sh_print_from(l, Len(EchoWord) + 1))
    ELSE Reply(Unknown, sh_print_from(l, 0))

(* A word of 16 bits. *)
Hash(w) == FoldLeft(LAMBDA h, c : (h + h + c + 1) % (2 ^ 16), 0, w)

(* The first word ends at a space or at the end of the text. *)
WordEnd(l) == FirstOf(l, 0, {0, Space})

ArgumentAt(l) == IF l[WordEnd(l)] = Space THEN WordEnd(l) + 1 ELSE WordEnd(l)

command(l) ==
    LET g_hash == Hash(Slice(l, 0, WordEnd(l)))
    IN  IF \E w \in Words : Hash(w) = g_hash
        THEN Reply(CHOOSE w \in Words : Hash(w) = g_hash, Silent)
        ELSE IF Hash(EchoWord) = g_hash
        THEN Reply(EchoWord, sh_print_from(l, ArgumentAt(l)))
        ELSE Reply(Unknown, sh_print_from(l, 0))

-----------------------------------------------------------------------------
(* The keys.  read_char() = 0 is a yield() and nothing else. *)

sh_backspace ==
    /\ At("read") /\ line_len > 0
    /\ line_len' = line_len - 1
    /\ line' = [line EXCEPT ![line_len - 1] = 0]
    /\ typed' = Front(typed)
    /\ UNCHANGED <<app, pc, asked, answer>>

sh_accept_char(c) ==
    /\ At("read") /\ line_len < SHELL_MAX_LINE
    /\ line_len' = line_len + 1
    /\ line' = [line EXCEPT ![line_len] = c, ![line_len + 1] = 0]
    /\ typed' = Append(typed, c)
    /\ UNCHANGED <<app, pc, asked, answer>>

(* Mutant: the next line begins where this one ended. *)
NextLineContinues(l) ==
    /\ line' = l
    /\ typed' = <<>>
    /\ UNCHANGED line_len

NextLine(l) ==
    /\ line_len' = 0
    /\ line' = [l EXCEPT ![0] = 0]
    /\ typed' = <<>>

(* Enter: the line is ended, answered unless it is empty, and begun again. *)
EndLine(reply, l) ==
    /\ At("read")
    /\ NextLine(l)
    /\ IF line_len = 0
       THEN UNCHANGED <<pc, asked, answer>>
       ELSE /\ answer' = reply
            /\ asked' = typed
            /\ Goto(IF reply.does = ExitWord THEN "end" ELSE "read")
    /\ UNCHANGED app

Ended(l) == [l EXCEPT ![line_len] = 0]

Shell == app = "shell" /\ EndLine(sh_handle_command(Ended(line)), Ended(line))

Showcase == app = "showcase" /\ EndLine(command(Ended(line)), Ended(line))

ShellNext ==
    \/ \E c \in Letters : sh_accept_char(c)
    \/ sh_backspace
    \/ Shell
    \/ Showcase

ShellSpec ==
    /\ app \in {"shell", "showcase"} /\ pc = "read"
    /\ ShellInit
    /\ [][ShellNext]_shellAll

-----------------------------------------------------------------------------
(* What the line means to the user, who knows of no array. *)

FirstWord(text) ==
    LET ends == {k \in 1 .. Len(text) : text[k] = Space}
    IN  IF ends = {} THEN text
        ELSE SubSeq(text, 1, (CHOOSE k \in ends : \A j \in ends : k <= j) - 1)

After(w, text) == SubSeq(text, Len(w) + 2, Len(text))

Names(w, text) ==
    IF app = "showcase" THEN Hash(FirstWord(text)) = Hash(w)
    ELSE IF w = EchoWord THEN IsPrefix(Append(w, Space), text)
    ELSE text = w

Meaning(text) ==
    {Reply(w, IF w = EchoWord THEN After(FirstWord(text), text) ELSE Silent) :
        w \in {v \in Words \cup {EchoWord} : Names(v, text)}}

(* A line is answered for what the user typed and did not erase, and for   *)
(* nothing that earlier lines left in the array: the command that is done, *)
(* and the text echoed or quoted as unknown, are those of the line on the  *)
(* screen.                                                                 *)
AnswersLine ==
    asked # <<>> =>
        IF Meaning(asked) = {} THEN answer = Reply(Unknown, asked)
                               ELSE answer \in Meaning(asked)
=============================================================================
