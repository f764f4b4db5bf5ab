------------------------------ MODULE LineInput ------------------------------
(***************************************************************************)
(* The input functions of LinuxFileSystemExplorer/src/utils.c: read_line,   *)
(* trim, prompt_line and parse_int, over a standard input that is any       *)
(* sequence of characters.  The program reads one answer after another.     *)
(***************************************************************************)
EXTENDS Integers, SequencesExt

CONSTANTS Chars,       \* the characters the input is made of
          MaxInput,    \* its length
          buf_size,    \* the size of the buffer, the NUL included
          INT_MAX, LONG_MAX

ASSUME LineInputAssumption ==
    /\ Chars \subseteq {"x", "9", "-", "+", " ", "newline", "CR", "NUL"}
    /\ MaxInput \in Nat /\ buf_size \in Nat /\ buf_size >= 2
    /\ INT_MAX \in Nat /\ LONG_MAX \in Nat /\ INT_MAX <= LONG_MAX

VARIABLES pc,        \* where prompt_line is
          stdin,     \* what is still to be read
          buf,       \* the buffer, up to what fgets put in it
          used,      \* what prompt_line returned, one answer after another
          given      \* the whole input, which no action changes

vars == <<pc, stdin, buf, used, given>>

(*************************** Characters ************************************)

Blanks == {" ", "newline", "CR"}      \* what isspace accepts
Digits == {"9"}
Signs == {"-", "+"}
isspace(c) == c \in Blanks

\* From there on, the first position of s that is not in C, or one past its end.
Upto(s, from, C) ==
    CHOOSE j \in from .. Len(s) + 1 :
        /\ j > Len(s) \/ s[j] \notin C
        /\ \A i \in from .. j - 1 : s[i] \in C

\* What the C string functions see of a buffer: all before the first NUL.
CString(s) == SubSeq(s, 1, Upto(s, 1, Chars \ {"NUL"}) - 1)

(*************************** Slips *****************************************)
(* Plausible mistakes in the code below, each of which a run must notice.   *)
(***************************************************************************)
KeepTheRest(s) == FALSE
AcceptsNoDigits(s, from, end) == FALSE
(***************************************************************************)

(*************************** trim, parse_int *******************************)

\* The blanks at both ends go.
Trim(s) ==
    LET first == Upto(s, 1, Blanks)
        last == CHOOSE j \in 0 .. Len(s) :
                    /\ j = 0 \/ ~isspace(s[j])
                    /\ \A i \in j + 1 .. Len(s) : isspace(s[i])
    IN SubSeq(s, first, last)

\* What trim leaves in the buffer itself: the blanks in front stay, and a line
\* of nothing but blanks stays whole.
TrimInPlace(s) ==
    IF Trim(s) = <<>> THEN s
    ELSE SubSeq(s, 1, Upto(s, 1, Blanks) - 1) \o Trim(s)

\* What the function step makes of 0 when it is applied n times.
Iterated(step, n) ==
    LET after[k \in 0 .. n] == IF k = 0 THEN 0 ELSE step[after[k - 1]]
    IN after[n]

\* strtol of digits, LONG_MAX + 2 for all that no long can hold (ERANGE); a
\* negative one may be one more than LONG_MAX.
NextDigit == [v \in Nat |-> IF v * 10 + 9 > LONG_MAX + 1 THEN LONG_MAX + 2
                            ELSE v * 10 + 9]
Value(digits) == Iterated(NextDigit, Len(digits))

NoDigits(s, from, end) == end = from

\* <<>> when the text is refused, <<value>> when it is a number.
parse_int(s) ==
    LET sign == Upto(s, 1, Blanks)
        minus == sign <= Len(s) /\ s[sign] = "-"
        from == IF sign <= Len(s) /\ s[sign] \in Signs THEN sign + 1 ELSE sign
        end == Upto(s, from, Digits)
        long == Value(SubSeq(s, from, end - 1))
        value == IF minus THEN -long ELSE long
    IN IF \/ s = <<>>
          \/ long > IF minus THEN LONG_MAX + 1 ELSE LONG_MAX
          \/ NoDigits(s, from, end)
          \/ Upto(s, end, Blanks) <= Len(s)
          \/ value > INT_MAX \/ value < -INT_MAX - 1
       THEN <<>> ELSE <<value>>

(*************************** read_line, prompt_line ************************)

Init ==
    /\ pc = "prompt"
    /\ given \in BoundedSeq(Chars, MaxInput)
    /\ stdin = given
    /\ buf = <<>> /\ used = <<>>

FirstOf(s, n) == IF Len(s) <= n THEN s ELSE SubSeq(s, 1, n)

\* fgets stops after a newline, or when the buffer is full.
Taken == LET line == FirstOf(stdin, buf_size - 1)
             j == Upto(line, 1, Chars \ {"newline"})
         IN IF j > Len(line) THEN line ELSE SubSeq(line, 1, j)

Fgets ==
    /\ pc = "prompt"
    /\ IF stdin = <<>> THEN pc' = "eof" /\ UNCHANGED <<stdin, buf>>
       ELSE /\ pc' = "drain?"
            /\ buf' = Taken
            /\ stdin' = SubSeq(stdin, Len(Taken) + 1, Len(stdin))
    /\ UNCHANGED <<used, given>>

\* len > 0 and the newline is not the last character fgets read.
DidNotFit(s) == s # <<>> /\ Last(s) # "newline"
CheckFit ==
    /\ pc = "drain?"
    /\ pc' = IF DidNotFit(CString(buf)) THEN "drain" ELSE "strip"
    /\ UNCHANGED <<stdin, buf, used, given>>

\* One getchar: the newline and the end of the input end the draining.
Drain ==
    /\ pc = "drain"
    /\ stdin' = IF stdin = <<>> THEN stdin ELSE Tail(stdin)
    /\ pc' = IF stdin = <<>> \/ stdin[1] = "newline" THEN "strip" ELSE "drain"
    /\ UNCHANGED <<buf, used, given>>

StripLast(s, c) == IF s # <<>> /\ Last(s) = c THEN Front(s) ELSE s
Strip ==
    /\ pc = "strip"
    /\ buf' = StripLast(StripLast(CString(buf), "newline"), "CR")
    /\ pc' = "trim"
    /\ UNCHANGED <<stdin, used, given>>

\* prompt_line returns the trimmed text; the buffer is trimmed at its end.
Answer ==
    /\ pc = "trim"
    /\ used' = Append(used, Trim(buf))
    /\ buf' = TrimInPlace(buf)
    /\ pc' = "answered"
    /\ UNCHANGED <<stdin, given>>

\* The caller has used its buffer and asks again.
AskNext ==
    /\ pc = "answered"
    /\ pc' = "prompt"
    /\ buf' = <<>>
    /\ UNCHANGED <<stdin, used, given>>

AtEof == pc = "eof" /\ UNCHANGED vars

ReadLine == Fgets \/ CheckFit \/ Drain \/ Strip
PromptLine == ReadLine \/ Answer \/ AskNext
Next == PromptLine \/ AtEof

Spec == Init /\ [][Next]_vars /\ WF_vars(PromptLine)

(*************************** Properties ************************************)

\* The lines of the input, the last one perhaps without its newline.
LineEnds == {j \in 1 .. Len(given) : given[j] = "newline" \/ j = Len(given)}
EndOf(k) == CHOOSE j \in LineEnds : Cardinality({i \in LineEnds : i <= j}) = k
StartOf(k) == IF k = 1 THEN 1 ELSE EndOf(k - 1) + 1
Line(k) == SubSeq(given, StartOf(k), EndOf(k))

\* What fits of a line, its end removed and its blanks trimmed.
Fitting(line) == Trim(StripLast(CString(FirstOf(line, buf_size - 1)), "newline"))

\* The k-th question is answered by the k-th line and by that alone, however
\* long a line is: what did not fit is "discarded", and "cannot be mistaken
\* for the next answer" (utils.c:73-74).
OneLineOneAnswer ==
    /\ Len(used) <= Cardinality(LineEnds)
    /\ \A k \in 1 .. Len(used) : used[k] = Fitting(Line(k))

\* Every line becomes an answer, and then the end of input is seen.
EveryLineAnswers == <>[](pc = "eof" /\ Len(used) = Cardinality(LineEnds))

\* A text is a number exactly when it is blanks, an optional sign, digits and
\* blanks, and the number fits an int; then that is what it is read as.  The
\* menu parses the trimmed text (main.c:107), op_lseek_demo the buffer, with the
\* blanks trim leaves in it (file_operations.c:336).
Spaces(s, i, j) == \A k \in i .. j : isspace(s[k])
Nines(n) == Iterated([v \in Nat |-> v * 10 + 9], n)
Numeral(s, v) ==
    \E a, b \in 0 .. Len(s) :
        /\ a < b
        /\ \A j \in a + 1 .. b : s[j] \in Digits
        /\ Spaces(s, b + 1, Len(s))
        /\ \/ Spaces(s, 1, a) /\ v = Nines(b - a)
           \/ a > 0 /\ s[a] = "+" /\ Spaces(s, 1, a - 1) /\ v = Nines(b - a)
           \/ a > 0 /\ s[a] = "-" /\ Spaces(s, 1, a - 1) /\ v = -Nines(b - a)
Values == {m * Nines(d) : m \in {-1, 1}, d \in 0 .. MaxInput}
ReadsAs(s) ==
    \A v \in Values : parse_int(s) = <<v>>
                         <=> Numeral(s, v) /\ v <= INT_MAX /\ v >= -INT_MAX - 1
ParsesStrictly ==
    /\ \A k \in 1 .. Len(used) : ReadsAs(used[k])
    /\ pc = "answered" => ReadsAs(buf)
=============================================================================
