----------------------------- MODULE ConsoleText -----------------------------
(* The console output as text (http/manager_client/console_monitor.py): each  *)
(* message is written at a cursor that "new line", "carriage return" and "one *)
(* line up" move; lines beyond the limit are cut off at the top; a reader     *)
(* asks for the last lines.  Writing and reading hold the lock of the buffer. *)
(*                                                                            *)
(* A character is a token, and so are the three control sequences.            *)
EXTENDS Integers, SequencesExt

CONSTANTS
    Messages,     \* sequences of tokens
    Limits,       \* values of text_max_lines
    Lengths,      \* numbers of lines that are asked for
    MaxMessages, MaxReads

VARIABLES
    limit,
    screen,   \* lines, line and pos of the cursor (line counts from 1, pos from 0)
    cache,    \* texts that were generated, by number of lines
    reply,    \* of the last read: text, fresh: nobody asked for it before
    paper,    \* history: cells written, cursor and rows, counted from the last clear
    count     \* of messages and reads

vars == <<limit, screen, cache, reply, paper, count>>

Blank    == [lines |-> << >>, line |-> 1, pos |-> 0]
Nothing  == [k \in {} |-> << >>]
NoReply  == [text |-> << >>, now |-> << >>, asked |-> 1, fresh |-> TRUE]
NewPaper == [cells |-> [c \in {} |-> ""], row |-> 1, col |-> 1, top |-> 1, bottom |-> 1, used |-> FALSE]

Greater(a, b) == IF a > b THEN a ELSE b
Lesser(a, b)  == IF a < b THEN a ELSE b

-----------------------------------------------------------------------------
(* The algorithm needs one line at least.                                     *)
Started(s) == IF s.lines = << >> THEN [Blank EXCEPT !.lines = << << >> >>] ELSE s

(* A character replaces the one under the cursor; a line that is too short is *)
(* filled up with spaces.                                                     *)
Overwritten(text, pos, char) ==
    [i \in 1 .. Greater(Len(text), pos + 1) |->
        CASE i = pos + 1    -> char
          [] i # pos + 1 /\ i <= Len(text) -> text[i]
          [] OTHER          -> " "]

Typed(s, char) == [s EXCEPT !.lines[s.line] = Overwritten(@, s.pos, char), !.pos = @ + 1]

NewLine(s) ==
    [s EXCEPT !.line = @ + 1, !.pos = 0,
              !.lines = IF s.line = Len(@) THEN Append(@, << >>) ELSE @]

Read1(s, token) ==
    LET t == Started(s)
    IN  CASE token = "NL" -> NewLine(t)
          [] token = "CR" -> [t EXCEPT !.pos = 0]
          [] token = "UP" -> [t EXCEPT !.line = Greater(@ - 1, 1)]
          [] OTHER        -> Typed(t, token)

(* A limit of 0 turns the text off.                                           *)
Written(s, msg) == IF limit = 0 THEN s ELSE FoldLeft(Read1, s, msg)

(* An empty line at the end does not count.                                   *)
EndsEmpty(s) == s.lines # << >> /\ Last(s.lines) = << >>

Adjusted(s, max) ==
    LET n == Len(s.lines) - (max + IF EndsEmpty(s) THEN 1 ELSE 0)
    IN  IF n > 0 THEN [s EXCEPT !.lines = SubSeq(@, n + 1, Len(@)), !.line = Greater(@ - n, 1)] ELSE s

-----------------------------------------------------------------------------
(* The last lines of the buffer; "the last 0" of one that does not end in an  *)
(* empty line are all of them.                                                *)
Generated(s, n) ==
    IF EndsEmpty(s) THEN SubSeq(s.lines, Len(s.lines) - n, Len(s.lines) - 1)
    ELSE IF n = 0 THEN s.lines
    ELSE SubSeq(s.lines, Len(s.lines) - n + 1, Len(s.lines))

(* A text is generated once for each number of lines.                         *)
Key(s, asked) == Lesser(asked, IF EndsEmpty(s) THEN Len(s.lines) - 1 ELSE Len(s.lines))

-----------------------------------------------------------------------------
(* The same on paper, which has rows and columns and never moves.             *)
Drawn(p, token) ==
    CASE token = "NL" -> [p EXCEPT !.row = @ + 1, !.col = 1, !.bottom = Greater(@, p.row + 1), !.used = TRUE]
      [] token = "CR" -> [p EXCEPT !.col = 1, !.used = TRUE]
      [] token = "UP" -> [p EXCEPT !.row = IF @ > p.top THEN @ - 1 ELSE @, !.used = TRUE]
      [] OTHER        -> [p EXCEPT !.cells = (<<p.row, p.col>> :> token) @@ @, !.col = @ + 1, !.used = TRUE]

Columns(p, row) == {c[2] : c \in {d \in DOMAIN p.cells : d[1] = row}}
Width(p, row)   == IF Columns(p, row) = {} THEN 0 ELSE CHOOSE n \in Columns(p, row) : \A m \in Columns(p, row) : m <= n
RowText(p, row) == [i \in 1 .. Width(p, row) |-> IF <<row, i>> \in DOMAIN p.cells THEN p.cells[<<row, i>>] ELSE " "]
Rows(p)         == IF p.used THEN [i \in 1 .. p.bottom - p.top + 1 |-> RowText(p, p.top + i - 1)] ELSE << >>

(* Rows in use, without an empty one at the end; those over the limit are torn off. *)
InUse(p) == IF p.used THEN p.bottom - p.top + (IF Width(p, p.bottom) = 0 THEN 0 ELSE 1) ELSE 0

TornOff(p, max) ==
    LET top == p.top + Greater(InUse(p) - max, 0)
    IN  IF top > p.bottom THEN NewPaper ELSE [p EXCEPT !.top = top, !.row = Greater(@, top)]

Shown(p, asked) ==
    LET rows == SubSeq(Rows(p), 1, InUse(p))
    IN  SubSeq(rows, Greater(Len(rows) - asked, 0) + 1, Len(rows))

-----------------------------------------------------------------------------
Init ==
    /\ limit \in Limits
    /\ screen = Blank /\ cache = Nothing /\ reply = NoReply
    /\ paper = NewPaper /\ count = [messages |-> 0, reads |-> 0]

(* A message that finds the queue of messages full never gets here.           *)
Receives ==
    /\ count.messages < MaxMessages
    /\ count' = [count EXCEPT !.messages = @ + 1]
    /\ \E msg \in Messages :
           /\ screen' = Adjusted(Written(screen, msg), limit)
           /\ paper' = TornOff(IF limit = 0 THEN paper ELSE FoldLeft(Drawn, paper, msg), limit)
    /\ UNCHANGED <<limit, cache, reply>>

SetsLimit(max) ==
    /\ max # limit
    /\ count.messages < MaxMessages
    /\ count' = [count EXCEPT !.messages = @ + 1]
    /\ limit' = max
    /\ screen' = Adjusted(screen, max)
    /\ paper' = TornOff(paper, max)
    /\ UNCHANGED <<cache, reply>>

(* Monitoring starts again.                                                   *)
Clears ==
    /\ screen.lines # << >>
    /\ screen' = Blank /\ cache' = Nothing /\ paper' = NewPaper
    /\ UNCHANGED <<limit, reply, count>>

Reads(asked) ==
    /\ count.reads < MaxReads
    /\ count' = [count EXCEPT !.reads = @ + 1]
    /\ LET k    == Key(screen, asked)
           text == IF k \in DOMAIN cache THEN cache[k] ELSE Generated(screen, k)
       IN  /\ cache' = (k :> text) @@ cache
           /\ reply' = [text |-> text, now |-> Shown(paper, asked), asked |-> asked, fresh |-> k \notin DOMAIN cache]
    /\ UNCHANGED <<limit, screen, paper>>

Next == Receives \/ Clears \/ (\E max \in Limits : SetsLimit(max)) \/ (\E asked \in Lengths : Reads(asked))

Spec == Init /\ [][Next]_vars

-----------------------------------------------------------------------------
TypeOK ==
    /\ limit \in Limits
    /\ screen.line \in 1 .. Greater(Len(screen.lines), 1)
    /\ \A k \in DOMAIN cache : k \in Nat

(* The buffer is what a terminal with that many lines shows.                  *)
ScreenTrue == screen.lines = Rows(paper)

(* A text that nobody asked for before is the last lines that are shown.      *)
FreshTextTrue == reply.fresh /\ reply.asked > 0 => reply.text = reply.now

TextTrue == TypeOK /\ ScreenTrue /\ FreshTextTrue
=============================================================================
