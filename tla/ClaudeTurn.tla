----------------------------- MODULE ClaudeTurn -----------------------------
(***************************************************************************)
(* One turn of a `claude` child process, as its three readers see it: the   *)
(* executor of the server's chat ("local"), the daemon on the user's        *)
(* machine ("daemon") and the executor of the server's flows ("cli").       *)
(*                                                                          *)
(* The child prints lines of JSON.  A line is two halves and a newline, and *)
(* the operating system hands the reader any number of these at a time; the *)
(* text between the halves of a wide line is one character of several       *)
(* bytes, which the readers decode chunk by chunk.                          *)
(***************************************************************************)
EXTENDS Integers, Sequences, FiniteSets, SequencesExt

CONSTANTS
  Lines,     \* the lines a child may print
  MaxLines,  \* bound: lines of one turn
  Killed     \* the exit code of a child that a signal ended: null

Codes == {0, 1, Killed}

Blocks == {"thinking", "text", "tool_use", "tool_result", "image"}

\* `bad` is is_error.  A "null" line is the JSON text null, "garbage" is no JSON.
LineShapes ==
  [type : {"assistant", "user", "result", "system", "garbage", "null", "blank"},
   blocks : Seq(Blocks), bad : BOOLEAN, wide : BOOLEAN]

ASSUME TurnAssumption ==
  /\ Lines \subseteq LineShapes
  /\ MaxLines \in Nat
  /\ Killed \notin Int

VARIABLES
  reader,   \* who runs the child
  script,   \* the lines it would print
  read,     \* how many pieces of them the reader was given
  buf,      \* the pieces not yet made into lines
  mangled,     \* the lines a chunk boundary cut inside a character
  acc,      \* finalText, usage and isError so far
  handed,   \* what went to onEvent
  child,    \* "running", "failed" to spawn, "closed", or the reader's process died
  code,     \* what the child closed with
  stderr,   \* has the child written to stderr?
  settled   \* what the turn resolved or rejected with: each time, for a daemon

turnVars == <<reader, script, read, buf, mangled, acc, handed, child, code, stderr, settled>>

-----------------------------------------------------------------------------
\* What the child prints, piece by piece: two halves and a newline per line.
Parts == <<"first", "second", "newline">>

Piece(n, part) == [line |-> n, part |-> part]

Output == [i \in 1 .. 3 * Len(script) |-> Piece((i + 2) \div 3, Parts[((i - 1) % 3) + 1])]

TurnEvent(kind, n) == [kind |-> kind, line |-> n]

LineEvents == [kind : Blocks \cup {"result", "error"}, line : Nat \ {0}]
TextEvents == [kind : {"text"}, line : Nat]

\* The elements of s that are in K, in order (written so that it can be proved about).
Select(s, K) == FlattenSeq([i \in DOMAIN s |-> IF s[i] \in K THEN <<s[i]>> ELSE <<>>])

\* mapStreamJsonLine on line n of the script.
MapLine(n) ==
  LET l == script[n]
      kept == CASE l.type = "assistant" -> {"thinking", "text", "tool_use"}
                [] l.type = "user"      -> {"tool_result"}
                [] OTHER                -> {}
  IN  IF l.type = "result" THEN <<TurnEvent(IF l.bad THEN "error" ELSE "result", n)>>
      ELSE LET bs == Select(l.blocks, kept)
           IN  [i \in DOMAIN bs |-> TurnEvent(bs[i], n)]

\* A text is JSON if it is the two halves of one line and no more.
IsLine(text) ==
  /\ Len(text) = 2
  /\ text[1].part = "first" /\ text[2] = Piece(text[1].line, "second")

Mapped(text) == IF IsLine(text) THEN MapLine(text[1].line) ELSE <<>>

\* ev.type of null throws, and nothing up to the data or close event catches it.
Throws(text) == IsLine(text) /\ script[text[1].line].type = "null"

Newlines(text) == {i \in DOMAIN text : text[i].part = "newline"}

\* Mutant: one line per chunk (an if where the code has a while).
FirstLine(text) ==
  LET ends == Newlines(text)
  IN  IF ends = {} THEN <<>> ELSE <<SubSeq(text, 1, Min(ends) - 1)>>

\* What stands between position i and the newline before it, or the front.
LineBefore(text, i) ==
  SubSeq(text, Max({0} \cup {j \in Newlines(text) : j < i}) + 1, i - 1)

\* The complete lines at the front of a buffer, and what stays in it.
CompleteLines(text) ==
  FlattenSeq([i \in DOMAIN text |->
                IF i \in Newlines(text) THEN <<LineBefore(text, i)>> ELSE <<>>])

Remainder(text) == LineBefore(text, Len(text) + 1)

\* handleLine's bookkeeping over a sequence of events.
Accumulate(a, events) ==
  LET oks == {i \in DOMAIN events : events[i].kind = "result"}
  IN  [text    |-> a.text \o Select(events, TextEvents),
       usage   |-> IF oks = {} THEN a.usage ELSE events[Max(oks)].line,
       isError |-> a.isError \/ \E i \in DOMAIN events : events[i].kind = "error"]

Result(how, a) == [how |-> how, text |-> a.text, usage |-> a.usage, isError |-> a.isError]

-----------------------------------------------------------------------------
NoneYet == [text |-> <<>>, usage |-> 0, isError |-> FALSE]

TurnStart == TurnEvent("turn:start", 0)
TurnEnd == TurnEvent("turn:end", 0)

\* The child is spawned; a daemon announces the turn before it prints anything.
TurnInit ==
  /\ reader \in {"local", "daemon", "cli"}
  /\ script \in UNION {[1 .. n -> Lines] : n \in 0 .. MaxLines}
  /\ read = 0
  /\ buf = <<>>
  /\ mangled = {}
  /\ acc = NoneYet
  /\ handed = IF reader = "daemon" THEN <<TurnStart>> ELSE <<>>
  /\ child = "running"
  /\ code = 0
  /\ stderr = FALSE
  /\ settled = <<>>

\* Whatever the reader had in hand, an exception that nobody catches ends its process.
ReaderDies ==
  /\ child' = "reader died"
  /\ UNCHANGED <<reader, script, read, buf, mangled, acc, handed, code, stderr, settled>>

\* stdout 'data'.  The cli reader only collects.
Data(k) ==
  LET text == buf \o SubSeq(Output, read + 1, read + k)
      lines == IF reader = "cli" THEN <<>> ELSE CompleteLines(text)
      events == FlattenSeq([i \in DOMAIN lines |-> Mapped(lines[i])])
  IN  /\ child = "running"
      /\ read + k <= Len(Output)
      /\ IF \E i \in DOMAIN lines : Throws(lines[i]) THEN ReaderDies
         ELSE /\ read' = read + k
              /\ buf' = IF reader = "cli" THEN text ELSE Remainder(text)
              /\ mangled' = LET last == Last(text)
                         IN  IF last.part = "first" /\ script[last.line].wide
                             THEN mangled \cup {last.line} ELSE mangled
              /\ acc' = Accumulate(acc, events)
              /\ handed' = handed \o events
              /\ UNCHANGED <<reader, script, child, code, stderr, settled>>

\* stderr 'data': kept as the text of an error, should the exit code make it one.
Complain ==
  /\ child = "running" /\ ~stderr
  /\ stderr' = TRUE
  /\ UNCHANGED <<reader, script, read, buf, mangled, acc, handed, child, code, settled>>

\* 'error': the child could not be spawned.  The cli reader does not listen for it.
SpawnError ==
  /\ child = "running" /\ read = 0
  /\ IF reader = "cli" THEN ReaderDies
     ELSE /\ child' = "failed"
          /\ handed' = IF reader = "daemon" THEN Append(handed, TurnEnd) ELSE handed
          /\ acc' = [acc EXCEPT !.isError = TRUE]
          /\ settled' = <<Result(IF reader = "daemon" THEN "resolved" ELSE "rejected", acc')>>
          /\ UNCHANGED <<reader, script, read, buf, mangled, code, stderr>>

\* The last line of a child need not end in a newline.
Flush(text) == Mapped(text)

\* Mutant: what stands in stderr makes an error of any exit.
LocalErrorOfStderr(a, c) == a.isError \/ c # 0 \/ stderr

\* isError of the chat's executor: any exit but 0 counts, null too.
LocalError(a, c) == a.isError \/ c # 0

\* Mutant: the daemon reads the exit code alone.
DaemonCodeOnly(a, c) == c # 0 /\ c # Killed

\* status of the daemon's turn:end: null passes for the absent code of a spawn error.
DaemonError(a, c) == a.isError \/ (c # 0 /\ c # Killed)

\* What the cli reader makes of the child's last line that is not blank.
LastLine ==
  LET all == Append(CompleteLines(buf), Remainder(buf))
      full == {i \in DOMAIN all : all[i] # <<>> /\ script[all[i][1].line].type # "blank"}
  IN  IF full = {} THEN <<>> ELSE all[Max(full)]

CliClose(c) ==
  LET last == LastLine
      parses == IsLine(last) /\ script[last[1].line].type # "garbage"
  IN  IF c = 0 /\ Throws(last) THEN ReaderDies
      ELSE /\ settled' =
                IF c = 0 /\ parses /\ ~script[last[1].line].bad
                THEN <<Result("resolved", [acc EXCEPT !.text = MapLine(last[1].line)])>>
                ELSE <<Result("rejected", [acc EXCEPT !.isError = TRUE])>>
           /\ child' = "closed"
           /\ code' = c
           /\ UNCHANGED <<reader, script, read, buf, mangled, acc, handed, stderr>>

\* 'close' of a child that printed all it was read, or that never ran.  A promise
\* settles once, a daemon sends its turn:end again.
Close(c) ==
  LET events == Flush(buf)
      a == Accumulate(acc, events)
  IN  /\ child \in {"running", "failed"}
      /\ child = "failed" => c = 1
      /\ IF reader = "cli" THEN CliClose(c)
         ELSE IF Throws(buf) THEN ReaderDies
         ELSE /\ child' = "closed"
              /\ code' = c
              /\ acc' = [a EXCEPT !.isError = IF reader = "local" THEN LocalError(a, c)
                                              ELSE DaemonError(a, c)]
              /\ handed' = handed \o events
                             \o (IF reader = "daemon" THEN <<TurnEnd>> ELSE <<>>)
              /\ settled' = IF reader = "local" /\ settled # <<>> THEN settled
                            ELSE Append(settled, Result("resolved", acc'))
              /\ UNCHANGED <<reader, script, read, buf, mangled, stderr>>

\* The daemon writes the prompt to a child that has closed its end: stdin's 'error'
\* has no handler.
PromptRefused ==
  /\ reader = "daemon" /\ child = "running"
  /\ ReaderDies

TurnNext ==
  \/ \E k \in 1 .. 3 * MaxLines : Data(k)
  \/ Complain
  \/ SpawnError
  \/ \E c \in Codes : Close(c)
  \/ PromptRefused

TurnSpec == TurnInit /\ [][TurnNext]_turnVars

-----------------------------------------------------------------------------
Alive == child # "reader died"

\* Line n reached the reader whole: its newline did, or its end did and the child closed.
Whole(n) == 3 * n <= read \/ (child = "closed" /\ 3 * n - 1 <= read)

WholeEvents == FlattenSeq([n \in DOMAIN script |-> IF Whole(n) THEN MapLine(n) ELSE <<>>])

\* However the output is cut into chunks, the reader hands on the events of exactly the
\* lines it has been given whole, in order, a last line without its newline included.
\* (Their text is the child's unless a chunk ended inside a character: `mangled`.)
ChunkingIsInvisible ==
  reader # "cli" /\ Alive =>
    Select(handed, LineEvents) = WholeEvents

\* What a chat turn resolves with: an error if and only if the child exited with
\* anything but 0 or reported one, the text blocks in order, the last usage reported.
\* A child that complains on stderr and exits with 0 has made no error, whatever the
\* comment at streamExecutor.ts:131 says of stderr: its text only words the error of
\* another exit code (streamExecutor.ts:176-183).
\* A flow's agent call resolves only if the child exited with 0 and the last thing it
\* said is a whole line that is no error.
VerdictIsSound ==
  \A i \in DOMAIN settled :
    LET saysError == \E n \in DOMAIN script : Whole(n) /\ script[n].type = "result" /\ script[n].bad
        usages == {n \in DOMAIN script : Whole(n) /\ script[n].type = "result" /\ ~script[n].bad}
        spoken == {n \in DOMAIN script : 3 * n - 2 <= read /\ script[n].type # "blank"}
        r == settled[i]
    IN  /\ reader = "local" /\ r.how = "resolved" =>
             /\ r.isError <=> code # 0 \/ saysError
             /\ r.text = Select(WholeEvents, TextEvents)
             /\ \A n \in usages : n <= r.usage
             /\ r.usage \in usages \cup {0}
        /\ reader = "cli" /\ r.how = "resolved" =>
             /\ code = 0
             /\ \E n \in spoken :
                  /\ \A m \in spoken : m <= n
                  /\ Whole(n) /\ ~script[n].bad

\* A daemon tells a turn as the server would have run it: turn:start first, then one
\* batch per event, turn:end last, sent twice only for a child that never ran and then
\* with the same verdict; and its verdict is the server's own executor's, but for a
\* child that a signal ended, which the daemon counts as completed.
DaemonAgrees ==
  LET ends == {i \in DOMAIN handed : handed[i] = TurnEnd}
      saysError == \E n \in DOMAIN script : Whole(n) /\ script[n].type = "result" /\ script[n].bad
  IN  reader = "daemon" /\ Alive =>
        /\ handed[1] = TurnStart
        /\ child = "running" <=> ends = {}
        /\ \A i \in ends : \A j \in i .. Len(handed) : j \in ends
        /\ Cardinality(ends) = Len(settled)
        /\ \A i \in DOMAIN settled : settled[i] = settled[1]
        /\ child = "closed" =>
             (settled[1].isError <=> code = 1 \/ saysError)
=============================================================================
