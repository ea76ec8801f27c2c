--------------------------- MODULE CompactingWriter ---------------------------
(***************************************************************************)
(* The log compactor of internal/qemulog/qemulog.go, through which every   *)
(* console of a build is printed: it ends lines at CR, LF or CR LF, takes  *)
(* terminal escapes and control bytes out of them, and collapses runs of   *)
(* blank lines.  It works byte by byte and keeps its state across writes,  *)
(* so that it matters neither where the caller's chunks end nor, within a  *)
(* chunk, which of its bytes a call is about.                              *)
(*                                                                         *)
(* A byte stands for its class: "a" for what is visible and ends a control *)
(* sequence, "(" for what is visible and does not, BEL for all control     *)
(* bytes.  NL is the newline that the writer puts out.                     *)
(***************************************************************************)
EXTENDS Integers, Sequences, FiniteSetsExt

CONSTANTS
  MaxLen,       \* bound: bytes of the input
  MaxFailures   \* bound: failed writes of the output

ASSUME CompactingWriterAssumption == MaxLen \in Nat /\ MaxFailures \in Nat

VARIABLES
  text,        \* history: the bytes written so far
  line,        \* CompactingWriter.line
  skipNextLF,  \* CompactingWriter.skipNextLF
  blank,       \* CompactingWriter.blank
  out,         \* what reached the output
  flushed,     \* Flush was called, after the last write
  failures     \* writes of the output that failed

vars == <<text, line, skipNextLF, blank, out, flushed, failures>>

Bytes == {"CR", "LF", "SP", "BEL", "ESC", "[", "]", "(", "\\", "a"}
Kept == {"SP", "[", "]", "(", "\\", "a"}

-----------------------------------------------------------------------------
(* Lines without terminal escapes.                                         *)

\* The first of the positions, or the one behind the end.
First(positions, s) == Min(positions \cup {Len(s) + 1})

\* skipCSI: behind the first byte from 0x40 to 0x7e.
SkipCSI(s, i) == First({k \in i .. Len(s) : s[k] \in {"[", "]", "\\", "a"}}, s) + 1

\* Mutant: only BEL ends an operating system command.
SkipOSCToBel(s, i) == First({k \in i .. Len(s) : s[k] = "BEL"}, s) + 1

\* skipOSC: behind BEL or ESC \.
SkipOSC(s, i) ==
  LET Terminated(k) == s[k] = "ESC" /\ k < Len(s) /\ s[k + 1] = "\\"
      end == First({k \in i .. Len(s) : s[k] = "BEL" \/ Terminated(k)}, s)
  IN  IF end <= Len(s) /\ s[end] = "ESC" THEN end + 2 ELSE end + 1

\* skipEscape: the position behind the escape that begins at i.
SkipEscape(s, i) ==
  IF i = Len(s) THEN i + 1
  ELSE CASE s[i + 1] = "[" -> SkipCSI(s, i + 2)
         [] s[i + 1] = "]" -> SkipOSC(s, i + 2)
         [] s[i + 1] = "(" -> i + 3
         [] OTHER -> i + 2

\* The loop of sanitizeLine up to each byte: where it goes on, what it kept.
Sanitized(s) ==
  LET loop[i \in 0 .. Len(s)] ==
        IF i = 0 THEN [next |-> 1, kept |-> <<>>]
        ELSE LET before == loop[i - 1]
             IN  IF i < before.next THEN before
                 ELSE IF s[i] = "ESC" THEN [before EXCEPT !.next = SkipEscape(s, i)]
                 ELSE [next |-> i + 1,
                       kept |-> IF s[i] \in Kept THEN Append(before.kept, s[i])
                                ELSE before.kept]
  IN  loop

SanitizeLine(s) == Sanitized(s)[Len(s)].kept

HasVisibleContent(s) == \E i \in DOMAIN s : s[i] # "SP"

-----------------------------------------------------------------------------
(* The writer.                                                             *)

\* Mutant: blank is cleared before the line is written.
ClearedFirst == FALSE

\* emitLine returns a failed line's error before it clears blank.
BlankAfterFailedLine == blank

\* emitLine: a blank line that follows one is dropped.  A write that fails has
\* put out a part of the line, or all of it without its newline.
EmitLine(s) ==
  \/ /\ ~HasVisibleContent(s)
     /\ blank' = TRUE
     /\ out' = (IF blank THEN out ELSE Append(out, "NL"))
     /\ UNCHANGED failures
  \/ /\ HasVisibleContent(s)
     /\ blank' = FALSE
     /\ out' = Append(out \o s, "NL")
     /\ UNCHANGED failures
  \/ /\ HasVisibleContent(s) \/ ~blank
     /\ failures < MaxFailures /\ failures' = failures + 1
     /\ blank' = (IF HasVisibleContent(s) THEN BlankAfterFailedLine ELSE TRUE)
     /\ \E n \in 0 .. (IF HasVisibleContent(s) THEN Len(s) ELSE 0) :
          out' = out \o SubSeq(s, 1, n)

\* The buffer is empty after it, whatever became of the line.
EmitBufferedLine == EmitLine(SanitizeLine(line)) /\ line' = <<>>

SkipLF(b) == skipNextLF /\ b = "LF"

\* One turn of Write's loop.  A failed write returns before skipNextLF is set;
\* the caller may go on with other bytes.
Write(b) ==
  /\ ~flushed /\ Len(text) < MaxLen
  /\ text' = Append(text, b)
  /\ \/ /\ SkipLF(b)
        /\ skipNextLF' = FALSE
        /\ UNCHANGED <<line, blank, out, failures>>
     \/ /\ b \in {"CR", "LF"} /\ ~SkipLF(b)
        /\ EmitBufferedLine
        /\ skipNextLF' = (b = "CR" /\ failures' = failures)
     \/ /\ b \notin {"CR", "LF"}
        /\ line' = Append(line, b)
        /\ skipNextLF' = FALSE
        /\ UNCHANGED <<blank, out, failures>>
  /\ UNCHANGED flushed

Flush ==
  /\ ~flushed /\ flushed' = TRUE
  /\ IF line = <<>> THEN UNCHANGED <<line, blank, out, failures>>
                    ELSE EmitBufferedLine
  /\ UNCHANGED <<text, skipNextLF>>

Init ==
  /\ text = <<>> /\ line = <<>> /\ out = <<>>
  /\ skipNextLF = FALSE /\ blank = FALSE /\ flushed = FALSE /\ failures = 0

Next == Flush \/ \E b \in Bytes : Write(b)

Spec == Init /\ [][Next]_vars

-----------------------------------------------------------------------------
(* What the output should be, from the whole text at once.                 *)

\* A CR or an LF ends a line, except the LF of a CR LF.
LineEnds(t) == {i \in DOMAIN t :
                  \/ t[i] = "CR"
                  \/ t[i] = "LF" /\ ~(i > 1 /\ t[i - 1] = "CR")}

EndsBefore(t, end) == {e \in LineEnds(t) : e < end}

\* The line that ends before that position, without the LF of a CR LF before it.
LineOf(t, end) ==
  LET first == 1 + Max(EndsBefore(t, end) \cup {0})
  IN  IF first < end /\ t[first] = "LF" THEN SubSeq(t, first + 1, end - 1)
      ELSE SubSeq(t, first, end - 1)

\* A terminal as an automaton: its state, and what it has shown.
Shows(terminal, b) ==
  LET To(state) == [terminal EXCEPT !.state = state]
  IN  CASE terminal.state = "text" ->
             IF b = "ESC" THEN To("escape")
             ELSE IF b \in Kept THEN [terminal EXCEPT !.shown = Append(@, b)]
             ELSE terminal
        [] terminal.state = "escape" ->
             To(CASE b = "[" -> "control" [] b = "]" -> "command"
                  [] b = "(" -> "charset" [] OTHER -> "text")
        [] terminal.state = "control" ->
             IF b \in {"[", "]", "\\", "a"} THEN To("text") ELSE terminal
        [] terminal.state = "command" ->
             To(CASE b = "BEL" -> "text" [] b = "ESC" -> "ending" [] OTHER -> "command")
        [] terminal.state = "ending" ->
             To(CASE b \in {"BEL", "\\"} -> "text" [] b = "ESC" -> "ending"
                  [] OTHER -> "command")
        [] terminal.state = "charset" -> To("text")

Terminal(s) ==
  LET terminal[i \in 0 .. Len(s)] ==
        IF i = 0 THEN [state |-> "text", shown |-> <<>>]
        ELSE Shows(terminal[i - 1], s[i])
  IN  terminal

ShownOf(s) == Terminal(s)[Len(s)].shown

IsBlank(s) == \A i \in DOMAIN s : s[i] = "SP"

BlankAt(t, end) == IsBlank(ShownOf(LineOf(t, end)))

\* The last line needs no end once it is flushed.
Rendered(t, done, end) ==
  IF ~(end \in LineEnds(t) \/ (done /\ end > Len(t) /\ LineOf(t, end) # <<>>)) THEN <<>>
  ELSE IF ~BlankAt(t, end) THEN Append(ShownOf(LineOf(t, end)), "NL")
  ELSE IF EndsBefore(t, end) # {} /\ BlankAt(t, Max(EndsBefore(t, end))) THEN <<>>
  ELSE <<"NL">>

RenderedUpTo(t, done) ==
  LET upTo[i \in 0 .. Len(t) + 1] ==
        IF i = 0 THEN <<>> ELSE upTo[i - 1] \o Rendered(t, done, i)
  IN  upTo

Rendering(t, done) == RenderedUpTo(t, done)[Len(t) + 1]

-----------------------------------------------------------------------------
(* Properties.                                                             *)

\* At every moment the output is what the lines completed so far look like as
\* a whole text: no line end split over two writes becomes a blank line, no
\* escape leaks a byte or swallows one behind its end, no line is held back,
\* and the last one appears with the flush (Write, emitLine, skipEscape).
OutputIsRendering == failures = 0 => out = Rendering(text, flushed)

EmptyLineAt(i) == out[i] = "NL" /\ (i = 1 \/ out[i - 1] = "NL")

\* No two empty lines follow each other in a log, also not around a write that
\* failed in the middle of a line and a caller that went on (emitLine sets
\* blank before it writes an empty line and clears it after any other).
NoEmptyRuns ==
  \A i \in 1 .. Len(out) - 1 : ~(EmptyLineAt(i) /\ EmptyLineAt(i + 1))
=============================================================================
