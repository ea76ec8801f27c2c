------------------------ MODULE CompactingWriterProofs ------------------------
(***************************************************************************)
(* Proofs about CompactingWriter for texts of every length and any number  *)
(* of failed writes.                                                       *)
(*                                                                         *)
(* The writer's three variables are what the next byte needs to know of    *)
(* the whole text: LineInv.  Within a line, the loop of sanitizeLine jumps *)
(* over an escape where the terminal automaton walks through it: Between   *)
(* says where the loop will go on for each state of the automaton.  Both   *)
(* the loop, the automaton and the rendering are recursive functions; a    *)
(* minimal counterexample takes the place of induction.                    *)
(***************************************************************************)
EXTENDS CompactingWriter, SequenceTheorems, WellFoundedInduction, TLAPS

Output == Kept \cup {"NL"}
LineBytes == Bytes \ {"CR", "LF"}

TypeInv ==
  /\ text \in Seq(Bytes) /\ line \in Seq(LineBytes) /\ out \in Seq(Output)
  /\ skipNextLF \in BOOLEAN /\ blank \in BOOLEAN /\ flushed \in BOOLEAN
  /\ failures \in Nat

\* The line that was written last is empty only if blank says so.
BlankInv == ~blank => out = <<>> \/ ~EmptyLineAt(Len(out))

\* What Write remembers of the text.
LineInv ==
  failures = 0 /\ ~flushed =>
    /\ line = LineOf(text, Len(text) + 1)
    /\ skipNextLF <=> text # <<>> /\ text[Len(text)] = "CR"
    /\ blank <=> LineEnds(text) # {} /\ BlankAt(text, Max(LineEnds(text)))

WriterInv == TypeInv /\ NoEmptyRuns /\ BlankInv /\ LineInv /\ OutputIsRendering

\* Where the loop of sanitizeLine goes on, for each state of the terminal behind
\* the i-th byte.
Between(s, i) ==
  LET t == Terminal(s)[i].state
      n == Sanitized(s)[i].next
  IN  /\ Sanitized(s)[i].kept = Terminal(s)[i].shown
      /\ t = "text" => n = i + 1
      /\ t = "escape" => i > 0 /\ s[i] = "ESC" /\ n = SkipEscape(s, i)
      /\ t = "control" => n = SkipCSI(s, i + 1)
      /\ t = "command" => n = SkipOSC(s, i + 1)
      /\ t = "ending" => i > 0 /\ s[i] = "ESC" /\ n = SkipOSC(s, i)
      /\ t = "charset" => n = i + 2

-----------------------------------------------------------------------------
(* Least numbers, and functions defined by recursion.                      *)

Less == {pair \in Nat \X Nat : pair[1] < pair[2]}

\* A set of numbers has a least one.
LEMMA LeastNumber ==
  ASSUME NEW T \in SUBSET Nat, T # {}
  PROVE  \E x \in T : \A y \in T : x <= y
<1>1. OpToRel(<, Nat) = Less
  BY Zenon DEF OpToRel, Less
<1>2. IsWellFoundedOn(Less, Nat)
  BY <1>1, NatLessThanWellFounded, Zenon
<1>3. \E x \in T : \A y \in T : ~(<<y, x>> \in Less)
  BY <1>2, WFMin
<1>4. PICK x \in T : \A y \in T : ~(<<y, x>> \in Less)
  BY <1>3
<1>5. \A y \in T : x <= y
  <2> SUFFICES ASSUME NEW y \in T, ~(x <= y)
               PROVE  FALSE
    OBVIOUS
  <2>1. x \in Nat /\ y \in Nat /\ y < x
    OBVIOUS
  <2>2. <<y, x>> \in Less
    BY <2>1 DEF Less
  <2> QED
    BY <2>2, <1>4
<1> QED
  BY <1>5

\* A set of numbers with 0 and with the successors of its members, up to n, has
\* every number up to n.
LEMMA AllNumbers ==
  ASSUME NEW n \in Nat, NEW T, 0 \in T, \A i \in 0 .. n - 1 : i \in T => i + 1 \in T
  PROVE  0..n \subseteq T
<1> DEFINE Missing == {i \in Nat : i <= n /\ i \notin T}
<1>1. SUFFICES ASSUME Missing # {}
               PROVE  FALSE
  BY DEF Missing
<1>2. PICK x \in Missing : \A y \in Missing : x <= y
  BY <1>1, LeastNumber
<1>3. x \in Nat /\ x # 0 /\ x - 1 \in 0 .. n - 1 /\ x - 1 \notin Missing
  BY <1>2
<1> QED
  BY <1>2, <1>3

\* Values that start in a set and do not leave it step by step are all in it.
LEMMA StaysIn ==
  ASSUME NEW n \in Nat, NEW S, NEW f, f[0] \in S,
         \A i \in 1..n : f[i - 1] \in S => f[i] \in S
  PROVE  \A i \in 0..n : f[i] \in S
<1> DEFINE T == {i \in 0..n : f[i] \in S}
<1>1. 0 \in T
  OBVIOUS
<1>2. ASSUME NEW i \in 0 .. n - 1, i \in T
      PROVE  i + 1 \in T
  <2>1. i + 1 \in 1..n /\ (i + 1) - 1 = i /\ i + 1 \in 0..n
    OBVIOUS
  <2> QED
    BY <2>1, <1>2
<1>3. 0..n \subseteq T
  <2> HIDE DEF T
  <2> QED
    BY <1>1, <1>2, AllNumbers
<1> QED
  BY <1>3

Iterates(f, n, base, step) ==
  f = [i \in 0..n |-> IF i = 0 THEN base ELSE step[i][f[i - 1]]]

\* There is a sequence of values of which each follows from the one before.
LEMMA Iteration ==
  ASSUME NEW n \in Nat, NEW S, NEW base \in S, NEW step \in [1..n -> [S -> S]]
  PROVE  \E f \in [0..n -> S] : Iterates(f, n, base, step)
<1> DEFINE Reached == {k \in Nat : k <= n =>
                         \E f \in [0..n -> S] :
                           f[0] = base /\ \A i \in 1..k : f[i] = step[i][f[i - 1]]}
<1>1. 0 \in Reached
  <2> DEFINE f == [i \in 0..n |-> base]
  <2>1. f \in [0..n -> S] /\ f[0] = base
    OBVIOUS
  <2>2. \A i \in 1..0 : f[i] = step[i][f[i - 1]]
    OBVIOUS
  <2> HIDE DEF f
  <2> QED
    BY <2>1, <2>2
<1>2. ASSUME NEW k \in 0 .. n - 1, k \in Reached
      PROVE  k + 1 \in Reached
  <2>1. PICK f \in [0..n -> S] :
          f[0] = base /\ \A i \in 1..k : f[i] = step[i][f[i - 1]]
    BY <1>2
  <2> DEFINE g == [f EXCEPT ![k + 1] = step[k + 1][f[k]]]
  <2>2. g \in [0..n -> S]
    <3>1. step[k + 1] \in [S -> S] /\ f[k] \in S
      OBVIOUS
    <3> QED
      BY <3>1
  <2>3. g[0] = base /\ \A i \in 1 .. k + 1 : g[i] = step[i][g[i - 1]]
    <3>1. \A i \in 0..n : g[i] = IF i = k + 1 THEN step[k + 1][f[k]] ELSE f[i]
      OBVIOUS
    <3> HIDE DEF g
    <3> QED
      BY <2>1, <3>1
  <2> HIDE DEF g
  <2>4. k + 1 \in Nat
    OBVIOUS
  <2> QED
    BY <2>2, <2>3, <2>4
<1>3. n \in Reached
  <2> HIDE DEF Reached
  <2>1. 0..n \subseteq Reached
    BY <1>1, <1>2, AllNumbers
  <2> QED
    BY <2>1
<1>4. PICK f \in [0..n -> S] : f[0] = base /\ \A i \in 1..n : f[i] = step[i][f[i - 1]]
  BY <1>3
<1>5. Iterates(f, n, base, step)
  BY <1>4 DEF Iterates
<1> QED
  BY <1>5

\* The greatest member of a set of numbers up to n.
LEMMA GreatestNumber ==
  ASSUME NEW n \in Nat, NEW T \in SUBSET (0..n), T # {}
  PROVE  Max(T) \in T /\ \A y \in T : Max(T) >= y
<1> DEFINE U == {k \in Nat : n - k \in T}
<1>1. U \in SUBSET Nat /\ U # {}
  <2>1. PICK x \in T : TRUE
    OBVIOUS
  <2>2. n - x \in Nat /\ n - (n - x) = x
    BY <2>1
  <2> QED
    BY <2>1, <2>2
<1>2. PICK k \in U : \A y \in U : k <= y
  BY <1>1, LeastNumber
<1>3. n - k \in T /\ \A y \in T : n - k >= y
  <2> SUFFICES ASSUME NEW y \in T
               PROVE  n - k >= y
    BY <1>2
  <2>1. y \in 0..n /\ n - y \in Nat /\ n - (n - y) = y
    OBVIOUS
  <2>2. n - y \in U
    BY <2>1
  <2> QED
    BY <1>2, <2>1, <2>2
<1>4. \E x \in T : \A y \in T : x >= y
  BY <1>3
<1> QED
  BY <1>4 DEF Max

-----------------------------------------------------------------------------
(* Escapes.                                                                *)

\* First is the least position, or the one behind the end.
LEMMA FirstPosition ==
  ASSUME NEW s \in Seq(LineBytes), NEW P \in SUBSET (1..Len(s))
  PROVE  /\ First(P, s) \in P \cup {Len(s) + 1}
         /\ \A k \in P : First(P, s) <= k
         /\ First(P, s) \in 1 .. Len(s) + 1
<1> DEFINE n == Len(s)
           T == P \cup {n + 1}
<1>1. n \in Nat
  BY LenProperties
<1>2. First(P, s) = Min(T)
  BY DEF First
<1> HIDE DEF n
<1>3. \A k \in P : k \in Nat /\ 1 <= k /\ k <= n
  BY <1>1 DEF n
<1>4. \A k \in T : k \in 1 .. n + 1
  BY <1>1, <1>3
<1> HIDE DEF T
<1>5. \A k \in T : k \in Nat
  BY <1>1, <1>4
<1>6. \E x \in T : \A y \in T : x <= y
  <2>1. T \in SUBSET Nat /\ T # {}
    BY <1>5 DEF T
  <2> QED
    BY <2>1, LeastNumber
<1>7. First(P, s) \in T /\ \A y \in T : First(P, s) <= y
  BY <1>2, <1>6 DEF Min
<1> QED
  BY <1>4, <1>7 DEF T, n

\* A byte that ends a control sequence, and one that ends a command.
EndsControl(s, k) == s[k] \in {"[", "]", "\\", "a"}
EndsCommand(s, k) == s[k] = "BEL" \/ (s[k] = "ESC" /\ k < Len(s) /\ s[k + 1] = "\\")

\* skipCSI, one byte at a time.
LEMMA SkipCSIStep ==
  ASSUME NEW s \in Seq(LineBytes), NEW i \in 1 .. Len(s) + 1
  PROVE  /\ SkipCSI(s, i) \in i + 1 .. Len(s) + 2
         /\ i <= Len(s) => SkipCSI(s, i) = IF EndsControl(s, i) THEN i + 1 ELSE SkipCSI(s, i + 1)
<1>1. Len(s) \in Nat
  BY LenProperties
<1> DEFINE P(j) == {k \in j .. Len(s) : EndsControl(s, k)}
<1>2. \A j : SkipCSI(s, j) = First(P(j), s) + 1
  BY DEF SkipCSI, EndsControl
<1>3. P(i) \in SUBSET (1..Len(s)) /\ P(i + 1) \in SUBSET (1..Len(s))
  BY <1>1
<1>4. /\ First(P(i), s) \in P(i) \cup {Len(s) + 1}
      /\ \A k \in P(i) : First(P(i), s) <= k
      /\ First(P(i), s) \in 1 .. Len(s) + 1
  BY <1>3, FirstPosition
<1>5. SkipCSI(s, i) \in i + 1 .. Len(s) + 2
  BY <1>1, <1>2, <1>4
<1>6. ASSUME i <= Len(s), EndsControl(s, i)
      PROVE  SkipCSI(s, i) = i + 1
  <2>1. i \in P(i)
    BY <1>1, <1>6
  <2>2. First(P(i), s) <= i
    BY <1>4, <2>1
  <2>3. First(P(i), s) >= i
    BY <1>1, <1>4
  <2> QED
    BY <1>1, <1>2, <1>4, <2>2, <2>3
<1>7. ASSUME i <= Len(s), ~EndsControl(s, i)
      PROVE  SkipCSI(s, i) = SkipCSI(s, i + 1)
  <2>1. P(i) = P(i + 1)
    <3>1. \A k \in i .. Len(s) : k = i \/ k \in i + 1 .. Len(s)
      BY <1>1
    <3>2. \A k \in i + 1 .. Len(s) : k \in i .. Len(s)
      BY <1>1
    <3> QED
      BY <3>1, <3>2, <1>7
  <2> QED
    BY <1>2, <2>1
<1> QED
  BY <1>5, <1>6, <1>7

\* skipOSC, one byte at a time.
LEMMA SkipOSCStep ==
  ASSUME NEW s \in Seq(LineBytes), NEW i \in 1 .. Len(s) + 1
  PROVE  /\ SkipOSC(s, i) \in i + 1 .. Len(s) + 2
         /\ i <= Len(s) => SkipOSC(s, i) = IF ~EndsCommand(s, i) THEN SkipOSC(s, i + 1)
                                           ELSE IF s[i] = "ESC" THEN i + 2 ELSE i + 1
<1>1. Len(s) \in Nat
  BY LenProperties
<1> DEFINE P(j) == {k \in j .. Len(s) : EndsCommand(s, k)}
           Behind(e) == IF e <= Len(s) /\ s[e] = "ESC" THEN e + 2 ELSE e + 1
<1>2. \A j : SkipOSC(s, j) = Behind(First(P(j), s))
  BY DEF SkipOSC, EndsCommand
<1>3. P(i) \in SUBSET (1..Len(s)) /\ P(i + 1) \in SUBSET (1..Len(s))
  BY <1>1
<1>4. /\ First(P(i), s) \in P(i) \cup {Len(s) + 1}
      /\ \A k \in P(i) : First(P(i), s) <= k
      /\ First(P(i), s) \in 1 .. Len(s) + 1
  BY <1>3, FirstPosition
<1>5. SkipOSC(s, i) \in i + 1 .. Len(s) + 2
  <2>1. CASE First(P(i), s) = Len(s) + 1
    BY <1>1, <1>2, <2>1
  <2>2. CASE First(P(i), s) \in P(i)
    <3>1. EndsCommand(s, First(P(i), s)) /\ First(P(i), s) \in i .. Len(s)
      BY <2>2
    <3>2. s[First(P(i), s)] = "ESC" => First(P(i), s) < Len(s)
      BY <3>1 DEF EndsCommand
    <3> HIDE DEF P
    <3> QED
      BY <1>1, <1>2, <3>1, <3>2
  <2> QED
    BY <1>4, <2>1, <2>2
<1>6. ASSUME i <= Len(s), EndsCommand(s, i)
      PROVE  SkipOSC(s, i) = IF s[i] = "ESC" THEN i + 2 ELSE i + 1
  <2>1. i \in P(i)
    BY <1>1, <1>6
  <2>2. First(P(i), s) <= i
    BY <1>4, <2>1
  <2>3. First(P(i), s) >= i
    BY <1>1, <1>4
  <2>4. First(P(i), s) = i
    BY <1>1, <1>4, <2>2, <2>3
  <2> HIDE DEF P
  <2> QED
    BY <1>2, <1>6, <2>4
<1>7. ASSUME i <= Len(s), ~EndsCommand(s, i)
      PROVE  SkipOSC(s, i) = SkipOSC(s, i + 1)
  <2>1. P(i) = P(i + 1)
    <3>1. \A k \in i .. Len(s) : k = i \/ k \in i + 1 .. Len(s)
      BY <1>1
    <3>2. \A k \in i + 1 .. Len(s) : k \in i .. Len(s)
      BY <1>1
    <3> QED
      BY <3>1, <3>2, <1>7
  <2> HIDE DEF Behind
  <2> QED
    BY <1>2, <2>1
<1> QED
  BY <1>5, <1>6, <1>7

\* skipEscape jumps forward.
LEMMA SkipEscapeForward ==
  ASSUME NEW s \in Seq(LineBytes), NEW i \in 1..Len(s)
  PROVE  /\ SkipEscape(s, i) \in i + 1 .. Len(s) + 2
         /\ i < Len(s) => SkipEscape(s, i) >= i + 2
<1>1. Len(s) \in Nat
  BY LenProperties
<1>2. ASSUME i < Len(s)
      PROVE  /\ SkipCSI(s, i + 2) \in i + 3 .. Len(s) + 2
             /\ SkipOSC(s, i + 2) \in i + 3 .. Len(s) + 2
  <2>1. i + 2 \in 1 .. Len(s) + 1 /\ (i + 2) + 1 = i + 3
    BY <1>1, <1>2
  <2> QED
    BY <2>1, SkipCSIStep, SkipOSCStep
<1> QED
  BY <1>1, <1>2 DEF SkipEscape

-----------------------------------------------------------------------------
(* A line as sanitizeLine's loop and as the terminal see it.               *)

\* One turn of the loop, or none for a byte of an escape.
LoopStep(s, i, before) ==
  IF i < before.next THEN before
  ELSE IF s[i] = "ESC" THEN [before EXCEPT !.next = SkipEscape(s, i)]
  ELSE [next |-> i + 1,
        kept |-> IF s[i] \in Kept THEN Append(before.kept, s[i]) ELSE before.kept]

Loops == [next : Nat, kept : Seq(Kept)]

\* A turn of the loop keeps its variables' types.
LEMMA LoopTyped ==
  ASSUME NEW s \in Seq(LineBytes), NEW i \in 1..Len(s), NEW before \in Loops
  PROVE  LoopStep(s, i, before) \in Loops
<1>1. Len(s) \in Nat /\ i \in Nat /\ SkipEscape(s, i) \in Nat
  BY SkipEscapeForward, LenProperties
<1>2. before.next \in Nat /\ before.kept \in Seq(Kept)
  BY DEF Loops
<1>3. s[i] \in Kept => Append(before.kept, s[i]) \in Seq(Kept)
  BY <1>2, AppendProperties
<1>4. [before EXCEPT !.next = SkipEscape(s, i)] \in Loops
  BY <1>1 DEF Loops
<1>5. \A r \in Seq(Kept) : [next |-> i + 1, kept |-> r] \in Loops
  BY <1>1 DEF Loops
<1> QED
  BY <1>2, <1>3, <1>4, <1>5 DEF LoopStep

\* Sanitized is the loop that its definition says.
LEMMA SanitizedSteps ==
  ASSUME NEW s \in Seq(LineBytes)
  PROVE  /\ Sanitized(s) \in [0..Len(s) -> Loops]
         /\ Sanitized(s)[0] = [next |-> 1, kept |-> <<>>]
         /\ \A i \in 1..Len(s) : Sanitized(s)[i] = LoopStep(s, i, Sanitized(s)[i - 1])
<1> DEFINE n == Len(s)
           base == [next |-> 1, kept |-> <<>>]
           step == [i \in 1..n |-> [before \in Loops |-> LoopStep(s, i, before)]]
<1>1. n \in Nat
  BY LenProperties
<1>2. base \in Loops
  BY DEF Loops
<1>3. step \in [1..n -> [Loops -> Loops]]
  BY LoopTyped
<1> HIDE DEF base, step, n
<1>4. PICK f \in [0..n -> Loops] : Iterates(f, n, base, step)
  BY <1>1, <1>2, <1>3, Iteration
<1>5. f = [i \in 0..n |-> IF i = 0 THEN base ELSE LoopStep(s, i, f[i - 1])]
  <2>1. \A i \in 1..n : step[i][f[i - 1]] = LoopStep(s, i, f[i - 1])
    BY <1>1 DEF step
  <2>2. \A i \in 0..n : i # 0 => i \in 1..n
    BY <1>1
  <2> QED
    BY <1>4, <2>1, <2>2 DEF Iterates
<1>6. Sanitized(s) = CHOOSE g : g = [i \in 0..n |-> IF i = 0 THEN base
                                                     ELSE LoopStep(s, i, g[i - 1])]
  BY DEF Sanitized, LoopStep, base, n
<1>7. Sanitized(s) = [i \in 0..n |-> IF i = 0 THEN base
                                      ELSE LoopStep(s, i, Sanitized(s)[i - 1])]
  BY <1>5, <1>6
<1> DEFINE F == Sanitized(s)
<1> HIDE DEF F
<1>8. F[0] = base /\ \A i \in 1..n : F[i] = LoopStep(s, i, F[i - 1])
  <2>1. F = [i \in 0..n |-> IF i = 0 THEN base ELSE LoopStep(s, i, F[i - 1])]
    BY <1>7 DEF F
  <2>2. 0 \in 0..n /\ \A i \in 1..n : i \in 0..n /\ i # 0
    BY <1>1
  <2> QED
    BY <2>1, <2>2
<1>9. \A i \in 1..n : F[i - 1] \in Loops => F[i] \in Loops
  BY <1>8, LoopTyped DEF n
<1>10. \A i \in 0..n : F[i] \in Loops
  BY <1>1, <1>2, <1>8, <1>9, StaysIn
<1>11. F \in [0..n -> Loops]
  <2>1. F = [i \in 0..n |-> F[i]]
    BY <1>7 DEF F
  <2> QED
    BY <2>1, <1>10
<1> QED
  BY <1>8, <1>11 DEF F, n, base

Terminals == [state : {"text", "escape", "control", "command", "ending", "charset"},
              shown : Seq(Kept)]

\* A byte takes the terminal from a state to a state.
LEMMA ShowsTyped ==
  ASSUME NEW t \in Terminals, NEW b
  PROVE  Shows(t, b) \in Terminals
<1>1. t.shown \in Seq(Kept)
  BY DEF Terminals
<1>2. b \in Kept => Append(t.shown, b) \in Seq(Kept)
  BY <1>1, AppendProperties
<1>3. b \in Kept => [t EXCEPT !.shown = Append(@, b)] \in Terminals
  BY <1>2 DEF Terminals
<1>4. \A state \in {"text", "escape", "control", "command", "ending", "charset"} :
        [t EXCEPT !.state = state] \in Terminals
  BY DEF Terminals
<1>5. t.state \in {"text", "escape", "control", "command", "ending", "charset"}
  BY DEF Terminals
<1> QED
  BY <1>3, <1>4, <1>5 DEF Shows

\* Terminal is the automaton that its definition says.
LEMMA TerminalSteps ==
  ASSUME NEW s \in Seq(LineBytes)
  PROVE  /\ Terminal(s) \in [0..Len(s) -> Terminals]
         /\ Terminal(s)[0] = [state |-> "text", shown |-> <<>>]
         /\ \A i \in 1..Len(s) : Terminal(s)[i] = Shows(Terminal(s)[i - 1], s[i])
<1> DEFINE n == Len(s)
           base == [state |-> "text", shown |-> <<>>]
           step == [i \in 1..n |-> [t \in Terminals |-> Shows(t, s[i])]]
<1>1. n \in Nat
  BY LenProperties
<1>2. base \in Terminals
  BY DEF Terminals
<1>3. step \in [1..n -> [Terminals -> Terminals]]
  BY ShowsTyped
<1> HIDE DEF base, step, n
<1>4. PICK f \in [0..n -> Terminals] : Iterates(f, n, base, step)
  BY <1>1, <1>2, <1>3, Iteration
<1>5. f = [i \in 0..n |-> IF i = 0 THEN base ELSE Shows(f[i - 1], s[i])]
  <2>1. \A i \in 1..n : step[i][f[i - 1]] = Shows(f[i - 1], s[i])
    BY <1>1 DEF step
  <2>2. \A i \in 0..n : i # 0 => i \in 1..n
    BY <1>1
  <2> QED
    BY <1>4, <2>1, <2>2 DEF Iterates
<1>6. Terminal(s) = CHOOSE g : g = [i \in 0..n |-> IF i = 0 THEN base
                                                    ELSE Shows(g[i - 1], s[i])]
  BY DEF Terminal, base, n
<1> DEFINE F == Terminal(s)
<1>7. F = [i \in 0..n |-> IF i = 0 THEN base ELSE Shows(F[i - 1], s[i])]
  BY <1>5, <1>6
<1> HIDE DEF F
<1>8. F[0] = base /\ \A i \in 1..n : F[i] = Shows(F[i - 1], s[i])
  <2>1. 0 \in 0..n /\ \A i \in 1..n : i \in 0..n /\ i # 0
    BY <1>1
  <2> QED
    BY <1>7, <2>1
<1>9. \A i \in 1..n : F[i - 1] \in Terminals => F[i] \in Terminals
  BY <1>8, ShowsTyped
<1>10. \A i \in 0..n : F[i] \in Terminals
  BY <1>1, <1>2, <1>8, <1>9, StaysIn
<1>11. F \in [0..n -> Terminals]
  <2>1. F = [i \in 0..n |-> F[i]]
    BY <1>7
  <2> QED
    BY <2>1, <1>10
<1> QED
  BY <1>8, <1>11 DEF F, n, base

\* Behind the next byte, the loop and the automaton still agree.
LEMMA BetweenStep ==
  ASSUME NEW s \in Seq(LineBytes), NEW i \in 1..Len(s), Between(s, i - 1)
  PROVE  Between(s, i)
<1> DEFINE u == Terminal(s)[i - 1]
           v == Terminal(s)[i]
           a == Sanitized(s)[i - 1]
           b == Sanitized(s)[i]
           Agree == b.kept = v.shown
           text0 == v.state = "text" => b.next = i + 1
           escape == v.state = "escape" => i > 0 /\ s[i] = "ESC" /\ b.next = SkipEscape(s, i)
           control == v.state = "control" => b.next = SkipCSI(s, i + 1)
           command == v.state = "command" => b.next = SkipOSC(s, i + 1)
           ending == v.state = "ending" => i > 0 /\ s[i] = "ESC" /\ b.next = SkipOSC(s, i)
           charset == v.state = "charset" => b.next = i + 2
<1>1. Len(s) \in Nat /\ i \in Nat /\ i > 0 /\ (i - 1) + 1 = i /\ (i - 1) + 2 = i + 1
      /\ i - 1 \in 0..Len(s) /\ i \in 0..Len(s)
  BY LenProperties
<1>2. u \in Terminals /\ v = Shows(u, s[i]) /\ a \in Loops /\ b = LoopStep(s, i, a)
  BY <1>1, SanitizedSteps, TerminalSteps
<1>3. /\ a.kept = u.shown
      /\ u.state = "text" => a.next = i
      /\ u.state = "escape" => i > 1 /\ s[i - 1] = "ESC" /\ a.next = SkipEscape(s, i - 1)
      /\ u.state = "control" => a.next = SkipCSI(s, i)
      /\ u.state = "command" => a.next = SkipOSC(s, i)
      /\ u.state = "ending" => i > 1 /\ s[i - 1] = "ESC" /\ a.next = SkipOSC(s, i - 1)
      /\ u.state = "charset" => a.next = i + 1
  BY <1>1 DEF Between
<1>4. SUFFICES Agree /\ text0 /\ escape /\ control /\ command /\ ending /\ charset
  BY DEF Between
<1> HIDE DEF u, v, a, b
<1>5. u.state \in {"text", "escape", "control", "command", "ending", "charset"}
      /\ \A state \in {"text", "escape", "control", "command", "ending", "charset"} :
           /\ [u EXCEPT !.state = state].state = state
           /\ [u EXCEPT !.state = state].shown = u.shown
  BY <1>2 DEF Terminals
<1>6. CASE u.state = "text"
  <2>1. a.next = i /\ ~(i < a.next)
    BY <1>1, <1>3, <1>6
  <2>2. CASE s[i] = "ESC"
    <3>1. v.state = "escape" /\ v.shown = u.shown
      BY <1>2, <1>5, <1>6, <2>2 DEF Shows
    <3>2. b.next = SkipEscape(s, i) /\ b.kept = a.kept
      BY <1>2, <2>1, <2>2 DEF LoopStep, Loops
    <3> QED
      BY <3>1, <3>2, <1>1, <1>3, <2>2
  <2>3. CASE s[i] # "ESC"
    <3>1. v.state = "text" /\ v.shown = IF s[i] \in Kept THEN Append(u.shown, s[i]) ELSE u.shown
      BY <1>2, <1>6, <2>3 DEF Shows, Terminals
    <3>2. b.next = i + 1 /\ b.kept = IF s[i] \in Kept THEN Append(a.kept, s[i]) ELSE a.kept
      BY <1>2, <2>1, <2>3 DEF LoopStep
    <3> QED
      BY <3>1, <3>2, <1>3
  <2> QED
    BY <2>2, <2>3
<1>7. ASSUME i < a.next, v.shown = u.shown
      PROVE  b = a /\ Agree
  BY <1>2, <1>3, <1>7 DEF LoopStep
<1>8. CASE u.state = "escape"
  <2>1. /\ v.shown = u.shown
        /\ v.state = CASE s[i] = "[" -> "control" [] s[i] = "]" -> "command"
                       [] s[i] = "(" -> "charset" [] OTHER -> "text"
    BY <1>2, <1>5, <1>8 DEF Shows
  <2>2. i - 1 \in 1..Len(s) /\ i - 1 < Len(s) /\ a.next = SkipEscape(s, i - 1)
        /\ (i - 1) + 1 = i /\ (i - 1) + 2 = i + 1 /\ (i - 1) + 3 = i + 2
    BY <1>1, <1>3, <1>8
  <2>3. i < a.next
    BY <1>1, <2>2, SkipEscapeForward
  <2>4. b = a /\ Agree
    BY <1>7, <2>1, <2>3
  <2>5. a.next = CASE s[i] = "[" -> SkipCSI(s, i + 1) [] s[i] = "]" -> SkipOSC(s, i + 1)
                   [] s[i] = "(" -> i + 2 [] OTHER -> i + 1
    BY <2>2 DEF SkipEscape
  <2> QED
    BY <2>1, <2>4, <2>5
<1>9. CASE u.state = "control"
  <2>1. v.shown = u.shown /\ v.state = IF EndsControl(s, i) THEN "text" ELSE "control"
    BY <1>2, <1>5, <1>9 DEF Shows, EndsControl
  <2>2. a.next = SkipCSI(s, i) /\ a.next \in i + 1 .. Len(s) + 2
        /\ a.next = IF EndsControl(s, i) THEN i + 1 ELSE SkipCSI(s, i + 1)
    BY <1>1, <1>3, <1>9, SkipCSIStep
  <2>3. b = a /\ Agree
    BY <1>1, <1>7, <2>1, <2>2
  <2> QED
    BY <2>1, <2>2, <2>3
<1>10. /\ SkipOSC(s, i) \in i + 1 .. Len(s) + 2
       /\ SkipOSC(s, i) = IF ~EndsCommand(s, i) THEN SkipOSC(s, i + 1)
                          ELSE IF s[i] = "ESC" THEN i + 2 ELSE i + 1
  BY <1>1, SkipOSCStep
<1>11. CASE u.state = "command"
  <2>1. /\ v.shown = u.shown
        /\ v.state = CASE s[i] = "BEL" -> "text" [] s[i] = "ESC" -> "ending" [] OTHER -> "command"
    BY <1>2, <1>5, <1>11 DEF Shows
  <2>2. a.next = SkipOSC(s, i)
    BY <1>3, <1>11
  <2>3. b = a /\ Agree
    BY <1>1, <1>7, <1>10, <2>1, <2>2
  <2> QED
    BY <1>1, <1>10, <2>1, <2>2, <2>3 DEF EndsCommand
<1>12. CASE u.state = "ending"
  <2>1. /\ v.shown = u.shown
        /\ v.state = CASE s[i] \in {"BEL", "\\"} -> "text" [] s[i] = "ESC" -> "ending"
                       [] OTHER -> "command"
    BY <1>2, <1>5, <1>12 DEF Shows
  <2>2. a.next = SkipOSC(s, i - 1) /\ i - 1 \in 1..Len(s) /\ i - 1 < Len(s)
        /\ s[i - 1] = "ESC" /\ (i - 1) + 1 = i /\ (i - 1) + 2 = i + 1
    BY <1>1, <1>3, <1>12
  <2>3. SkipOSC(s, i - 1) = IF ~EndsCommand(s, i - 1) THEN SkipOSC(s, i) ELSE i + 1
    <3>1. i - 1 \in 1 .. Len(s) + 1 /\ i - 1 <= Len(s)
      BY <1>1, <2>2
    <3> QED
      BY <2>2, <3>1, SkipOSCStep
  <2>4. EndsCommand(s, i - 1) <=> s[i] = "\\"
    BY <2>2 DEF EndsCommand
  <2>5. i < a.next
    BY <1>1, <1>10, <2>2, <2>3
  <2>6. b = a /\ Agree
    BY <1>7, <2>1, <2>5
  <2>7. s[i] # "\\" => a.next = SkipOSC(s, i)
    BY <2>2, <2>3, <2>4
  <2>8. s[i] = "\\" => a.next = i + 1
    BY <2>2, <2>3, <2>4
  <2> QED
    BY <1>1, <1>10, <2>1, <2>6, <2>7, <2>8 DEF EndsCommand
<1>13. CASE u.state = "charset"
  <2>1. v.shown = u.shown /\ v.state = "text"
    BY <1>2, <1>5, <1>13 DEF Shows
  <2>2. a.next = i + 1 /\ i < a.next
    BY <1>1, <1>3, <1>13
  <2>3. b = a /\ Agree
    BY <1>7, <2>1, <2>2
  <2> QED
    BY <2>1, <2>2, <2>3
<1> QED
  BY <1>5, <1>6, <1>8, <1>9, <1>11, <1>12, <1>13

\* What sanitizeLine keeps of a line is what a terminal shows of it.
LEMMA SanitizedIsShown ==
  ASSUME NEW s \in Seq(LineBytes)
  PROVE  SanitizeLine(s) = ShownOf(s) /\ SanitizeLine(s) \in Seq(Kept)
<1> DEFINE Good == {i \in Nat : Between(s, i)}
<1>1. Len(s) \in Nat
  BY LenProperties
<1>2. 0 \in Good
  BY SanitizedSteps, TerminalSteps DEF Between
<1>3. ASSUME NEW i \in 0 .. Len(s) - 1, i \in Good
      PROVE  i + 1 \in Good
  <2>1. i + 1 \in 1..Len(s) /\ (i + 1) - 1 = i /\ i + 1 \in Nat
    BY <1>1
  <2> QED
    BY <1>3, <2>1, BetweenStep
<1>4. Len(s) \in Good
  <2> HIDE DEF Good
  <2>1. 0..Len(s) \subseteq Good
    BY <1>1, <1>2, <1>3, AllNumbers
  <2> QED
    BY <1>1, <2>1
<1>5. Sanitized(s)[Len(s)].kept = Terminal(s)[Len(s)].shown
  BY <1>4 DEF Between
<1>6. Sanitized(s)[Len(s)].kept \in Seq(Kept)
  <2>1. Sanitized(s)[Len(s)] \in Loops
    BY <1>1, SanitizedSteps
  <2> QED
    BY <2>1 DEF Loops
<1> QED
  BY <1>5, <1>6 DEF SanitizeLine, ShownOf

-----------------------------------------------------------------------------
(* Empty lines in the output.                                              *)

\* EmptyLineAt and NoEmptyRuns of any output.
EmptyAt(o, i) == o[i] = "NL" /\ (i = 1 \/ o[i - 1] = "NL")
NoRuns(o) == \A i \in 1 .. Len(o) - 1 : ~(EmptyAt(o, i) /\ EmptyAt(o, i + 1))
EndsEmpty(o) == o # <<>> /\ EmptyAt(o, Len(o))

\* The visible bytes of a line, or some of them, neither are nor follow an empty
\* line that was not there.
LEMMA VisibleAppended ==
  ASSUME NEW o \in Seq(Output), NEW s \in Seq(Kept), NoRuns(o)
  PROVE  /\ o \o s \in Seq(Output) /\ NoRuns(o \o s)
         /\ s = <<>> => o \o s = o
         /\ s # <<>> => ~EndsEmpty(o \o s)
<1> DEFINE m == Len(o)
           n == Len(s)
           p == o \o s
<1>1. m \in Nat /\ n \in Nat /\ s \in Seq(Output)
  BY LenProperties DEF Output
<1>2. /\ p \in Seq(Output) /\ Len(p) = m + n
      /\ \A i \in 1 .. m + n : p[i] = IF i <= m THEN o[i] ELSE s[i - m]
  BY <1>1, ConcatProperties
<1>3. s = <<>> => p = o
  BY ConcatEmptySeq
<1>4. \A i \in 1..n : s[i] # "NL"
  BY ElementOfSeq DEF Kept
<1> HIDE DEF p, m, n
<1>5. \A i \in m + 1 .. m + n : p[i] # "NL"
  <2> SUFFICES ASSUME NEW i \in m + 1 .. m + n
               PROVE  p[i] # "NL"
    OBVIOUS
  <2>1. i - m \in 1..n /\ i \in 1 .. m + n /\ ~(i <= m)
    BY <1>1
  <2> QED
    BY <1>2, <1>4, <2>1
<1>6. NoRuns(p)
  <2> SUFFICES ASSUME NEW i \in 1 .. Len(p) - 1, EmptyAt(p, i), EmptyAt(p, i + 1)
               PROVE  FALSE
    BY DEF NoRuns
  <2>1. p[i] = "NL" /\ p[i + 1] = "NL" /\ (i = 1 \/ p[i - 1] = "NL")
    BY DEF EmptyAt
  <2>2. i \in 1 .. m + n /\ i + 1 \in 1 .. m + n
    BY <1>1, <1>2
  <2>3. i <= m /\ i + 1 <= m
    BY <1>1, <1>5, <2>1, <2>2
  <2>4. o[i] = "NL" /\ o[i + 1] = "NL" /\ (i = 1 \/ o[i - 1] = "NL")
    BY <1>1, <1>2, <2>1, <2>2, <2>3
  <2>5. i \in 1 .. m - 1 /\ (i + 1) - 1 = i
    BY <1>1, <2>3
  <2> QED
    BY <2>4, <2>5 DEF NoRuns, EmptyAt, m
<1>7. s # <<>> => ~EndsEmpty(p)
  <2> SUFFICES ASSUME s # <<>>
               PROVE  ~EndsEmpty(p)
    OBVIOUS
  <2>1. n # 0
    BY EmptySeq DEF n
  <2>2. Len(p) \in m + 1 .. m + n
    BY <1>1, <1>2, <2>1
  <2> QED
    BY <1>5, <2>2 DEF EndsEmpty, EmptyAt
<1> QED
  BY <1>2, <1>3, <1>6, <1>7 DEF p

\* A line end makes no run behind an output that does not end in an empty line,
\* and no empty line behind a visible byte.
LEMMA NewlineAppended ==
  ASSUME NEW o \in Seq(Output), NoRuns(o), ~EndsEmpty(o)
  PROVE  /\ Append(o, "NL") \in Seq(Output) /\ NoRuns(Append(o, "NL"))
         /\ o # <<>> /\ o[Len(o)] # "NL" => ~EndsEmpty(Append(o, "NL"))
<1> DEFINE m == Len(o)
           p == Append(o, "NL")
<1>1. m \in Nat /\ p \in Seq(Output) /\ Len(p) = m + 1 /\ p[m + 1] = "NL"
      /\ \A i \in 1..m : p[i] = o[i]
  BY AppendProperties, LenProperties DEF Output
<1> HIDE DEF p, m
<1>2. NoRuns(p)
  <2> SUFFICES ASSUME NEW i \in 1 .. Len(p) - 1, EmptyAt(p, i), EmptyAt(p, i + 1)
               PROVE  FALSE
    BY DEF NoRuns
  <2>1. i \in 1..m /\ EmptyAt(o, i)
    <3>1. i \in 1..m /\ (i # 1 => i - 1 \in 1..m)
      BY <1>1
    <3> QED
      BY <1>1, <3>1 DEF EmptyAt
  <2>2. CASE i = m
    <3>1. o # <<>>
      BY <1>1, <2>1, EmptySeq DEF m
    <3> QED
      BY <2>1, <2>2, <3>1 DEF EndsEmpty, m
  <2>3. CASE i # m
    <3>1. i \in 1 .. m - 1 /\ i + 1 \in 1..m /\ (i + 1) - 1 = i
      BY <1>1, <2>1, <2>3
    <3>2. EmptyAt(o, i + 1)
      BY <1>1, <2>1, <3>1 DEF EmptyAt
    <3> QED
      BY <2>1, <3>1, <3>2 DEF NoRuns, m
  <2> QED
    BY <2>2, <2>3
<1>3. ASSUME o # <<>>, o[m] # "NL"
      PROVE  ~EndsEmpty(p)
  <2>1. m # 0
    BY <1>3, EmptySeq DEF m
  <2>2. m \in 1..m /\ m + 1 # 1 /\ (m + 1) - 1 = m
    BY <1>1, <2>1
  <2> QED
    BY <1>1, <1>3, <2>2 DEF EndsEmpty, EmptyAt
<1> QED
  BY <1>1, <1>2, <1>3 DEF p, m

\* Whatever becomes of a write, emitLine leaves no two empty lines, and blank
\* set behind one.
LEMMA EmitLeavesNoRuns ==
  ASSUME TypeInv, NoEmptyRuns, BlankInv, NEW s \in Seq(Kept), EmitLine(s)
  PROVE  /\ out' \in Seq(Output) /\ blank' \in BOOLEAN /\ failures' \in Nat
         /\ NoEmptyRuns' /\ BlankInv'
<1>1. out \in Seq(Output) /\ blank \in BOOLEAN /\ failures \in Nat /\ NoRuns(out)
      /\ (~blank => ~EndsEmpty(out))
  BY DEF TypeInv, NoEmptyRuns, BlankInv, NoRuns, EndsEmpty, EmptyAt, EmptyLineAt
<1>2. SUFFICES /\ out' \in Seq(Output) /\ blank' \in BOOLEAN /\ failures' \in Nat
               /\ NoRuns(out') /\ (~blank' => ~EndsEmpty(out'))
  BY DEF NoEmptyRuns, BlankInv, NoRuns, EndsEmpty, EmptyAt, EmptyLineAt
<1>3. CASE ~HasVisibleContent(s) /\ blank' = TRUE /\ failures' = failures
           /\ out' = IF blank THEN out ELSE Append(out, "NL")
  BY <1>1, <1>3, NewlineAppended
<1>4. CASE HasVisibleContent(s) /\ blank' = FALSE /\ failures' = failures
           /\ out' = Append(out \o s, "NL")
  <2>1. s # <<>>
    BY <1>4 DEF HasVisibleContent
  <2>2. out \o s \in Seq(Output) /\ NoRuns(out \o s) /\ ~EndsEmpty(out \o s)
    BY <1>1, <2>1, VisibleAppended
  <2>3. out \o s # <<>> /\ (out \o s)[Len(out \o s)] # "NL"
    <3>1. Len(s) \in Nat /\ Len(s) # 0 /\ Len(out) \in Nat
      BY <1>1, <2>1, LenProperties, EmptySeq
    <3>2. Len(out \o s) = Len(out) + Len(s)
          /\ (out \o s)[Len(out) + Len(s)] = s[Len(s)]
      BY <1>1, <3>1, ConcatProperties
    <3>3. s[Len(s)] \in Kept
      BY <3>1, ElementOfSeq
    <3> QED
      BY <3>1, <3>2, <3>3, EmptySeq DEF Kept
  <2> QED
    BY <1>1, <1>4, <2>2, <2>3, NewlineAppended
<1>5. ASSUME HasVisibleContent(s) \/ ~blank, failures' = failures + 1,
             blank' = (IF HasVisibleContent(s) THEN BlankAfterFailedLine ELSE TRUE),
             NEW n \in 0 .. (IF HasVisibleContent(s) THEN Len(s) ELSE 0),
             out' = out \o SubSeq(s, 1, n)
      PROVE  /\ out' \in Seq(Output) /\ blank' \in BOOLEAN /\ failures' \in Nat
             /\ NoRuns(out') /\ (~blank' => ~EndsEmpty(out'))
  <2>1. n \in 0..Len(s) /\ Len(s) \in Nat
    BY LenProperties
  <2>2. SubSeq(s, 1, n) \in Seq(Kept)
    BY <2>1, SubSeqProperties
  <2>3. /\ out' \in Seq(Output) /\ NoRuns(out')
        /\ ~EndsEmpty(out) => ~EndsEmpty(out')
    BY <1>1, <1>5, <2>2, VisibleAppended
  <2>4. failures' \in Nat
    BY <1>1, <1>5
  <2>5. CASE HasVisibleContent(s)
    <3>1. blank' = blank
      BY <1>5, <2>5 DEF BlankAfterFailedLine
    <3> QED
      BY <1>1, <2>3, <2>4, <3>1
  <2>6. CASE ~HasVisibleContent(s)
    <3>1. blank' = TRUE
      BY <1>5, <2>6
    <3> QED
      BY <2>3, <2>4, <3>1
  <2> QED
    BY <2>5, <2>6
<1> QED
  BY <1>3, <1>4, <1>5 DEF EmitLine

-----------------------------------------------------------------------------
(* Lines of a text that grows.                                             *)

\* A byte that ends a line of the text before it.
EndsLine(t, b) == b = "CR" \/ (b = "LF" /\ ~(t # <<>> /\ t[Len(t)] = "CR"))

\* Another byte at the end of a text changes nothing before it.
LEMMA TextGrows ==
  ASSUME NEW t \in Seq(Bytes), NEW b \in Bytes
  PROVE  /\ Len(t) \in Nat /\ Append(t, b) \in Seq(Bytes) /\ Append(t, b) # <<>>
         /\ Len(Append(t, b)) = Len(t) + 1 /\ Append(t, b)[Len(t) + 1] = b
         /\ \A i \in 1..Len(t) : Append(t, b)[i] = t[i]
         /\ DOMAIN t = 1..Len(t) /\ DOMAIN Append(t, b) = 1 .. Len(t) + 1
         /\ t # <<>> <=> Len(t) > 0
<1>1. Len(t) \in Nat
  BY LenProperties
<1>2. /\ Append(t, b) \in Seq(Bytes) /\ Append(t, b) # <<>>
      /\ Len(Append(t, b)) = Len(t) + 1 /\ Append(t, b)[Len(t) + 1] = b
      /\ \A i \in 1..Len(t) : Append(t, b)[i] = t[i]
  BY AppendProperties
<1>3. DOMAIN t = 1..Len(t) /\ DOMAIN Append(t, b) = 1 .. Len(t) + 1
  BY <1>2, LenProperties
<1>4. t # <<>> <=> Len(t) > 0
  BY <1>1, EmptySeq
<1> QED
  BY <1>1, <1>2, <1>3, <1>4

\* Its line ends stay, and the new byte may be another one.
LEMMA LineEndsGrow ==
  ASSUME NEW t \in Seq(Bytes), NEW b \in Bytes
  PROVE  /\ LineEnds(t) \subseteq 1..Len(t)
         /\ LineEnds(Append(t, b)) = IF EndsLine(t, b) THEN LineEnds(t) \cup {Len(t) + 1}
                                     ELSE LineEnds(t)
<1> DEFINE n == Len(t)
           u == Append(t, b)
<1>1. /\ n \in Nat /\ u[n + 1] = b /\ (\A i \in 1..n : u[i] = t[i])
      /\ DOMAIN t = 1..n /\ DOMAIN u = 1 .. n + 1
      /\ t # <<>> <=> n > 0
  BY TextGrows
<1>2. EndsLine(t, b) <=> b = "CR" \/ (b = "LF" /\ ~(n > 0 /\ t[n] = "CR"))
  BY <1>1 DEF EndsLine
<1> HIDE DEF n, u
<1>3. LineEnds(t) \subseteq 1..n
  BY <1>1 DEF LineEnds
<1>4. ASSUME NEW i \in 1..n
      PROVE  i \in LineEnds(u) <=> i \in LineEnds(t)
  <2>1. i \in 1 .. n + 1 /\ (i > 1 => i - 1 \in 1..n)
    BY <1>1
  <2> QED
    BY <1>1, <2>1 DEF LineEnds
<1>5. n + 1 \in LineEnds(u) <=> EndsLine(t, b)
  <2>1. n + 1 \in 1 .. n + 1 /\ (n + 1) - 1 = n /\ (n + 1 > 1 <=> n > 0) /\ (n > 0 => n \in 1..n)
    BY <1>1
  <2> QED
    BY <1>1, <1>2, <2>1 DEF LineEnds
<1>6. \A i \in LineEnds(u) : i \in 1..n \/ i = n + 1
  BY <1>1 DEF LineEnds
<1>7. n + 1 \notin LineEnds(t)
  BY <1>1, <1>3
<1>8. CASE EndsLine(t, b)
  <2>1. \A i : i \in LineEnds(u) <=> i \in LineEnds(t) \cup {n + 1}
    BY <1>3, <1>4, <1>5, <1>6, <1>8
  <2> QED
    BY <2>1, <1>3, <1>8 DEF n, u
<1>9. CASE ~EndsLine(t, b)
  <2>1. \A i : i \in LineEnds(u) <=> i \in LineEnds(t)
    BY <1>3, <1>4, <1>5, <1>6, <1>9
  <2> QED
    BY <2>1, <1>3, <1>9 DEF n, u
<1> QED
  BY <1>8, <1>9

LastEnd(t, end) == Max(EndsBefore(t, end) \cup {0})

\* The last line end before a position, or 0.
LEMMA LastEndBefore ==
  ASSUME NEW t \in Seq(Bytes), NEW end \in 1 .. Len(t) + 2
  PROVE  /\ LastEnd(t, end) \in 0 .. end - 1
         /\ LastEnd(t, end) = 0 \/ LastEnd(t, end) \in LineEnds(t)
         /\ \A k \in LineEnds(t) : k < end => k <= LastEnd(t, end)
<1> DEFINE T == EndsBefore(t, end) \cup {0}
<1>1. Len(t) \in Nat /\ LineEnds(t) \subseteq 1..Len(t) /\ end - 1 \in Nat
  BY LineEndsGrow, LenProperties DEF Bytes, LineEnds
<1>2. T \in SUBSET (0 .. end - 1) /\ T # {}
  <2>1. \A k \in T : k \in 0 .. end - 1
    BY <1>1 DEF EndsBefore
  <2> QED
    BY <2>1
<1>3. Max(T) \in T /\ \A k \in T : Max(T) >= k
  BY <1>1, <1>2, GreatestNumber
<1>4. LastEnd(t, end) = Max(T)
  BY DEF LastEnd
<1> HIDE DEF T
<1>5. LastEnd(t, end) \in T /\ LastEnd(t, end) \in 0 .. end - 1
      /\ \A k \in T : LastEnd(t, end) >= k
  BY <1>2, <1>3, <1>4
<1>6. \A k \in LineEnds(t) : k < end => k \in T
  BY DEF T, EndsBefore
<1>7. \A k \in LineEnds(t) : k < end => k <= LastEnd(t, end)
  BY <1>1, <1>5, <1>6
<1> QED
  BY <1>5, <1>7 DEF T, EndsBefore

\* The position of the first byte of that line.
Start(t, end) ==
  LET first == 1 + LastEnd(t, end)
  IN  IF first < end /\ t[first] = "LF" THEN first + 1 ELSE first

IsLine(t, end) ==
  /\ Start(t, end) \in 1..end
  /\ LineOf(t, end) = SubSeq(t, Start(t, end), end - 1)
  /\ LineOf(t, end) \in Seq(LineBytes)
  /\ Len(LineOf(t, end)) = end - Start(t, end)

\* A line has neither CR nor LF: of the text's they would have ended it earlier,
\* but for the LF of a CR LF, which is passed over.
LEMMA LineTyped ==
  ASSUME NEW t \in Seq(Bytes), NEW end \in 1 .. Len(t) + 1
  PROVE  IsLine(t, end)
<1> DEFINE last == LastEnd(t, end)
           first == 1 + last
           from == Start(t, end)
           l == SubSeq(t, from, end - 1)
<1>1. /\ Len(t) \in Nat /\ end \in Nat /\ last \in 0 .. end - 1 /\ end - 1 <= Len(t)
      /\ \A k \in LineEnds(t) : k < end => k <= last
  <2>1. end \in 1 .. Len(t) + 2 /\ Len(t) \in Nat
    BY LenProperties
  <2> QED
    BY <2>1, LastEndBefore
<1>2. from = IF first < end /\ t[first] = "LF" THEN first + 1 ELSE first
  BY DEF Start
<1>3. LineOf(t, end) = l
  <2>1. LineOf(t, end) = IF first < end /\ t[first] = "LF" THEN SubSeq(t, first + 1, end - 1)
                         ELSE SubSeq(t, first, end - 1)
    BY DEF LineOf, LastEnd
  <2> HIDE DEF last
  <2>2. CASE first < end /\ t[first] = "LF"
    BY <1>2, <2>1, <2>2
  <2>3. CASE ~(first < end /\ t[first] = "LF")
    BY <1>2, <2>1, <2>3
  <2> QED
    BY <2>2, <2>3
<1> HIDE DEF last, from, l
<1>4. from \in 1..end /\ from >= last + 1
  BY <1>1, <1>2
<1>5. /\ l \in Seq(Bytes) /\ Len(l) = end - from
      /\ \A i \in 1 .. end - from : l[i] = t[from + i - 1]
  <2>1. from \in 1 .. Len(t) + 1 /\ end - 1 \in from - 1 .. Len(t)
    BY <1>1, <1>4
  <2>2. (end - 1) - from + 1 = end - from
    BY <1>1, <1>4
  <2> QED
    BY <2>1, <2>2, SubSeqProperties DEF l
<1>6. ASSUME NEW k \in from .. end - 1
      PROVE  t[k] \in LineBytes
  <2>1. k \in 1..Len(t) /\ k \notin LineEnds(t) /\ t[k] \in Bytes /\ DOMAIN t = 1..Len(t)
    <3>1. k \in 1..Len(t) /\ k < end /\ ~(k <= last)
      BY <1>1, <1>4
    <3> QED
      BY <1>1, <3>1, ElementOfSeq, LenProperties
  <2>2. t[k] # "CR" /\ (t[k] = "LF" => k > 1 /\ t[k - 1] = "CR")
    BY <2>1 DEF LineEnds
  <2>3. ASSUME t[k] = "LF"
        PROVE  FALSE
    <3>1. k - 1 \in 1..Len(t) /\ t[k - 1] = "CR"
      BY <2>1, <2>2, <2>3
    <3>2. k - 1 \in LineEnds(t) /\ k - 1 < end
      BY <2>1, <3>1 DEF LineEnds
    <3>3. k = last + 1
      BY <1>1, <1>4, <3>1, <3>2
    <3> QED
      BY <1>1, <1>2, <2>3, <3>3
  <2> QED
    BY <2>1, <2>2, <2>3 DEF LineBytes
<1>7. \A i \in 1..Len(l) : l[i] \in LineBytes
  <2>1. \A i \in 1 .. end - from : from + i - 1 \in from .. end - 1
    BY <1>1, <1>4
  <2> QED
    BY <1>5, <1>6, <2>1
<1>8. l \in Seq(LineBytes)
  BY <1>5, <1>7, SeqDef, LenProperties, IsASeq
<1> QED
  BY <1>3, <1>4, <1>5, <1>8 DEF from, IsLine

\* A line that ended, and the one that is being written, stay what they are.
LEMMA LinesStay ==
  ASSUME NEW t \in Seq(Bytes), NEW b \in Bytes, NEW end \in 1 .. Len(t) + 1
  PROVE  /\ EndsBefore(Append(t, b), end) = EndsBefore(t, end)
         /\ LineOf(Append(t, b), end) = LineOf(t, end)
         /\ BlankAt(Append(t, b), end) <=> BlankAt(t, end)
<1> DEFINE n == Len(t)
           u == Append(t, b)
<1>1. /\ n \in Nat /\ u \in Seq(Bytes) /\ Len(u) = n + 1 /\ (\A i \in 1..n : u[i] = t[i])
  BY TextGrows
<1>2. LineEnds(u) = IF EndsLine(t, b) THEN LineEnds(t) \cup {n + 1} ELSE LineEnds(t)
  BY LineEndsGrow
<1> HIDE DEF u
<1>3. EndsBefore(u, end) = EndsBefore(t, end)
  <2>1. ~(n + 1 < end)
    BY <1>1
  <2>2. \A e : e \in EndsBefore(u, end) <=> e \in EndsBefore(t, end)
    BY <1>2, <2>1 DEF EndsBefore
  <2> QED
    BY <2>2 DEF EndsBefore
<1>4. LastEnd(u, end) = LastEnd(t, end)
  BY <1>3 DEF LastEnd
<1>5. Start(u, end) = Start(t, end)
  <2> DEFINE first == 1 + LastEnd(t, end)
  <2>1. first < end => first \in 1..n
    <3>1. LastEnd(t, end) \in 0 .. end - 1
      <4>1. end \in 1 .. Len(t) + 2
        BY <1>1
      <4> QED
        BY <4>1, LastEndBefore
    <3> QED
      BY <1>1, <3>1
  <2>2. first < end => u[first] = t[first]
    BY <1>1, <2>1
  <2> QED
    BY <1>4, <2>2 DEF Start
<1>6. LineOf(u, end) = LineOf(t, end)
  <2> DEFINE from == Start(t, end)
             l == LineOf(t, end)
             k == LineOf(u, end)
  <2>1. from \in 1..end /\ l = SubSeq(t, from, end - 1)
    BY LineTyped DEF IsLine
  <2>2. k = SubSeq(u, from, end - 1)
    <3>1. end \in 1 .. Len(u) + 1
      BY <1>1
    <3> QED
      BY <1>1, <1>5, <3>1, LineTyped DEF IsLine
  <2> HIDE DEF from, l, k
  <2>3. /\ \A i \in from .. end - 1 : u[i] = t[i]
        /\ end - 1 \in from - 1 .. n /\ end - 1 \in from - 1 .. n + 1
        /\ from \in 1 .. n + 1 /\ from \in 1 .. n + 2
    BY <1>1, <2>1
  <2>4. l = k
    BY <2>1, <2>2, <2>3
  <2> QED
    BY <2>4 DEF l, k
<1> QED
  BY <1>3, <1>6 DEF u, BlankAt

\* A byte ends the line that is being written or is added to it.
LEMMA LineGrows ==
  ASSUME NEW t \in Seq(Bytes), NEW b \in Bytes
  PROVE  /\ LineOf(Append(t, b), Len(t) + 2) =
              IF b \in {"CR", "LF"} THEN <<>> ELSE Append(LineOf(t, Len(t) + 1), b)
         /\ t # <<>> /\ t[Len(t)] = "CR" => LineOf(t, Len(t) + 1) = <<>>
<1> DEFINE n == Len(t)
           u == Append(t, b)
           from == Start(u, n + 2)
           before == Start(t, n + 1)
           k == LineOf(u, n + 2)
           l == LineOf(t, n + 1)
           last == LastEnd(u, n + 2)
           prev == LastEnd(t, n + 1)
<1>1. /\ n \in Nat /\ u \in Seq(Bytes) /\ Len(u) = n + 1 /\ u[n + 1] = b
      /\ (\A i \in 1..n : u[i] = t[i]) /\ (t # <<>> <=> n > 0) /\ DOMAIN t = 1..n
  BY TextGrows
<1>2. /\ LineEnds(t) \subseteq 1..n
      /\ LineEnds(u) = IF EndsLine(t, b) THEN LineEnds(t) \cup {n + 1} ELSE LineEnds(t)
  BY LineEndsGrow
<1>3. /\ before \in 1 .. n + 1 /\ l = SubSeq(t, before, n)
      /\ l \in Seq(LineBytes) /\ Len(l) = n + 1 - before
  <2>1. n + 1 \in 1 .. Len(t) + 1 /\ (n + 1) - 1 = n
    BY <1>1
  <2> QED
    BY <2>1, LineTyped DEF IsLine
<1>4. /\ from \in 1 .. n + 2 /\ k = SubSeq(u, from, n + 1)
      /\ k \in Seq(LineBytes) /\ Len(k) = n + 2 - from
  <2> HIDE DEF u, n
  <2>1. n + 2 \in 1 .. Len(u) + 1 /\ (n + 2) - 1 = n + 1
    BY <1>1
  <2>2. u \in Seq(Bytes)
    BY <1>1
  <2> DEFINE end == n + 2
  <2>3. IsLine(u, end)
    BY <2>1, <2>2, LineTyped
  <2>4. from \in 1..end /\ k = SubSeq(u, from, end - 1) /\ k \in Seq(LineBytes)
        /\ Len(k) = end - from
    <3>1. from = Start(u, end) /\ k = LineOf(u, end)
      OBVIOUS
    <3> HIDE DEF from, k, end
    <3> QED
      BY <2>3, <3>1 DEF IsLine
  <2> HIDE DEF from, k
  <2>5. k = SubSeq(u, from, n + 1)
    BY <2>1, <2>4, Zenon
  <2>6. from \in 1 .. n + 2 /\ k \in Seq(LineBytes)
    BY <2>4, Zenon
  <2>7. Len(k) = n + 2 - from
    <3>1. Len(k) = (n + 2) - from
      BY <2>4, Zenon
    <3> QED
      BY <1>1, <2>6, <3>1
  <2> QED
    BY <2>5, <2>6, <2>7, Zenon
<1>5. /\ last \in 0 .. n + 1 /\ (last = 0 \/ last \in LineEnds(u))
      /\ \A e \in LineEnds(u) : e < n + 2 => e <= last
  <2>1. n + 2 \in 1 .. Len(u) + 2 /\ (n + 2) - 1 = n + 1
    BY <1>1
  <2> QED
    BY <1>1, <2>1, LastEndBefore
<1>6. /\ prev \in 0..n /\ (prev = 0 \/ prev \in LineEnds(t))
      /\ \A e \in LineEnds(t) : e < n + 1 => e <= prev
  <2>1. n + 1 \in 1 .. Len(t) + 2 /\ (n + 1) - 1 = n
    BY <1>1
  <2> QED
    BY <2>1, LastEndBefore
<1>7. from = IF 1 + last < n + 2 /\ u[1 + last] = "LF" THEN (1 + last) + 1 ELSE 1 + last
  BY DEF Start
<1>8. before = IF 1 + prev < n + 1 /\ t[1 + prev] = "LF" THEN (1 + prev) + 1 ELSE 1 + prev
  BY DEF Start
<1> HIDE DEF n, u, from, before, k, l, last, prev
<1>9. n > 0 /\ t[n] = "CR" => prev = n /\ before = n + 1 /\ l = <<>>
  <2> SUFFICES ASSUME n > 0, t[n] = "CR"
               PROVE  prev = n /\ before = n + 1 /\ l = <<>>
    OBVIOUS
  <2>1. n \in LineEnds(t) /\ n < n + 1
    BY <1>1 DEF LineEnds
  <2>2. prev = n
    BY <1>1, <1>6, <2>1
  <2>3. before = n + 1
    BY <1>1, <1>8, <2>2
  <2>4. Len(l) = 0
    BY <1>1, <1>3, <2>3
  <2> QED
    BY <1>3, <2>2, <2>3, <2>4, EmptySeq
<1>10. EndsLine(t, b) <=> b = "CR" \/ (b = "LF" /\ ~(n > 0 /\ t[n] = "CR"))
  BY <1>1 DEF EndsLine, n
<1>11. ASSUME EndsLine(t, b)
       PROVE  k = <<>>
  <2>1. n + 1 \in LineEnds(u) /\ n + 1 < n + 2
    BY <1>1, <1>2, <1>11
  <2>2. last = n + 1
    BY <1>1, <1>5, <2>1
  <2>3. Len(k) = 0
    BY <1>1, <1>4, <1>7, <2>2
  <2> QED
    BY <1>4, <2>3, EmptySeq
<1>12. ASSUME ~EndsLine(t, b)
       PROVE  last = prev
  <2>1. LineEnds(u) = LineEnds(t)
    BY <1>2, <1>12
  <2>2. last <= n
    BY <1>1, <1>2, <1>5, <2>1
  <2>3. prev <= last /\ last <= prev
    <3>1. prev < n + 2 /\ (last < n + 1)
      BY <1>1, <1>6, <1>5, <2>2
    <3> QED
      BY <1>1, <1>5, <1>6, <2>1, <3>1
  <2> QED
    BY <1>5, <1>6, <2>3
<1>13. ASSUME b = "LF", ~EndsLine(t, b)
       PROVE  k = <<>>
  <2>1. n > 0 /\ t[n] = "CR" /\ last = n
    BY <1>9, <1>10, <1>12, <1>13
  <2>2. from = n + 2
    BY <1>1, <1>7, <1>13, <2>1
  <2>3. Len(k) = 0
    BY <1>1, <1>4, <2>2
  <2> QED
    BY <1>4, <2>3, EmptySeq
<1>14. ASSUME b \notin {"CR", "LF"}
       PROVE  k = Append(l, b)
  <2>1. last = prev /\ prev <= n
    BY <1>1, <1>6, <1>10, <1>12, <1>14
  <2>2. from = before
    <3>1. CASE prev = n
      <4>1. u[1 + last] # "LF"
        BY <1>1, <1>14, <2>1, <3>1
      <4> QED
        BY <1>1, <1>7, <1>8, <2>1, <3>1, <4>1
    <3>2. CASE prev # n
      <4>1. 1 + prev \in 1..n /\ u[1 + prev] = t[1 + prev]
        BY <1>1, <1>6, <2>1, <3>2
      <4> QED
        BY <1>1, <1>7, <1>8, <2>1, <4>1
    <3> QED
      BY <3>1, <3>2
  <2>3. Len(k) = Len(l) + 1 /\ Len(l) \in Nat
    BY <1>1, <1>3, <1>4, <2>2
  <2>4. \A i \in 1..Len(l) : l[i] = t[before + i - 1] /\ k[i] = u[before + i - 1]
    <3>1. /\ before \in 1 .. Len(t) + 1 /\ n \in before - 1 .. Len(t)
          /\ before \in 1 .. Len(u) + 1 /\ n + 1 \in before - 1 .. Len(u)
      BY <1>1, <1>3 DEF n
    <3>2. /\ Len(l) = n - before + 1 /\ \A i \in 1 .. n - before + 1 : l[i] = t[before + i - 1]
      BY <1>3, <3>1, SubSeqProperties
    <3>3. \A i \in 1 .. (n + 1) - before + 1 : k[i] = u[before + i - 1]
      BY <1>1, <1>4, <2>2, <3>1, SubSeqProperties
    <3> QED
      BY <1>1, <1>3, <3>2, <3>3
  <2>5. k[Len(l) + 1] = b
    <3>1. before \in 1 .. Len(u) + 1 /\ n + 1 \in before - 1 .. Len(u)
      BY <1>1, <1>3
    <3>2. \A i \in 1 .. (n + 1) - before + 1 : k[i] = u[before + i - 1]
      BY <1>1, <1>4, <2>2, <3>1, SubSeqProperties
    <3>3. Len(l) + 1 \in 1 .. (n + 1) - before + 1 /\ before + (Len(l) + 1) - 1 = n + 1
      BY <1>1, <1>3
    <3> QED
      BY <1>1, <3>2, <3>3
  <2>6. \A i \in 1..Len(l) : k[i] = l[i]
    <3>1. \A i \in 1..Len(l) : before + i - 1 \in 1..n
      BY <1>1, <1>3
    <3> QED
      BY <1>1, <2>4, <3>1
  <2>7. b \in LineBytes
    BY <1>14 DEF LineBytes
  <2>8. /\ Append(l, b) \in Seq(LineBytes) /\ Len(Append(l, b)) = Len(l) + 1
        /\ Append(l, b)[Len(l) + 1] = b /\ \A i \in 1..Len(l) : Append(l, b)[i] = l[i]
    BY <1>3, <2>7, AppendProperties
  <2>9. \A i \in 1..Len(k) : k[i] = Append(l, b)[i]
    <3>1. \A i \in 1..Len(k) : i \in 1..Len(l) \/ i = Len(l) + 1
      BY <2>3
    <3> QED
      BY <2>5, <2>6, <2>8, <3>1
  <2> QED
    BY <1>4, <2>3, <2>8, <2>9, SeqEqual
<1> QED
  BY <1>1, <1>9, <1>11, <1>13, <1>14 DEF n, u, k, l, EndsLine

-----------------------------------------------------------------------------
(* The rendering of a text that grows.                                     *)

\* What a terminal shows of a line is visible.
LEMMA ShownTyped ==
  ASSUME NEW t \in Seq(Bytes), NEW end \in 1 .. Len(t) + 1
  PROVE  ShownOf(LineOf(t, end)) \in Seq(Kept)
<1>1. LineOf(t, end) \in Seq(LineBytes)
  BY LineTyped DEF IsLine
<1> QED
  BY <1>1, SanitizedIsShown

\* What is rendered at a position can be put out.
LEMMA RenderedTyped ==
  ASSUME NEW t \in Seq(Bytes), NEW done, NEW end \in 1 .. Len(t) + 1
  PROVE  Rendered(t, done, end) \in Seq(Output)
<1>1. ShownOf(LineOf(t, end)) \in Seq(Output)
  BY ShownTyped DEF Output
<1>2. Append(ShownOf(LineOf(t, end)), "NL") \in Seq(Output)
  BY <1>1, AppendProperties DEF Output
<1>3. <<>> \in Seq(Output) /\ <<"NL">> \in Seq(Output)
  BY DEF Output
<1> QED
  BY <1>2, <1>3 DEF Rendered

\* RenderedUpTo is the concatenation that its definition says.
LEMMA RenderedSteps ==
  ASSUME NEW t \in Seq(Bytes), NEW done
  PROVE  /\ RenderedUpTo(t, done)[0] = <<>>
         /\ \A i \in 1 .. Len(t) + 1 :
              RenderedUpTo(t, done)[i] = RenderedUpTo(t, done)[i - 1] \o Rendered(t, done, i)
         /\ \A i \in 0 .. Len(t) + 1 : RenderedUpTo(t, done)[i] \in Seq(Output)
<1> DEFINE n == Len(t) + 1
           S == Seq(Output)
           R(i) == Rendered(t, done, i)
           step == [i \in 1..n |-> [o \in S |-> o \o R(i)]]
<1>1. n \in Nat
  BY LenProperties
<1>2. <<>> \in S
  OBVIOUS
<1>3. \A i \in 1..n : R(i) \in S
  BY RenderedTyped
<1> HIDE DEF R
<1>4. \A i \in 1..n : \A o \in S : o \o R(i) \in S
  BY <1>3, ConcatProperties
<1>5. step \in [1..n -> [S -> S]]
  <2> HIDE DEF S, n
  <2> QED
    BY <1>4
<1> HIDE DEF step, n, S
<1>6. PICK f \in [0..n -> S] : Iterates(f, n, <<>>, step)
  BY <1>1, <1>2, <1>5, Iteration
<1>7. f = [i \in 0..n |-> IF i = 0 THEN <<>> ELSE f[i - 1] \o R(i)]
  <2>1. \A i \in 1..n : step[i][f[i - 1]] = f[i - 1] \o R(i)
    <3>1. \A i \in 1..n : f[i - 1] \in S
      <4>1. \A i \in 1..n : i - 1 \in 0..n
        BY <1>1
      <4> QED
        BY <4>1
    <3> QED
      BY <3>1 DEF step
  <2>2. \A i \in 0..n : i # 0 => i \in 1..n
    BY <1>1
  <2> QED
    BY <1>6, <2>1, <2>2 DEF Iterates
<1>8. RenderedUpTo(t, done) = CHOOSE g : g = [i \in 0..n |-> IF i = 0 THEN <<>>
                                                             ELSE g[i - 1] \o R(i)]
  BY DEF RenderedUpTo, n, R
<1> DEFINE F == RenderedUpTo(t, done)
<1>9. F = [i \in 0..n |-> IF i = 0 THEN <<>> ELSE F[i - 1] \o R(i)]
  BY <1>7, <1>8
<1> HIDE DEF F
<1>10. F[0] = <<>> /\ \A i \in 1..n : F[i] = F[i - 1] \o R(i)
  <2>1. 0 \in 0..n /\ \A i \in 1..n : i \in 0..n /\ i # 0
    BY <1>1
  <2> QED
    BY <1>9, <2>1
<1>11. \A i \in 1..n : F[i - 1] \in S => F[i] \in S
  BY <1>4, <1>10
<1>12. \A i \in 0..n : F[i] \in S
  BY <1>1, <1>2, <1>10, <1>11, StaysIn
<1> QED
  BY <1>10, <1>12 DEF F, n, R, S

Alike(t, d, u, e, n) ==
  /\ n \in Nat /\ n <= Len(t) + 1 /\ n <= Len(u) + 1
  /\ \A i \in 1..n : Rendered(t, d, i) = Rendered(u, e, i)

\* Two texts render to the same up to a position up to which each position does.
LEMMA SameUpTo ==
  ASSUME NEW t \in Seq(Bytes), NEW u \in Seq(Bytes), NEW d, NEW e, NEW n,
         Alike(t, d, u, e, n)
  PROVE  RenderedUpTo(t, d)[n] = RenderedUpTo(u, e)[n]
<1> DEFINE F == RenderedUpTo(t, d)
           G == RenderedUpTo(u, e)
           T == {i \in Nat : F[i] = G[i]}
<1>1. /\ Len(t) \in Nat /\ Len(u) \in Nat
      /\ n \in Nat /\ n <= Len(t) + 1 /\ n <= Len(u) + 1
      /\ \A i \in 1..n : Rendered(t, d, i) = Rendered(u, e, i)
  BY LenProperties DEF Alike
<1>2. /\ F[0] = <<>> /\ G[0] = <<>>
      /\ \A i \in 1 .. Len(t) + 1 : F[i] = F[i - 1] \o Rendered(t, d, i)
      /\ \A i \in 1 .. Len(u) + 1 : G[i] = G[i - 1] \o Rendered(u, e, i)
  BY RenderedSteps
<1> HIDE DEF F, G
<1>3. 0 \in T
  BY <1>2
<1>4. ASSUME NEW i \in 0 .. n - 1, i \in T
      PROVE  i + 1 \in T
  <2>1. i + 1 \in 1 .. Len(t) + 1 /\ i + 1 \in 1 .. Len(u) + 1 /\ i + 1 \in 1..n
        /\ (i + 1) - 1 = i /\ i + 1 \in Nat
    BY <1>1
  <2>2. F[i + 1] = F[i] \o Rendered(t, d, i + 1) /\ G[i + 1] = G[i] \o Rendered(u, e, i + 1)
    BY <1>2, <2>1
  <2> QED
    BY <1>1, <1>4, <2>1, <2>2
<1>5. n \in T
  <2> HIDE DEF T
  <2>1. 0..n \subseteq T
    BY <1>1, <1>3, <1>4, AllNumbers
  <2> QED
    BY <1>1, <2>1
<1> QED
  BY <1>5 DEF F, G

\* The last line end before a position is one of them.
LEMMA GreatestEnd ==
  ASSUME NEW t \in Seq(Bytes), NEW end, EndsBefore(t, end) # {}
  PROVE  /\ Max(EndsBefore(t, end)) \in EndsBefore(t, end)
         /\ Max(EndsBefore(t, end)) \in 1..Len(t)
<1>1. Len(t) \in Nat /\ LineEnds(t) \subseteq 1..Len(t)
  BY LenProperties DEF LineEnds
<1>2. EndsBefore(t, end) \in SUBSET (0..Len(t)) /\ EndsBefore(t, end) \subseteq 1..Len(t)
  BY <1>1 DEF EndsBefore
<1> QED
  BY <1>1, <1>2, GreatestNumber

\* What the line that is being written adds to the rendering when it ends.
Piece(t) ==
  LET end == Len(t) + 1
  IN  IF ~BlankAt(t, end) THEN Append(ShownOf(LineOf(t, end)), "NL")
      ELSE IF LineEnds(t) # {} /\ BlankAt(t, Max(LineEnds(t))) THEN <<>>
      ELSE <<"NL">>

\* All line ends of a text are before the line that is being written.
LEMMA EndsBeforeLast ==
  ASSUME NEW t \in Seq(Bytes)
  PROVE  EndsBefore(t, Len(t) + 1) = LineEnds(t) /\ Len(t) + 1 \notin LineEnds(t)
<1>1. Len(t) \in Nat /\ LineEnds(t) \subseteq 1..Len(t)
  BY LenProperties DEF LineEnds
<1> QED
  BY <1>1 DEF EndsBefore

\* A new byte changes nothing that is rendered before it.
LEMMA RenderedStays ==
  ASSUME NEW t \in Seq(Bytes), NEW b \in Bytes, NEW i \in 1..Len(t)
  PROVE  Rendered(Append(t, b), FALSE, i) = Rendered(t, FALSE, i)
<1> DEFINE u == Append(t, b)
<1>1. Len(t) \in Nat /\ i \in 1 .. Len(t) + 1 /\ i # Len(t) + 1
  BY LenProperties
<1>2. i \in LineEnds(u) <=> i \in LineEnds(t)
  BY <1>1, LineEndsGrow
<1>3. /\ EndsBefore(u, i) = EndsBefore(t, i) /\ LineOf(u, i) = LineOf(t, i)
      /\ BlankAt(u, i) <=> BlankAt(t, i)
  BY <1>1, LinesStay
<1>4. EndsBefore(t, i) # {} =>
        (BlankAt(u, Max(EndsBefore(t, i))) <=> BlankAt(t, Max(EndsBefore(t, i))))
  <2> SUFFICES ASSUME EndsBefore(t, i) # {}
               PROVE  BlankAt(u, Max(EndsBefore(t, i))) <=> BlankAt(t, Max(EndsBefore(t, i)))
    OBVIOUS
  <2>1. Max(EndsBefore(t, i)) \in 1 .. Len(t) + 1
    BY <1>1, GreatestEnd
  <2> QED
    BY <2>1, LinesStay
<1> HIDE DEF u
<1>5. Rendered(u, FALSE, i) = Rendered(t, FALSE, i)
  BY <1>2, <1>3, <1>4 DEF Rendered
<1> QED
  BY <1>5 DEF u

\* What is behind the last line end is not rendered before the flush.
LEMMA RenderingOfEnded ==
  ASSUME NEW t \in Seq(Bytes)
  PROVE  /\ Rendering(t, FALSE) = RenderedUpTo(t, FALSE)[Len(t)]
         /\ RenderedUpTo(t, FALSE)[Len(t)] \in Seq(Output)
<1>1. Len(t) \in Nat /\ Len(t) + 1 \in 1 .. Len(t) + 1 /\ (Len(t) + 1) - 1 = Len(t)
      /\ Len(t) \in 0 .. Len(t) + 1
  BY LenProperties
<1>2. Rendered(t, FALSE, Len(t) + 1) = <<>>
  BY EndsBeforeLast DEF Rendered
<1>3. RenderedUpTo(t, FALSE)[Len(t)] \in Seq(Output)
  BY <1>1, RenderedSteps
<1>4. RenderedUpTo(t, FALSE)[Len(t) + 1] = RenderedUpTo(t, FALSE)[Len(t)] \o <<>>
  <2>1. RenderedUpTo(t, FALSE)[Len(t) + 1] =
          RenderedUpTo(t, FALSE)[(Len(t) + 1) - 1] \o Rendered(t, FALSE, Len(t) + 1)
    BY <1>1, RenderedSteps
  <2> QED
    BY <1>1, <1>2, <2>1
<1> QED
  BY <1>3, <1>4, ConcatEmptySeq DEF Rendering

\* Another byte adds a line to the rendering, if it ends one.
LEMMA RenderingGrows ==
  ASSUME NEW t \in Seq(Bytes), NEW b \in Bytes
  PROVE  Rendering(Append(t, b), FALSE) =
           IF EndsLine(t, b) THEN Rendering(t, FALSE) \o Piece(t) ELSE Rendering(t, FALSE)
<1> DEFINE n == Len(t)
           u == Append(t, b)
           F == RenderedUpTo(u, FALSE)
           old == RenderedUpTo(t, FALSE)[n]
<1>1. n \in Nat /\ u \in Seq(Bytes) /\ Len(u) = n + 1
  BY TextGrows
<1>2. Rendering(u, FALSE) = F[n + 1] /\ Rendering(t, FALSE) = old /\ old \in Seq(Output)
  BY <1>1, RenderingOfEnded
<1>3. F[n] = old
  <2>1. \A i \in 1..n : Rendered(u, FALSE, i) = Rendered(t, FALSE, i)
    BY RenderedStays
  <2>2. n <= Len(t) + 1 /\ n <= Len(u) + 1
    BY <1>1
  <2> DEFINE no == FALSE
  <2>3. Alike(u, no, t, no, n)
    BY <1>1, <2>1, <2>2 DEF Alike
  <2> HIDE DEF u, n, no
  <2>4. RenderedUpTo(u, no)[n] = RenderedUpTo(t, no)[n]
    BY <1>1, <2>3, SameUpTo
  <2> QED
    BY <2>4 DEF no
<1>4. F[n + 1] = F[n] \o Rendered(u, FALSE, n + 1)
  <2>1. n + 1 \in 1 .. Len(u) + 1 /\ (n + 1) - 1 = n
    BY <1>1
  <2> HIDE DEF u
  <2>2. F[n + 1] = F[(n + 1) - 1] \o Rendered(u, FALSE, n + 1)
    BY <1>1, <2>1, RenderedSteps
  <2> QED
    BY <2>1, <2>2
<1>5. /\ EndsBefore(u, n + 1) = LineEnds(t) /\ LineOf(u, n + 1) = LineOf(t, n + 1)
      /\ BlankAt(u, n + 1) <=> BlankAt(t, n + 1)
      /\ n + 1 \in LineEnds(u) <=> EndsLine(t, b)
  <2>1. n + 1 \in 1 .. Len(t) + 1
    BY <1>1
  <2>2. EndsBefore(t, n + 1) = LineEnds(t) /\ n + 1 \notin LineEnds(t)
    BY EndsBeforeLast
  <2> QED
    BY <2>1, <2>2, LinesStay, LineEndsGrow
<1>6. LineEnds(t) # {} => (BlankAt(u, Max(LineEnds(t))) <=> BlankAt(t, Max(LineEnds(t))))
  <2> SUFFICES ASSUME LineEnds(t) # {}
               PROVE  BlankAt(u, Max(LineEnds(t))) <=> BlankAt(t, Max(LineEnds(t)))
    OBVIOUS
  <2>1. Max(LineEnds(t)) \in 1 .. Len(t) + 1
    BY <1>1, GreatestEnd, EndsBeforeLast
  <2> QED
    BY <2>1, LinesStay
<1>7. Rendered(u, FALSE, n + 1) = IF EndsLine(t, b) THEN Piece(t) ELSE <<>>
  <2> HIDE DEF u
  <2>1. Piece(t) = IF ~BlankAt(t, n + 1) THEN Append(ShownOf(LineOf(t, n + 1)), "NL")
                   ELSE IF LineEnds(t) # {} /\ BlankAt(t, Max(LineEnds(t))) THEN <<>>
                   ELSE <<"NL">>
    BY DEF Piece
  <2> QED
    BY <1>5, <1>6, <2>1 DEF Rendered
<1> HIDE DEF F, u, n, old
<1>8. Rendering(u, FALSE) = old \o (IF EndsLine(t, b) THEN Piece(t) ELSE <<>>)
  BY <1>2, <1>3, <1>4, <1>7
<1> QED
  BY <1>2, <1>8, ConcatEmptySeq DEF u

\* The flush adds the last line, unless it is empty.
LEMMA RenderingDone ==
  ASSUME NEW t \in Seq(Bytes)
  PROVE  Rendering(t, TRUE) =
           IF LineOf(t, Len(t) + 1) = <<>> THEN Rendering(t, FALSE)
           ELSE Rendering(t, FALSE) \o Piece(t)
<1> DEFINE n == Len(t)
           F == RenderedUpTo(t, TRUE)
           old == RenderedUpTo(t, FALSE)[n]
<1>1. n \in Nat
  BY LenProperties
<1>2. Rendering(t, TRUE) = F[n + 1] /\ Rendering(t, FALSE) = old /\ old \in Seq(Output)
  BY RenderingOfEnded DEF Rendering
<1>3. F[n] = old
  <2>1. \A i \in 1..n : Rendered(t, TRUE, i) = Rendered(t, FALSE, i)
    <3> SUFFICES ASSUME NEW i \in 1..n
                 PROVE  Rendered(t, TRUE, i) = Rendered(t, FALSE, i)
      OBVIOUS
    <3>1. ~(i > Len(t))
      BY <1>1
    <3> QED
      BY <3>1 DEF Rendered
  <2>2. n <= Len(t) + 1
    BY <1>1
  <2> DEFINE no == FALSE
             yes == TRUE
  <2>3. Alike(t, yes, t, no, n)
    BY <1>1, <2>1, <2>2 DEF Alike
  <2> HIDE DEF n, no, yes
  <2>4. RenderedUpTo(t, yes)[n] = RenderedUpTo(t, no)[n]
    BY <2>3, SameUpTo
  <2> QED
    BY <2>4 DEF no, yes
<1>4. F[n + 1] = F[n] \o Rendered(t, TRUE, n + 1)
  <2>1. n + 1 \in 1 .. Len(t) + 1 /\ (n + 1) - 1 = n
    BY <1>1
  <2>2. F[n + 1] = F[(n + 1) - 1] \o Rendered(t, TRUE, n + 1)
    BY <2>1, RenderedSteps
  <2> QED
    BY <2>1, <2>2
<1>5. EndsBefore(t, n + 1) = LineEnds(t) /\ n + 1 \notin LineEnds(t) /\ n + 1 > Len(t)
  BY <1>1, EndsBeforeLast
<1>6. Rendered(t, TRUE, n + 1) = IF LineOf(t, n + 1) # <<>> THEN Piece(t) ELSE <<>>
  <2>1. Piece(t) = IF ~BlankAt(t, n + 1) THEN Append(ShownOf(LineOf(t, n + 1)), "NL")
                   ELSE IF LineEnds(t) # {} /\ BlankAt(t, Max(LineEnds(t))) THEN <<>>
                   ELSE <<"NL">>
    BY DEF Piece
  <2> QED
    BY <1>5, <2>1 DEF Rendered
<1>7. Rendering(t, TRUE) = old \o (IF LineOf(t, Len(t) + 1) # <<>> THEN Piece(t) ELSE <<>>)
  BY <1>2, <1>3, <1>4, <1>6
<1> HIDE DEF F, n, old
<1> QED
  BY <1>2, <1>7, ConcatEmptySeq

\* What the writer remembers as blank, after another byte.
LEMMA BlankGrows ==
  ASSUME NEW t \in Seq(Bytes), NEW b \in Bytes
  PROVE  (LineEnds(Append(t, b)) # {} /\ BlankAt(Append(t, b), Max(LineEnds(Append(t, b))))) <=>
           IF EndsLine(t, b) THEN BlankAt(t, Len(t) + 1)
           ELSE LineEnds(t) # {} /\ BlankAt(t, Max(LineEnds(t)))
<1> DEFINE n == Len(t)
           u == Append(t, b)
<1>1. n \in Nat /\ u \in Seq(Bytes) /\ Len(u) = n + 1
  BY TextGrows
<1>2. /\ LineEnds(t) \subseteq 1..n
      /\ LineEnds(u) = IF EndsLine(t, b) THEN LineEnds(t) \cup {n + 1} ELSE LineEnds(t)
  BY LineEndsGrow
<1>3. \A end \in 1 .. n + 1 : BlankAt(u, end) <=> BlankAt(t, end)
  BY LinesStay
<1> HIDE DEF u, n
<1>4. LineEnds(u) # {} => Max(LineEnds(u)) \in LineEnds(u)
                          /\ \A e \in LineEnds(u) : Max(LineEnds(u)) >= e
  <2> DEFINE T == LineEnds(u)
             m == n + 1
  <2>1. T \in SUBSET (0..m) /\ m \in Nat
    BY <1>1, <1>2
  <2> HIDE DEF T, m
  <2>2. T # {} => Max(T) \in T /\ \A e \in T : Max(T) >= e
    BY <2>1, GreatestNumber
  <2> QED
    BY <2>2 DEF T
<1>5. CASE EndsLine(t, b)
  <2>1. n + 1 \in LineEnds(u) /\ n + 1 \in 1 .. n + 1 /\ \A e \in LineEnds(u) : e \in 1 .. n + 1
    BY <1>1, <1>2, <1>5
  <2>2. Max(LineEnds(u)) = n + 1
    <3> DEFINE e == Max(LineEnds(u))
    <3>1. e \in LineEnds(u) /\ e >= n + 1
      BY <1>4, <2>1
    <3> HIDE DEF e
    <3>2. e \in 1 .. n + 1 /\ e >= n + 1
      BY <2>1, <3>1
    <3>3. e = n + 1
      BY <1>1, <3>2
    <3> QED
      BY <3>3 DEF e
  <2> QED
    BY <1>3, <1>5, <2>1, <2>2 DEF n, u
<1>6. CASE ~EndsLine(t, b)
  <2>1. LineEnds(u) # {} => Max(LineEnds(u)) \in 1 .. n + 1
    BY <1>1, <1>2, <1>4, <1>6
  <2> QED
    BY <1>2, <1>3, <1>6, <2>1 DEF n, u
<1> QED
  BY <1>5, <1>6

-----------------------------------------------------------------------------
(* The invariant.                                                          *)

\* A buffered line that is put out leaves a log as it should be.
LEMMA EmitTyped ==
  ASSUME TypeInv, NoEmptyRuns, BlankInv, EmitBufferedLine
  PROVE  /\ out' \in Seq(Output) /\ blank' \in BOOLEAN /\ failures' \in Nat
         /\ NoEmptyRuns' /\ BlankInv' /\ line' = <<>>
         /\ failures' = failures \/ failures' = failures + 1
<1>1. line \in Seq(LineBytes)
  BY DEF TypeInv
<1>2. SanitizeLine(line) \in Seq(Kept)
  BY <1>1, SanitizedIsShown
<1>3. EmitLine(SanitizeLine(line)) /\ line' = <<>>
  BY DEF EmitBufferedLine
<1>4. failures' = failures \/ failures' = failures + 1
  BY <1>3 DEF EmitLine
<1> QED
  BY <1>2, <1>3, <1>4, EmitLeavesNoRuns

\* Every step keeps the types, the absence of empty runs and what blank says.
LEMMA LogKept ==
  ASSUME TypeInv, NoEmptyRuns, BlankInv, [Next]_vars
  PROVE  TypeInv' /\ NoEmptyRuns' /\ BlankInv'
<1>1. CASE UNCHANGED vars
  BY <1>1 DEF vars, TypeInv, NoEmptyRuns, BlankInv, EmptyLineAt
<1>2. ASSUME UNCHANGED <<blank, out, failures>>
      PROVE  /\ out' \in Seq(Output) /\ blank' \in BOOLEAN /\ failures' \in Nat
             /\ NoEmptyRuns' /\ BlankInv'
  BY <1>2 DEF TypeInv, NoEmptyRuns, BlankInv, EmptyLineAt
<1>3. ASSUME Flush
      PROVE  TypeInv' /\ NoEmptyRuns' /\ BlankInv'
  <2>1. text' \in Seq(Bytes) /\ skipNextLF' \in BOOLEAN /\ flushed' \in BOOLEAN
    BY <1>3 DEF Flush, TypeInv
  <2>2. CASE line = <<>>
    <3>1. line' \in Seq(LineBytes) /\ UNCHANGED <<blank, out, failures>>
      BY <1>3, <2>2 DEF Flush, TypeInv
    <3> QED
      BY <1>2, <2>1, <3>1 DEF TypeInv
  <2>3. CASE line # <<>>
    <3>1. EmitBufferedLine
      BY <1>3, <2>3 DEF Flush
    <3> QED
      BY <2>1, <3>1, EmitTyped DEF TypeInv
  <2> QED
    BY <2>2, <2>3
<1>4. ASSUME NEW b \in Bytes, Write(b)
      PROVE  TypeInv' /\ NoEmptyRuns' /\ BlankInv'
  <2>1. text' \in Seq(Bytes) /\ flushed' \in BOOLEAN
    BY <1>4, TextGrows DEF Write, TypeInv
  <2>2. CASE SkipLF(b) /\ skipNextLF' = FALSE /\ UNCHANGED <<line, blank, out, failures>>
    <3>1. line' \in Seq(LineBytes) /\ skipNextLF' \in BOOLEAN
      BY <2>2 DEF TypeInv
    <3> QED
      BY <1>2, <2>1, <2>2, <3>1 DEF TypeInv
  <2>3. CASE EmitBufferedLine /\ skipNextLF' = (b = "CR" /\ failures' = failures)
    <3>1. skipNextLF' \in BOOLEAN /\ line' \in Seq(LineBytes)
      BY <2>3, EmitTyped
    <3> QED
      BY <2>1, <2>3, <3>1, EmitTyped DEF TypeInv
  <2>4. CASE b \notin {"CR", "LF"} /\ line' = Append(line, b) /\ skipNextLF' = FALSE
             /\ UNCHANGED <<blank, out, failures>>
    <3>1. line' \in Seq(LineBytes) /\ skipNextLF' \in BOOLEAN
      <4>1. b \in LineBytes /\ line \in Seq(LineBytes)
        BY <2>4 DEF LineBytes, TypeInv
      <4> QED
        BY <2>4, <4>1, AppendProperties
    <3> QED
      BY <1>2, <2>1, <2>4, <3>1 DEF TypeInv
  <2> QED
    BY <1>4, <2>2, <2>3, <2>4 DEF Write
<1> QED
  BY <1>1, <1>3, <1>4 DEF Next

\* Nothing is put out before the first byte.
LEMMA LogInit == Init => TypeInv /\ NoEmptyRuns /\ BlankInv
<1> SUFFICES ASSUME Init
             PROVE  TypeInv /\ NoEmptyRuns /\ BlankInv
  OBVIOUS
<1>1. out = <<>> /\ Len(out) = 0
  BY DEF Init
<1>2. BlankInv
  BY <1>1, Zenon DEF BlankInv
<1>3. NoEmptyRuns
  <2>1. \A i \in 1 .. Len(out) - 1 : FALSE
    BY <1>1
  <2> QED
    BY <2>1 DEF NoEmptyRuns
<1>4. TypeInv
  <2>1. <<>> \in Seq(Bytes) /\ <<>> \in Seq(LineBytes) /\ <<>> \in Seq(Output)
    OBVIOUS
  <2>2. skipNextLF \in BOOLEAN /\ blank \in BOOLEAN /\ flushed \in BOOLEAN
    BY DEF Init
  <2>3. failures \in Nat
    BY DEF Init
  <2>4. text = <<>> /\ line = <<>> /\ out = <<>>
    BY DEF Init
  <2> QED
    BY <2>1, <2>2, <2>3, <2>4, Zenon DEF TypeInv
<1> QED
  BY <1>2, <1>3, <1>4

\* No two empty lines follow each other in a log, whatever was written and
\* whichever writes failed: a theorem for inputs of every length.
THEOREM NoRunsHold == Spec => []NoEmptyRuns
<1>1. Init => TypeInv /\ NoEmptyRuns /\ BlankInv
  BY LogInit
<1>2. TypeInv /\ NoEmptyRuns /\ BlankInv /\ [Next]_vars => (TypeInv /\ NoEmptyRuns /\ BlankInv)'
  BY LogKept
<1> QED
  BY <1>1, <1>2, PTL DEF Spec

\* A line that is put out, and does not fail, is the rendering's next piece.
LEMMA EmitPiece ==
  ASSUME TypeInv, line = LineOf(text, Len(text) + 1),
         blank <=> LineEnds(text) # {} /\ BlankAt(text, Max(LineEnds(text))),
         out = Rendering(text, FALSE), EmitBufferedLine, failures' = failures
  PROVE  /\ out' = Rendering(text, FALSE) \o Piece(text)
         /\ blank' <=> BlankAt(text, Len(text) + 1)
<1> DEFINE s == SanitizeLine(line)
<1>1. line \in Seq(LineBytes) /\ out \in Seq(Output) /\ failures \in Nat
  BY DEF TypeInv
<1>2. s = ShownOf(LineOf(text, Len(text) + 1)) /\ s \in Seq(Kept)
  BY <1>1, SanitizedIsShown
<1>3. HasVisibleContent(s) <=> ~BlankAt(text, Len(text) + 1)
  BY <1>2 DEF HasVisibleContent, BlankAt, IsBlank
<1>4. Piece(text) = IF HasVisibleContent(s) THEN Append(s, "NL")
                    ELSE IF blank THEN <<>> ELSE <<"NL">>
  BY <1>2, <1>3 DEF Piece
<1>5. EmitLine(s)
  BY DEF EmitBufferedLine
<1> HIDE DEF s
<1>6. failures' # failures + 1
  BY <1>1
<1>7. CASE HasVisibleContent(s)
  <2>1. out' = Append(out \o s, "NL") /\ blank' = FALSE
    BY <1>5, <1>6, <1>7 DEF EmitLine
  <2>2. "NL" \in Output /\ s \in Seq(Output) /\ <<"NL">> \in Seq(Output)
    BY <1>2 DEF Output
  <2>3. out \o s \in Seq(Output)
    BY <1>1, <2>2, ConcatProperties
  <2>4. Append(out \o s, "NL") = (out \o s) \o <<"NL">> /\ Append(s, "NL") = s \o <<"NL">>
    BY <2>2, <2>3, AppendIsConcat
  <2>5. (out \o s) \o <<"NL">> = out \o (s \o <<"NL">>)
    <3> DEFINE nl == <<"NL">>
    <3>1. nl \in Seq(Output)
      BY <2>2
    <3> HIDE DEF nl
    <3>2. \A x, y, z \in Seq(Output) : (x \o y) \o z = x \o (y \o z)
      BY ConcatAssociative
    <3>3. (out \o s) \o nl = out \o (s \o nl)
      BY <1>1, <2>2, <3>1, <3>2
    <3> QED
      BY <3>3 DEF nl
  <2> QED
    BY <1>3, <1>4, <1>7, <2>1, <2>4, <2>5
<1>8. CASE ~HasVisibleContent(s)
  <2>1. out' = (IF blank THEN out ELSE Append(out, "NL")) /\ blank' = TRUE
    BY <1>5, <1>6, <1>8 DEF EmitLine
  <2>2. out \o <<>> = out
    BY <1>1, ConcatEmptySeq
  <2>3. Append(out, "NL") = out \o <<"NL">>
    <3>1. "NL" \in Output
      BY DEF Output
    <3> QED
      BY <1>1, <3>1, AppendIsConcat, Zenon
  <2> QED
    BY <1>3, <1>4, <1>8, <2>1, <2>2, <2>3
<1> QED
  BY <1>7, <1>8

\* What Write remembers of the text, and what it has put out of it.
WriteKeeps(t) ==
  /\ line = LineOf(t, Len(t) + 1)
  /\ skipNextLF <=> t # <<>> /\ t[Len(t)] = "CR"
  /\ blank <=> LineEnds(t) # {} /\ BlankAt(t, Max(LineEnds(t)))
  /\ out = Rendering(t, FALSE)

\* A write that did not fail leaves the writer with what it has to remember.
LEMMA WriteStep ==
  ASSUME TypeInv, WriteKeeps(text), NEW b \in Bytes, Write(b), failures' = failures
  PROVE  WriteKeeps(text)'
<1> DEFINE t == text
           n == Len(t)
           u == Append(t, b)
<1>1. t \in Seq(Bytes) /\ line \in Seq(LineBytes) /\ text' = u
  BY DEF TypeInv, Write
<1>2. n \in Nat /\ Len(u) = n + 1 /\ u[n + 1] = b /\ u # <<>>
  BY <1>1, TextGrows
<1>3. /\ LineOf(u, n + 2) = IF b \in {"CR", "LF"} THEN <<>> ELSE Append(LineOf(t, n + 1), b)
      /\ t # <<>> /\ t[n] = "CR" => LineOf(t, n + 1) = <<>>
  BY <1>1, LineGrows
<1>4. (LineEnds(u) # {} /\ BlankAt(u, Max(LineEnds(u)))) <=>
        IF EndsLine(t, b) THEN BlankAt(t, n + 1)
        ELSE LineEnds(t) # {} /\ BlankAt(t, Max(LineEnds(t)))
  BY <1>1, BlankGrows
<1>5. Rendering(u, FALSE) = IF EndsLine(t, b) THEN Rendering(t, FALSE) \o Piece(t)
                            ELSE Rendering(t, FALSE)
  BY <1>1, RenderingGrows
<1>6. /\ line = LineOf(t, n + 1) /\ out = Rendering(t, FALSE)
      /\ skipNextLF <=> t # <<>> /\ t[n] = "CR"
      /\ blank <=> LineEnds(t) # {} /\ BlankAt(t, Max(LineEnds(t)))
  BY DEF WriteKeeps
<1> HIDE DEF u, n, t
<1>7. EndsLine(t, b) <=> b \in {"CR", "LF"} /\ ~SkipLF(b)
  BY <1>6 DEF EndsLine, SkipLF, n
<1>8. SUFFICES /\ line' = LineOf(u, n + 2) /\ out' = Rendering(u, FALSE)
               /\ skipNextLF' <=> b = "CR"
               /\ blank' <=> LineEnds(u) # {} /\ BlankAt(u, Max(LineEnds(u)))
  <2>1. Len(u) + 1 = n + 2 /\ u[Len(u)] = b
    BY <1>2
  <2> QED
    BY <1>1, <1>2, <2>1 DEF WriteKeeps
<1>9. CASE SkipLF(b) /\ skipNextLF' = FALSE /\ UNCHANGED <<line, blank, out, failures>>
  <2>1. b = "LF" /\ ~EndsLine(t, b) /\ line = <<>>
    BY <1>3, <1>6, <1>7, <1>9 DEF SkipLF
  <2> QED
    BY <1>3, <1>4, <1>5, <1>6, <1>9, <2>1
<1>10. CASE b \in {"CR", "LF"} /\ ~SkipLF(b) /\ EmitBufferedLine
            /\ skipNextLF' = (b = "CR" /\ failures' = failures)
  <2>1. /\ out' = Rendering(t, FALSE) \o Piece(t)
        /\ blank' <=> BlankAt(t, n + 1)
    BY <1>6, <1>10, EmitPiece DEF t, n
  <2>2. line' = <<>> /\ EndsLine(t, b)
    BY <1>7, <1>10 DEF EmitBufferedLine
  <2> QED
    BY <1>3, <1>4, <1>5, <1>10, <2>1, <2>2
<1>11. CASE b \notin {"CR", "LF"} /\ line' = Append(line, b) /\ skipNextLF' = FALSE
            /\ UNCHANGED <<blank, out, failures>>
  BY <1>3, <1>4, <1>5, <1>6, <1>7, <1>11
<1> QED
  BY <1>9, <1>10, <1>11 DEF Write

\* Before the first byte there is nothing to remember and nothing to show.
LEMMA WriterInit == Init => WriterInv
<1> SUFFICES ASSUME Init
             PROVE  WriterInv
  OBVIOUS
<1>1. TypeInv /\ NoEmptyRuns /\ BlankInv
  BY LogInit
<1>2. text = <<>> /\ line = <<>> /\ out = <<>> /\ skipNextLF = FALSE /\ blank = FALSE
      /\ flushed = FALSE
  BY DEF Init
<1>3. text \in Seq(Bytes) /\ Len(text) = 0
  BY <1>2
<1>4. LineEnds(text) = {}
  <2>1. DOMAIN text = {}
    BY <1>2
  <2> QED
    BY <2>1 DEF LineEnds
<1>5. LineOf(text, Len(text) + 1) = <<>>
  <2>1. 1 \in 1 .. Len(text) + 1
    BY <1>3
  <2>2. IsLine(text, 1)
    BY <1>3, <2>1, LineTyped
  <2>3. LineOf(text, 1) \in Seq(LineBytes) /\ Len(LineOf(text, 1)) = 0
    BY <2>2 DEF IsLine
  <2> QED
    BY <1>3, <2>3, EmptySeq
<1>6. Rendering(text, FALSE) = <<>>
  BY <1>3, RenderingOfEnded, RenderedSteps
<1>7. LineInv
  BY <1>2, <1>4, <1>5 DEF LineInv
<1>8. OutputIsRendering
  BY <1>2, <1>6 DEF OutputIsRendering
<1> QED
  BY <1>1, <1>7, <1>8 DEF WriterInv

\* Every step of the writer keeps the invariant.
LEMMA WriterStep == WriterInv /\ [Next]_vars => WriterInv'
<1> SUFFICES ASSUME WriterInv, [Next]_vars
             PROVE  WriterInv'
  OBVIOUS
<1>1. TypeInv' /\ NoEmptyRuns' /\ BlankInv'
  BY LogKept DEF WriterInv
<1>2. SUFFICES ASSUME failures' = 0
               PROVE  LineInv' /\ OutputIsRendering'
  BY <1>1 DEF WriterInv, LineInv, OutputIsRendering
<1>3. TypeInv /\ (failures = 0 /\ ~flushed => WriteKeeps(text))
  <2>1. TypeInv /\ LineInv /\ (failures = 0 => out = Rendering(text, flushed))
    BY DEF WriterInv, OutputIsRendering
  <2>2. ASSUME failures = 0, ~flushed
        PROVE  WriteKeeps(text)
    <3>1. flushed = FALSE
      BY <2>1, <2>2 DEF TypeInv
    <3>2. out = Rendering(text, FALSE)
      BY <2>1, <2>2, <3>1
    <3> QED
      BY <2>1, <2>2, <3>2 DEF LineInv, WriteKeeps
  <2> QED
    BY <2>1, <2>2
<1>4. CASE UNCHANGED vars
  BY <1>4 DEF vars, WriterInv, LineInv, OutputIsRendering
<1>5. ASSUME Next
      PROVE  failures = 0 /\ ~flushed
  <2>1. failures' = failures \/ failures' = failures + 1
    BY <1>5 DEF Next, Flush, Write, EmitBufferedLine, EmitLine
  <2>2. failures \in Nat
    BY <1>3 DEF TypeInv
  <2>3. failures = 0
    BY <1>2, <2>1, <2>2
  <2> QED
    BY <1>5, <2>3 DEF Next, Flush, Write
<1>6. ASSUME Flush
      PROVE  LineInv' /\ OutputIsRendering'
  <2>1. WriteKeeps(text) /\ failures' = failures /\ flushed' /\ text' = text
    BY <1>2, <1>3, <1>5, <1>6 DEF Next, Flush
  <2>2. Rendering(text, TRUE) = IF line = <<>> THEN out ELSE out \o Piece(text)
    BY <1>3, <2>1, RenderingDone DEF TypeInv, WriteKeeps
  <2>3. out' = Rendering(text, TRUE)
    <3>1. CASE line = <<>>
      BY <1>6, <2>2, <3>1 DEF Flush
    <3>2. CASE line # <<>>
      <4>1. EmitBufferedLine
        BY <1>6, <3>2 DEF Flush
      <4> QED
        BY <1>3, <2>1, <2>2, <3>2, <4>1, EmitPiece DEF WriteKeeps
    <3> QED
      BY <3>1, <3>2
  <2> QED
    BY <1>6, <2>1, <2>3 DEF LineInv, OutputIsRendering, Flush
<1>7. ASSUME NEW b \in Bytes, Write(b)
      PROVE  LineInv' /\ OutputIsRendering'
  <2>1. WriteKeeps(text) /\ failures' = failures /\ flushed' = FALSE
    BY <1>2, <1>3, <1>5, <1>7 DEF Next, Write, TypeInv
  <2>2. WriteKeeps(text)'
    BY <1>3, <1>7, <2>1, WriteStep
  <2> QED
    BY <2>1, <2>2 DEF LineInv, OutputIsRendering, WriteKeeps
<1> QED
  BY <1>4, <1>6, <1>7 DEF Next

\* The writer's invariant, with which the output is right at every moment.
THEOREM WriterInvariant == Spec => []WriterInv
  BY WriterInit, WriterStep, PTL DEF Spec

\* As long as no write has failed, the output is what the text written so far
\* looks like as a whole, wherever the caller's chunks ended: line ends, escapes
\* and runs of blank lines that a chunk splits come out as if it had not.
THEOREM OutputRendersText == Spec => []OutputIsRendering
<1>1. WriterInv => OutputIsRendering
  BY DEF WriterInv
<1> QED
  BY <1>1, WriterInvariant, PTL
=============================================================================
