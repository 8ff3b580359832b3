----------------------------- MODULE TunnelProofs -----------------------------
(***************************************************************************)
(* Theorems about Tunnel, for any number of lines and any pipe: which URL  *)
(* start() takes, and what becomes of the process.                         *)
(***************************************************************************)
EXTENDS Tunnel, TLAPS, SequenceTheorems

-----------------------------------------------------------------------------
(***************************************************************************)
(* Sequences.                                                              *)
(***************************************************************************)

\* What a list holds after an append, and after its head was taken.
LEMMA RangeAppend ==
  ASSUME NEW S, NEW s \in Seq(S), NEW x \in S
  PROVE  Range(Append(s, x)) = Range(s) \cup {x}
<1>1. /\ DOMAIN s = 1..Len(s) /\ Len(s) \in Nat
      /\ DOMAIN Append(s, x) = 1..(Len(s) + 1)
      /\ Append(s, x)[Len(s) + 1] = x
      /\ \A i \in 1..Len(s) : Append(s, x)[i] = s[i]
  BY AppendProperties, LenProperties
<1> QED
  BY <1>1 DEF Range

\* A list that agrees with the end of another is its suffix.
LEMMA SuffixByPlace ==
  ASSUME NEW S, NEW s \in Seq(S), NEW t \in Seq(S), Len(s) <= Len(t),
         \A j \in 1..Len(s) : s[j] = t[Len(t) - Len(s) + j]
  PROVE  IsSuffix(s, t)
<1> DEFINE a == Reverse(s)
           b == Reverse(t)
<1>0. Len(s) \in Nat /\ Len(t) \in Nat /\ DOMAIN s = 1..Len(s) /\ DOMAIN t = 1..Len(t)
  BY LenProperties
<1>1. /\ a \in Seq(S) /\ Len(a) = Len(s)
      /\ b \in Seq(S) /\ Len(b) = Len(t)
  <2>1. a \in [1..Len(s) -> S] /\ b \in [1..Len(t) -> S]
    BY <1>0, ElementOfSeq DEF Reverse
  <2> HIDE DEF a, b
  <2>2. a \in Seq(S) /\ b \in Seq(S)
    <3>1. \A n \in Nat : \A f \in [1..n -> S] : f \in Seq(S)
      BY SeqDef
    <3> QED
      BY <1>0, <2>1, <3>1
  <2>3. DOMAIN a = 1..Len(s) /\ DOMAIN b = 1..Len(t)
    BY <2>1
  <2> QED
    BY <1>0, <2>2, <2>3, LenProperties
<1>2. ASSUME NEW i \in 1..Len(s)
      PROVE  a[i] = b[i]
  <2>1. a[i] = s[(Len(s) - i) + 1] /\ b[i] = t[(Len(t) - i) + 1]
    BY <1>0 DEF Reverse
  <2>2. (Len(s) - i) + 1 \in 1..Len(s)
    BY <1>0
  <2>3. s[(Len(s) - i) + 1] = t[Len(t) - Len(s) + ((Len(s) - i) + 1)]
    BY <2>2
  <2>4. Len(t) - Len(s) + ((Len(s) - i) + 1) = (Len(t) - i) + 1
    BY <1>0
  <2> QED
    BY <2>1, <2>3, <2>4
<1> HIDE DEF a, b
<1>3. SubSeq(a, 1, Len(a)) = SubSeq(b, 1, Len(a))
  <2>1. SubSeq(a, 1, Len(a)) = [i \in 1..Len(a) |-> a[i]]
    BY <1>0, <1>1
  <2>2. SubSeq(b, 1, Len(a)) = [i \in 1..Len(a) |-> b[i]]
    BY <1>0, <1>1
  <2> QED
    BY <1>1, <1>2, <2>1, <2>2
<1>4. Len(a) <= Len(b)
  BY <1>1
<1> QED
  BY <1>3, <1>4 DEF IsSuffix, IsPrefix, a, b

\* The first n elements.
LEMMA FirstElements ==
  ASSUME NEW S, NEW s \in Seq(S), NEW n \in 0..Len(s)
  PROVE  Range(SubSeq(s, 1, n)) = {s[i] : i \in 1..n}
<1>1. Len(s) \in Nat
  BY LenProperties
<1> DEFINE f == [i \in 1..n |-> s[i]]
<1>2. SubSeq(s, 1, n) = f
  BY <1>1
<1>3. Range(f) = {s[i] : i \in 1..n}
  BY DEF Range
<1> QED
  BY <1>2, <1>3

-----------------------------------------------------------------------------
(***************************************************************************)
(* The invariant.                                                          *)
(***************************************************************************)

Types ==
  /\ {named, scoped, late, open} \subseteq BOOLEAN
  /\ pc \in {"prepare", "check", "get", "serve", "stop", "terminating", "ended"}
  /\ captured \in Nat
  /\ seen \subseteq HostUrls
  /\ url \in Urls \cup {None}
  /\ child \in {"none", "running", "exited"}
  /\ printed \in Seq(Lines) /\ Len(printed) <= MaxLines
  /\ pipe \in Seq(Lines) /\ Len(pipe) <= Capacity
  /\ reader \in {"none", "reading", "done"}
  /\ lines \in Seq(Lines \cup {EOF})

\* What has not been read is the end of what was printed.
PipeIsRest ==
  /\ Len(pipe) <= Len(printed)
  /\ \A j \in 1..Len(pipe) : pipe[j] = printed[Len(printed) - Len(pipe) + j]

\* How many lines are on the way from the reader to start().
Underway == Len(printed) - Len(pipe) - captured

\* Until a URL is accepted every line is handed over, in the order in which
\* it was printed; EOF comes last, and from a reader that is done.
LinesInOrder ==
  /\ captured + Len(lines) <= Len(printed) + 1
  /\ captured <= Len(printed)
  /\ url = None =>
       /\ Underway \in Nat
       /\ Len(lines) = Underway \/ Len(lines) = Underway + 1
       /\ \A i \in 1..Underway : lines[i] = printed[captured + i]
       /\ Len(lines) = Underway + 1 => lines[Underway + 1] = EOF /\ reader = "done"

\* The URLs among the lines start() has looked at.
Offered == Range(SubSeq(printed, 1, captured)) \cap HostUrls

\* seen is what the code's comments say it is, and a URL ends the search.
SeenIsOffered ==
  /\ url = None => seen = Offered
  /\ pc \in {"prepare", "check", "get"} => url = None
  /\ url # None /\ named =>
       \/ url = "wanted" /\ "wanted" \in Offered
       \/ /\ Offered = {url}
          /\ late \/ reader = "done" \/ child = "exited" \/ printed[captured] = "ready"

\* Nothing is there before the process, and the reader ends for a reason.
ProcessEnds ==
  /\ pc = "prepare" => child = "none" /\ reader = "none"
  /\ reader = "done" => ~open \/ "garbled" \in Range(printed)
  /\ NothingLeftRunning

IInv ==
  /\ Types
  /\ PipeIsRest
  /\ LinesInOrder
  /\ SeenIsOffered
  /\ ProcessEnds
-----------------------------------------------------------------------------
(***************************************************************************)
(* The steps.                                                              *)
(***************************************************************************)

\* What was looked at and offered, by place.
LEMMA OfferedByPlace ==
  ASSUME Types, captured <= Len(printed)
  PROVE  Offered = {printed[i] : i \in 1..captured} \cap HostUrls
<1>1. captured \in 0..Len(printed) /\ printed \in Seq(Lines)
  BY LenProperties DEF Types
<1> QED
  BY <1>1, FirstElements DEF Offered

\* Steps that leave the lines alone: start() goes from one place to another,
\* time passes, the process closes its output or is over.  None of them
\* accepts a URL.
NoLines ==
  /\ UNCHANGED <<named, scoped, captured, seen, url, printed, pipe, lines>>
  /\ late' \in {late, TRUE}
  /\ reader' = reader \/ (reader = "none" /\ reader' = "reading")
  /\ child' = child \/ child' = "exited" \/ (child = "none" /\ child' = "running")
  /\ url # None => pc' \notin {"prepare", "check", "get"}
  /\ pc' = "prepare" => child' = "none" /\ reader' = "none"
  /\ reader' = "done" => open' = open \/ open' = FALSE
  /\ pc' \in {"prepare", "check", "get", "serve", "stop", "terminating", "ended"}
  /\ open' \in BOOLEAN

LEMMA NoLinesKeeps ==
  ASSUME IInv, NoLines, NothingLeftRunning'
  PROVE  IInv'
<1> USE DEF NoLines
<1>1. Types'
  <2>1. named' \in BOOLEAN /\ scoped' \in BOOLEAN /\ late' \in BOOLEAN
    BY DEF IInv, Types
  <2> QED
    BY <2>1 DEF IInv, Types
<1>2. PipeIsRest'
  BY DEF IInv, PipeIsRest
<1>3. LinesInOrder'
  BY DEF IInv, Types, LinesInOrder, Underway
<1>4. SeenIsOffered'
  <2>1. Offered' = Offered
    BY DEF Offered
  <2>2. late => late'
    BY DEF IInv, Types
  <2> QED
    BY <2>1, <2>2 DEF IInv, SeenIsOffered, Types
<1>5. ProcessEnds'
  BY DEF IInv, ProcessEnds
<1> QED
  BY <1>1, <1>2, <1>3, <1>4, <1>5 DEF IInv

LEMMA MovesKeep ==
  ASSUME IInv,
         \/ PrepareFails \/ Launch \/ DeadlinePasses \/ Check
         \/ ServerEnds \/ Stop \/ StopReturns \/ Kill
         \/ ChildCloses \/ ChildExits \/ UNCHANGED vars
  PROVE  IInv'
<1> USE DEF IInv, Types, ProcessEnds, SeenIsOffered
<1>1. CASE PrepareFails
  BY <1>1, NoLinesKeeps DEF PrepareFails, Raises, Goto, NoLines, NothingLeftRunning,
     startVars, childVars, readerVars
<1>2. CASE Launch
  BY <1>2, NoLinesKeeps DEF Launch, Goto, NoLines, NothingLeftRunning, startVars
<1>3. CASE DeadlinePasses
  BY <1>3, NoLinesKeeps DEF DeadlinePasses, NoLines, NothingLeftRunning, childVars, readerVars
<1>4. CASE Check
  BY <1>4, NoLinesKeeps DEF Check, Goto, NoLines, NothingLeftRunning, startVars, childVars, readerVars
<1>5. CASE ServerEnds \/ Stop \/ StopReturns
  BY <1>5, NoLinesKeeps DEF ServerEnds, Stop, StopReturns, Goto, NoLines, NothingLeftRunning,
     startVars, childVars, readerVars
<1>6. CASE Kill
  BY <1>6, NoLinesKeeps DEF Kill, Exits, Goto, NoLines, NothingLeftRunning, startVars, readerVars
<1>7. CASE ChildCloses
  BY <1>7, NoLinesKeeps DEF ChildCloses, NoLines, NothingLeftRunning, startVars, readerVars
<1>8. CASE ChildExits
  BY <1>8, NoLinesKeeps DEF ChildExits, Exits, NoLines, NothingLeftRunning, startVars, readerVars
<1>9. CASE UNCHANGED vars
  BY <1>9, NoLinesKeeps DEF vars, NoLines, NothingLeftRunning, startVars, childVars, readerVars
<1> QED
  BY <1>1, <1>2, <1>3, <1>4, <1>5, <1>6, <1>7, <1>8, <1>9

\* A fallback is the only URL there is.
LEMMA OnlyFallback ==
  ASSUME NEW urls, urls \subseteq HostUrls, NEW u \in Fallback(urls)
  PROVE  urls = {u} /\ u \in HostUrls /\ u \in Urls /\ u # None
BY NoneAssumption DEF Fallback, Urls

\* The process prints a line: what start() has looked at stays what it was.
LEMMA PrintKeeps ==
  ASSUME IInv, NEW l \in Lines, ChildPrints(l)
  PROVE  IInv'
<1> DEFINE n == Len(printed)
           k == Len(pipe)
<1>0. /\ printed \in Seq(Lines) /\ pipe \in Seq(Lines) /\ n \in Nat /\ k \in Nat
      /\ n < MaxLines /\ k < Capacity /\ MaxLines \in Nat /\ Capacity \in Nat
      /\ captured \in Nat /\ captured <= n /\ k <= n
  BY LenProperties, PipeAssumption DEF IInv, Types, ChildPrints, PipeIsRest, LinesInOrder
<1>1. /\ printed' = Append(printed, l) /\ pipe' = Append(pipe, l)
      /\ UNCHANGED <<named, scoped, pc, late, captured, seen, url, child, open, reader, lines>>
  BY DEF ChildPrints, startVars, readerVars
<1>2. /\ printed' \in Seq(Lines) /\ Len(printed') = n + 1
      /\ printed'[n + 1] = l /\ \A i \in 1..n : printed'[i] = printed[i]
  BY <1>0, <1>1, AppendProperties
<1>3. /\ pipe' \in Seq(Lines) /\ Len(pipe') = k + 1
      /\ pipe'[k + 1] = l /\ \A i \in 1..k : pipe'[i] = pipe[i]
  BY <1>0, <1>1, AppendProperties
<1> HIDE DEF n, k
<1>4. Types'
  BY <1>0, <1>1, <1>2, <1>3 DEF IInv, Types
<1>5. PipeIsRest'
  <2>1. ASSUME NEW j \in 1..(k + 1)
        PROVE  pipe'[j] = printed'[n - k + j]
    <3>1. CASE j = k + 1
      BY <1>0, <1>2, <1>3, <3>1
    <3>2. CASE j # k + 1
      <4>1. j \in 1..k /\ n - k + j \in 1..n
        BY <1>0, <3>2
      <4> QED
        BY <1>2, <1>3, <4>1 DEF IInv, PipeIsRest, n, k
    <3> QED
      BY <3>1, <3>2
  <2>2. n - k = (n + 1) - (k + 1) /\ k + 1 <= n + 1
    BY <1>0
  <2> QED
    BY <1>2, <1>3, <2>1, <2>2 DEF PipeIsRest
<1>6. LinesInOrder'
  <2>1. Underway' = Underway /\ Underway = n - k - captured
    BY <1>0, <1>1, <1>2, <1>3 DEF Underway, n, k
  <2>2. Len(lines) \in Nat
    BY LenProperties DEF IInv, Types
  <2>3. captured <= n + 1 /\ captured + Len(lines) <= (n + 1) + 1
    BY <1>0, <2>2 DEF IInv, LinesInOrder, n
  <2>4. ASSUME url = None, NEW i \in 1..Underway
        PROVE  lines[i] = printed'[captured + i]
    <3>1. Underway \in Nat /\ lines[i] = printed[captured + i]
      BY <2>4 DEF IInv, LinesInOrder
    <3>2. captured + i \in 1..n
      BY <1>0, <2>1, <3>1
    <3> QED
      BY <1>2, <3>1, <3>2
  <2> QED
    BY <1>1, <1>2, <2>1, <2>3, <2>4 DEF IInv, LinesInOrder
<1>7. SeenIsOffered'
  <2>1. \A i \in 1..captured : printed'[i] = printed[i]
    BY <1>0, <1>2
  <2>2. Offered' = {printed'[i] : i \in 1..captured} \cap HostUrls
    <3>1. captured \in 0..Len(printed')
      BY <1>0, <1>2
    <3>2. Range(SubSeq(printed', 1, captured)) = {printed'[i] : i \in 1..captured}
      BY <1>2, <3>1, FirstElements
    <3> QED
      BY <1>1, <3>2 DEF Offered
  <2>3. Offered = {printed[i] : i \in 1..captured} \cap HostUrls
    BY <1>0, OfferedByPlace DEF IInv, n
  <2>4. Offered' = Offered
    BY <2>1, <2>2, <2>3
  <2>5. captured \in 1..captured \/ (captured = 0 /\ Offered = {})
    BY <1>0, <2>3
  <2> QED
    BY <1>1, <2>1, <2>4, <2>5 DEF IInv, SeenIsOffered
<1>8. ProcessEnds'
  <2>1. Range(printed') = Range(printed) \cup {l}
    BY <1>0, <1>1, RangeAppend
  <2> QED
    BY <1>1, <2>1 DEF IInv, ProcessEnds, NothingLeftRunning, ChildPrints
<1> QED
  BY <1>4, <1>5, <1>6, <1>7, <1>8 DEF IInv
\* What start() finds at the head of the queue.
LEMMA HeadOfLines ==
  ASSUME IInv, url = None, lines # <<>>
  PROVE  /\ Tail(lines) \in Seq(Lines \cup {EOF}) /\ Len(Tail(lines)) = Len(lines) - 1
         /\ \A i \in 1..(Len(lines) - 1) : Tail(lines)[i] = lines[i + 1]
         /\ Len(lines) \in Nat \ {0} /\ Underway \in Nat
         /\ Head(lines) = EOF => Underway = 0 /\ Len(lines) = 1 /\ reader = "done"
         /\ Head(lines) # EOF =>
              Underway >= 1 /\ captured + 1 <= Len(printed) /\ Head(lines) = printed[captured + 1]
<1>1. /\ lines \in Seq(Lines \cup {EOF}) /\ printed \in Seq(Lines) /\ pipe \in Seq(Lines)
      /\ Len(lines) \in Nat \ {0} /\ Len(printed) \in Nat /\ Len(pipe) \in Nat
      /\ captured \in Nat
  BY LenProperties, EmptySeq DEF IInv, Types
<1>2. /\ Tail(lines) \in Seq(Lines \cup {EOF}) /\ Len(Tail(lines)) = Len(lines) - 1
      /\ \A i \in 1..(Len(lines) - 1) : Tail(lines)[i] = lines[i + 1]
      /\ Head(lines) = lines[1]
  BY <1>1, HeadTailProperties
<1>3. /\ Underway \in Nat
      /\ Len(lines) = Underway \/ Len(lines) = Underway + 1
      /\ \A i \in 1..Underway : lines[i] = printed[captured + i]
      /\ Len(lines) = Underway + 1 => lines[Underway + 1] = EOF /\ reader = "done"
  BY DEF IInv, LinesInOrder
<1>4. CASE Underway = 0
  BY <1>1, <1>2, <1>3, <1>4
<1>5. CASE Underway # 0
  <2>1. Underway >= 1 /\ lines[1] = printed[captured + 1]
    BY <1>3, <1>5
  <2>2. captured + 1 <= Len(printed)
    BY <1>1, <1>3, <2>1 DEF Underway
  <2>3. printed[captured + 1] \in Lines /\ EOF \notin Lines
    <3>1. EOF \notin Lines
      BY DEF EOF, Lines, Urls, HostUrls
    <3> QED
      BY <1>1, <2>2, <3>1, ElementOfSeq
  <2>4. Head(lines) # EOF /\ Head(lines) = printed[captured + 1]
    BY <1>2, <2>1, <2>3
  <2> QED
    BY <1>1, <1>2, <1>3, <2>1, <2>2, <2>4
<1> QED
  BY <1>4, <1>5

\* The search ends without a line of use: with the fallback, if there is one,
\* when time, the process or its output is over.
Settles ==
  /\ UNCHANGED <<named, scoped, late, captured, seen, child, open, printed, pipe, reader>>
  /\ \/ lines' = lines
     \/ lines # <<>> /\ Head(lines) = EOF /\ lines' = Tail(lines)
  /\ \/ url' = url /\ pc' \in {"check", "stop", "ended"}
     \/ /\ url' \in Fallback(seen) /\ pc' = "serve"
        /\ late \/ reader = "done" \/ child = "exited"

LEMMA SettlingKeeps ==
  ASSUME IInv, pc \in {"check", "get"}, Settles, NothingLeftRunning'
  PROVE  IInv'
<1> USE DEF Settles
<1>0. url = None /\ seen = Offered /\ seen \subseteq HostUrls
  BY DEF IInv, Types, SeenIsOffered
<1>1. url' # None => seen = {url'} /\ url' \in Urls
  BY <1>0, OnlyFallback
<1>2. lines' # lines => /\ Underway = 0 /\ Len(lines) = 1 /\ Len(lines') = 0
                        /\ lines' \in Seq(Lines \cup {EOF})
  BY <1>0, HeadOfLines
<1>3. Types'
  BY <1>0, <1>1, <1>2 DEF IInv, Types
<1>4. PipeIsRest'
  BY DEF IInv, PipeIsRest
<1>5. LinesInOrder'
  <2>1. Underway' = Underway /\ captured \in Nat /\ Len(printed) \in Nat
    BY LenProperties DEF Underway, IInv, Types
  <2>2. CASE lines' = lines
    BY <1>0, <2>1, <2>2 DEF IInv, LinesInOrder
  <2>3. CASE lines' # lines
    BY <1>0, <1>2, <2>1, <2>3 DEF IInv, LinesInOrder
  <2> QED
    BY <2>2, <2>3
<1>6. SeenIsOffered'
  <2>1. Offered' = Offered
    BY DEF Offered
  <2>2. pc' \in {"prepare", "check", "get"} => url' = None
    BY <1>0
  <2>3. url' # None => late \/ reader = "done" \/ child = "exited"
    BY <1>0
  <2> QED
    BY <1>0, <1>1, <2>1, <2>2, <2>3 DEF SeenIsOffered
<1>7. ProcessEnds'
  BY DEF IInv, ProcessEnds
<1> QED
  BY <1>3, <1>4, <1>5, <1>6, <1>7 DEF IInv

LEMMA TurnsKeep ==
  ASSUME IInv, TimesOut \/ GetsNothing \/ GetsEOF
  PROVE  IInv'
<1>0. /\ pc = "check" \/ pc = "get"
      /\ url = None /\ seen \subseteq HostUrls
      /\ reader = "done" => ~open \/ "garbled" \in Range(printed)
  BY DEF IInv, Types, SeenIsOffered, ProcessEnds, TimesOut, GetsNothing, GetsEOF
<1>1. CASE TimesOut
  BY <1>0, <1>1, SettlingKeeps DEF TimesOut, AcceptFallback, Accept, GiveUp, Goto, Overdue,
     Settles, NothingLeftRunning, childVars, readerVars
<1>2. CASE GetsNothing
  BY <1>0, <1>2, SettlingKeeps DEF GetsNothing, AcceptFallbackOrRaise, AcceptFallback, Accept,
     Raises, Goto, Settles, NothingLeftRunning, childVars, readerVars
<1>3. CASE GetsEOF
  <2>1. reader = "done"
    BY <1>0, <1>3, HeadOfLines DEF GetsEOF
  <2>2. Settles
    BY <1>0, <1>3, <2>1 DEF GetsEOF, AcceptFallbackOrRaise, AcceptFallback, Accept,
       Raises, Goto, Settles, childVars
  <2>3. NothingLeftRunning'
    BY <1>0, <1>3, <2>1 DEF GetsEOF, AcceptFallbackOrRaise, AcceptFallback, Accept,
       Raises, Goto, NothingLeftRunning, childVars
  <2> QED
    BY <1>0, <2>2, <2>3, SettlingKeeps
<1> QED
  BY <1>1, <1>2, <1>3

\* start() looks at one more line.  The URL it takes is the one for the port,
\* or the only one so far when the process is ready.
LEMMA LineKeeps ==
  ASSUME IInv, GetsLine
  PROVE  IInv'
<1> DEFINE line == Head(lines)
           now  == seen \cup Noted(line)
<1>0. /\ pc = "get" /\ lines # <<>> /\ line # EOF /\ lines' = Tail(lines)
      /\ captured' = captured + 1
      /\ UNCHANGED <<named, scoped, late, child, open, printed, pipe, reader>>
  BY DEF GetsLine, childVars
<1>1. url = None /\ seen = Offered /\ seen \subseteq HostUrls
  BY <1>0 DEF IInv, Types, SeenIsOffered
<1>2. /\ lines' \in Seq(Lines \cup {EOF}) /\ Len(lines') = Len(lines) - 1
      /\ \A i \in 1..(Len(lines) - 1) : lines'[i] = lines[i + 1]
      /\ Len(lines) \in Nat \ {0} /\ Underway \in Nat /\ Underway >= 1
      /\ captured + 1 <= Len(printed) /\ line = printed[captured + 1]
  BY <1>0, <1>1, HeadOfLines
<1>3. /\ captured \in Nat /\ printed \in Seq(Lines) /\ Len(printed) \in Nat /\ Len(pipe) \in Nat
  BY LenProperties DEF IInv, Types
<1>4. \/ /\ Parsed(line, named) # None /\ url' = Parsed(line, named) /\ pc' = "serve"
         /\ seen' = seen
      \/ /\ seen' = now /\ line = "ready" /\ url' \in Fallback(now) /\ pc' = "serve"
      \/ /\ seen' = now /\ pc' = "check" /\ url' = url
  BY DEF GetsLine, Accept, Goto
<1> HIDE DEF line
<1>5. now \subseteq HostUrls
  BY <1>1 DEF Noted
<1>6. /\ url' # None =>
           \/ line = url' /\ url' \in Urls /\ (named => url' = "wanted") /\ seen' = seen
           \/ line = "ready" /\ seen' = now /\ now = {url'} /\ url' \in Urls
      /\ url' = None => seen' = now /\ pc' = "check"
      /\ url' # None => pc' = "serve"
  <2>1. Parsed(line, named) # None =>
          Parsed(line, named) = line /\ line \in Urls /\ (named => line = "wanted")
    BY DEF Parsed, Urls, HostUrls
  <2> HIDE DEF now
  <2>2. url' \in Fallback(now) => now = {url'} /\ url' \in Urls /\ url' # None
    BY <1>5, OnlyFallback
  <2> QED
    BY <1>1, <1>4, <2>1, <2>2
<1>7. Offered' = Offered \cup ({line} \cap HostUrls)
  <2>0. captured \in 0..Len(printed) /\ captured + 1 \in 0..Len(printed)
    BY <1>2, <1>3
  <2>1. Range(SubSeq(printed, 1, captured)) = {printed[i] : i \in 1..captured}
    BY <1>3, <2>0, FirstElements
  <2>2. Range(SubSeq(printed, 1, captured + 1)) = {printed[i] : i \in 1..(captured + 1)}
    BY <1>3, <2>0, FirstElements
  <2>3. 1..(captured + 1) = 1..captured \cup {captured + 1}
    BY <1>3
  <2>4. Range(SubSeq(printed, 1, captured + 1)) = Range(SubSeq(printed, 1, captured)) \cup {line}
    BY <1>2, <2>1, <2>2, <2>3
  <2> QED
    BY <1>0, <2>4 DEF Offered
<1>8. Offered' = now
  BY <1>1, <1>7 DEF Noted
<1>9. seen' \subseteq HostUrls
  BY <1>1, <1>5, <1>6
<1> HIDE DEF now
<1>10. Types'
  BY <1>0, <1>2, <1>3, <1>6, <1>9 DEF IInv, Types
<1>11. PipeIsRest'
  BY <1>0 DEF IInv, PipeIsRest
<1>12. LinesInOrder'
  <2>1. Underway' = Underway - 1
    BY <1>0, <1>3 DEF Underway
  <2>2. /\ captured + Len(lines) <= Len(printed) + 1
        /\ Len(lines) = Underway \/ Len(lines) = Underway + 1
        /\ \A i \in 1..Underway : lines[i] = printed[captured + i]
        /\ Len(lines) = Underway + 1 => lines[Underway + 1] = EOF /\ reader = "done"
    BY <1>1 DEF IInv, LinesInOrder
  <2>3. ASSUME NEW i \in 1..(Underway - 1)
        PROVE  lines'[i] = printed[captured + 1 + i]
    <3>1. i + 1 \in 1..Underway /\ i \in 1..(Len(lines) - 1)
      BY <1>2, <2>2
    <3>2. lines'[i] = printed[captured + (i + 1)]
      BY <1>2, <2>2, <3>1
    <3>3. captured + (i + 1) = captured + 1 + i
      BY <1>3
    <3> QED
      BY <3>2, <3>3
  <2>4. Len(lines') = Underway => lines'[Underway] = EOF /\ reader = "done"
    BY <1>2, <2>2
  <2>5. /\ captured + 1 + Len(lines') <= Len(printed) + 1
        /\ Len(lines') = Underway - 1 \/ Len(lines') = Underway - 1 + 1
        /\ Underway - 1 \in Nat /\ Underway - 1 + 1 = Underway
    BY <1>2, <1>3, <2>2
  <2> QED
    BY <1>0, <1>2, <2>1, <2>3, <2>4, <2>5 DEF LinesInOrder
<1>13. SeenIsOffered'
  <2>1. url' = None => seen' = Offered'
    BY <1>6, <1>8
  <2>2. pc' \in {"prepare", "check", "get"} => url' = None
    BY <1>6
  <2>3. ASSUME url' # None, named
        PROVE  \/ url' = "wanted" /\ "wanted" \in Offered'
               \/ Offered' = {url'} /\ printed'[captured'] = "ready"
    <3>1. CASE line = url' /\ url' = "wanted"
      BY <1>7, <3>1 DEF HostUrls
    <3>2. CASE line = "ready" /\ now = {url'}
      BY <1>0, <1>2, <1>8, <3>2
    <3> QED
      BY <1>6, <2>3, <3>1, <3>2
  <2> QED
    BY <1>0, <2>1, <2>2, <2>3 DEF SeenIsOffered
<1>14. ProcessEnds'
  BY <1>0, <1>6 DEF IInv, ProcessEnds, NothingLeftRunning
<1> QED
  BY <1>10, <1>11, <1>12, <1>13, <1>14 DEF IInv
\* The reader hands on the next line, for as long as start() wants it.
LEMMA ReadKeeps ==
  ASSUME IInv, ReaderReads
  PROVE  IInv'
<1> DEFINE k == Len(pipe)
           n == Len(printed)
           line == Head(pipe)
<1>0. /\ reader = "reading" /\ pipe # <<>>
      /\ pipe' = Tail(pipe) /\ lines' = IF url # None THEN lines ELSE Append(lines, line)
      /\ UNCHANGED <<named, scoped, pc, late, captured, seen, url, child, open, printed, reader>>
  BY DEF ReaderReads, ReadsOn, Handed, StartupDone, startVars, childVars
<1>1. /\ printed \in Seq(Lines) /\ pipe \in Seq(Lines) /\ lines \in Seq(Lines \cup {EOF})
      /\ n \in Nat /\ k \in Nat \ {0} /\ captured \in Nat /\ Len(lines) \in Nat
      /\ k <= Capacity /\ Capacity \in Nat
  BY <1>0, LenProperties, EmptySeq, PipeAssumption DEF IInv, Types
<1>2. /\ Tail(pipe) \in Seq(Lines) /\ Len(Tail(pipe)) = k - 1
      /\ \A j \in 1..(k - 1) : Tail(pipe)[j] = pipe[j + 1]
      /\ line = pipe[1] /\ line \in Lines
  BY <1>0, <1>1, HeadTailProperties
<1>3. /\ Append(lines, line) \in Seq(Lines \cup {EOF}) /\ Len(Append(lines, line)) = Len(lines) + 1
      /\ Append(lines, line)[Len(lines) + 1] = line
      /\ \A i \in 1..Len(lines) : Append(lines, line)[i] = lines[i]
  BY <1>1, <1>2, AppendProperties
<1>4. k <= n /\ \A j \in 1..k : pipe[j] = printed[n - k + j]
  BY DEF IInv, PipeIsRest
<1>5. Underway = n - k - captured
  BY DEF Underway
<1> HIDE DEF k, n, line
<1>6. Underway' = Underway + 1
  BY <1>0, <1>1, <1>2, <1>5 DEF Underway, n
<1>7. Types'
  BY <1>0, <1>1, <1>2, <1>3 DEF IInv, Types
<1>8. PipeIsRest'
  <2>1. ASSUME NEW j \in 1..(k - 1)
        PROVE  Tail(pipe)[j] = printed[n - (k - 1) + j]
    <3>1. j + 1 \in 1..k /\ n - k + (j + 1) = n - (k - 1) + j
      BY <1>1
    <3> QED
      BY <1>2, <1>4, <3>1
  <2>2. k - 1 <= n
    BY <1>1, <1>4
  <2> QED
    BY <1>0, <1>2, <2>1, <2>2 DEF PipeIsRest, n
<1>9. LinesInOrder'
  <2>1. CASE url # None
    BY <1>0, <2>1 DEF IInv, LinesInOrder
  <2>2. CASE url = None
    <3>1. /\ Underway \in Nat /\ captured <= n
          /\ Len(lines) = Underway
          /\ \A i \in 1..Underway : lines[i] = printed[captured + i]
      BY <1>0, <2>2 DEF IInv, LinesInOrder, n
    <3>2. lines' = Append(lines, line)
      BY <1>0, <2>2
    <3>3. line = printed[captured + (Underway + 1)]
      <4>1. captured + (Underway + 1) = n - k + 1 /\ 1 \in 1..k
        BY <1>1, <1>5
      <4> QED
        BY <1>2, <1>4, <4>1
    <3>4. ASSUME NEW i \in 1..(Underway + 1)
          PROVE  lines'[i] = printed[captured + i]
      <4>1. CASE i = Underway + 1
        BY <1>3, <3>1, <3>2, <3>3, <4>1
      <4>2. CASE i # Underway + 1
        <5>1. i \in 1..Underway
          BY <3>1, <4>2
        <5> QED
          BY <1>3, <3>1, <3>2, <5>1
      <4> QED
        BY <4>1, <4>2
    <3>5. /\ Len(lines') = Underway + 1 /\ Underway + 1 \in Nat
          /\ captured + Len(lines') <= n + 1
      BY <1>1, <1>3, <1>4, <1>5, <3>1, <3>2
    <3>6. Len(lines') # Underway + 1 + 1
      BY <3>1, <3>5
    <3> QED
      BY <1>0, <1>6, <3>1, <3>4, <3>5, <3>6 DEF LinesInOrder, n
  <2> QED
    BY <2>1, <2>2
<1>10. SeenIsOffered'
  <2>1. Offered' = Offered
    BY <1>0 DEF Offered
  <2> QED
    BY <1>0, <2>1 DEF IInv, SeenIsOffered
<1>11. ProcessEnds'
  BY <1>0 DEF IInv, ProcessEnds, NothingLeftRunning
<1> QED
  BY <1>7, <1>8, <1>9, <1>10, <1>11 DEF IInv

\* The reader says that it is done, after the last line.
LEMMA EndKeeps ==
  ASSUME IInv, ReaderEnds
  PROVE  IInv'
<1>0. /\ reader = "reading" /\ reader' = "done"
      /\ lines' = IF url # None THEN lines ELSE Append(lines, EOF)
      /\ IF pipe = <<>> THEN ~open ELSE Head(pipe) = "garbled"
      /\ UNCHANGED <<named, scoped, pc, late, captured, seen, url, child, open, printed, pipe>>
  BY DEF ReaderEnds, Handed, StartupDone, startVars, childVars
<1>1. /\ printed \in Seq(Lines) /\ pipe \in Seq(Lines) /\ lines \in Seq(Lines \cup {EOF})
      /\ Len(printed) \in Nat /\ Len(pipe) \in Nat /\ captured \in Nat /\ Len(lines) \in Nat
  BY LenProperties DEF IInv, Types
<1>2. /\ Append(lines, EOF) \in Seq(Lines \cup {EOF}) /\ Len(Append(lines, EOF)) = Len(lines) + 1
      /\ Append(lines, EOF)[Len(lines) + 1] = EOF
      /\ \A i \in 1..Len(lines) : Append(lines, EOF)[i] = lines[i]
  BY <1>1, AppendProperties
<1>3. Types'
  BY <1>0, <1>1, <1>2 DEF IInv, Types
<1>4. PipeIsRest'
  BY <1>0 DEF IInv, PipeIsRest
<1>5. LinesInOrder'
  <2>1. Underway' = Underway
    BY <1>0 DEF Underway
  <2>2. CASE url # None
    BY <1>0, <2>1, <2>2 DEF IInv, LinesInOrder
  <2>3. CASE url = None
    <3>1. /\ Underway \in Nat /\ captured <= Len(printed)
          /\ Len(lines) = Underway
          /\ \A i \in 1..Underway : lines[i] = printed[captured + i]
      BY <1>0, <2>3 DEF IInv, LinesInOrder
    <3>2. captured + Len(lines) <= Len(printed)
      BY <1>1, <3>1 DEF Underway
    <3>3. /\ Len(lines') = Underway + 1 /\ lines'[Underway + 1] = EOF
          /\ \A i \in 1..Underway : lines'[i] = printed[captured + i]
          /\ captured + Len(lines') <= Len(printed) + 1
      <4>1. lines' = Append(lines, EOF)
        BY <1>0, <2>3
      <4>2. Len(lines') = Len(lines) + 1 /\ lines'[Len(lines) + 1] = EOF
        BY <1>2, <4>1
      <4>3. \A i \in 1..Len(lines) : lines'[i] = lines[i]
        BY <1>2, <4>1
      <4>4. captured + Len(lines') <= Len(printed) + 1
        BY <1>1, <3>2, <4>2
      <4> QED
        BY <3>1, <4>2, <4>3, <4>4
    <3> QED
      BY <1>0, <2>1, <3>1, <3>3 DEF LinesInOrder
  <2> QED
    BY <2>2, <2>3
<1>6. SeenIsOffered'
  <2>1. Offered' = Offered
    BY <1>0 DEF Offered
  <2> QED
    BY <1>0, <2>1 DEF IInv, SeenIsOffered
<1>7. ~open \/ "garbled" \in Range(printed)
  <2>1. CASE pipe = <<>>
    BY <1>0, <2>1
  <2>2. CASE pipe # <<>>
    <3>1. Head(pipe) = "garbled" /\ Head(pipe) = pipe[1] /\ Len(pipe) \in Nat \ {0}
      BY <1>0, <1>1, <2>2, EmptySeq, HeadTailProperties
    <3>2. /\ pipe[1] = printed[Len(printed) - Len(pipe) + 1]
          /\ Len(printed) - Len(pipe) + 1 \in 1..Len(printed)
      BY <1>1, <3>1 DEF IInv, PipeIsRest
    <3> QED
      BY <1>1, <3>1, <3>2, LenProperties DEF Range
  <2> QED
    BY <2>1, <2>2
<1>8. ProcessEnds'
  BY <1>0, <1>7 DEF IInv, ProcessEnds, NothingLeftRunning
<1> QED
  BY <1>3, <1>4, <1>5, <1>6, <1>8 DEF IInv

-----------------------------------------------------------------------------
(***************************************************************************)
(* The theorems.                                                           *)
(***************************************************************************)

LEMMA InitInv == Init => IInv
<1> SUFFICES ASSUME Init PROVE IInv
  OBVIOUS
<1> USE DEF Init
<1>1. Len(<<>>) = 0 /\ \A S : <<>> \in Seq(S)
  BY EmptySeq
<1>2. Types
  <2>1. named \in BOOLEAN /\ scoped \in BOOLEAN /\ late \in BOOLEAN /\ open \in BOOLEAN
    OBVIOUS
  <2> QED
    BY <1>1, <2>1, PipeAssumption DEF Types
<1>3. PipeIsRest /\ LinesInOrder
  BY <1>1 DEF PipeIsRest, LinesInOrder, Underway
<1>4. SeenIsOffered
  <2>1. Offered = {}
    BY <1>1, <1>2, OfferedByPlace
  <2> QED
    BY <2>1 DEF SeenIsOffered
<1>5. ProcessEnds
  BY DEF ProcessEnds, NothingLeftRunning
<1> QED
  BY <1>2, <1>3, <1>4, <1>5 DEF IInv

\* What the proofs below rest on.
THEOREM InductiveInvariant == Spec => []IInv
<1>1. ASSUME IInv, [Next]_vars
      PROVE  IInv'
  <2>1. CASE Start
    BY <1>1, <2>1, MovesKeep, TurnsKeep, LineKeeps DEF Start
  <2>2. CASE DeadlinePasses \/ ServerEnds \/ Stopping \/ ChildCloses \/ ChildExits \/ UNCHANGED vars
    BY <1>1, <2>2, MovesKeep DEF Stopping
  <2>3. CASE \E l \in Lines : ChildPrints(l)
    BY <1>1, <2>3, PrintKeeps
  <2>4. CASE Reader
    BY <1>1, <2>4, ReadKeeps, EndKeeps DEF Reader
  <2> QED
    BY <1>1, <2>1, <2>2, <2>3, <2>4 DEF Next
<1> QED
  BY InitInv, <1>1, PTL DEF Spec

\* The variables have their types: what is in the pipe is the end of what was
\* printed, no more than it holds, and start() has not looked at more lines
\* than there are.
THEOREM TypeCorrect == Spec => []TypeOK
<1>1. ASSUME IInv
      PROVE  TypeOK
  <2>1. /\ Types /\ captured + Len(lines) <= Len(printed) + 1
    BY <1>1 DEF IInv, LinesInOrder
  <2>2. IsSuffix(pipe, printed)
    BY <1>1, SuffixByPlace DEF IInv, Types, PipeIsRest
  <2>3. Range(printed) \subseteq Lines /\ Range(lines) \subseteq Lines \cup {EOF}
    <3>1. \A S : \A s \in Seq(S) : Range(s) \subseteq S
      BY LenProperties, ElementOfSeq DEF Range
    <3> QED
      BY <2>1, <3>1 DEF Types
  <2> QED
    BY <2>1, <2>2, <2>3 DEF Types, TypeOK
<1> QED
  BY InductiveInvariant, <1>1, PTL

\* Of a named tunnel start() takes the URL for the hosted port, or the only
\* one it was offered (_fallback and _accept in tunnel.py), whatever the
\* process prints and however the reader thread lags behind it.
THEOREM NoGuess == Spec => []RefusesToGuess
<1>1. IInv => RefusesToGuess
  BY DEF IInv, SeenIsOffered, Offered, RefusesToGuess
<1> QED
  BY InductiveInvariant, <1>1, PTL

\* When start(), the server and stop() are over the process is gone, but for
\* the one way out that does not stop it (start() in a with statement, at the
\* end of the output).
THEOREM ProcessIsGone == Spec => []NothingLeftRunning
BY InductiveInvariant, PTL DEF IInv, ProcessEnds
=============================================================================
