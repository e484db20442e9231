-------------------------- MODULE LogFlusherProofs --------------------------
(***************************************************************************)
(* Theorems about LogFlusher (types, no line without a timer, order while  *)
(* the interval is left alone, and the refinement of LogStream) and about  *)
(* the log that StepLog keeps of a step.                                   *)
(***************************************************************************)
EXTENDS StepLog, SequenceTheorems, TLAPS

USE LinesAssumption
-----------------------------------------------------------------------------
(* Sequences of lines.                                                     *)

\* What is used of concatenation and of Append.
LEMMA ConcatLines == \A r, s \in Seq(Lines) : r \o s \in Seq(Lines)
<1> SUFFICES ASSUME NEW r \in Seq(Lines), NEW s \in Seq(Lines)
             PROVE  r \o s \in Seq(Lines)
  OBVIOUS
<1> QED
  BY ConcatProperties

LEMMA Associative ==
  \A r, s, t \in Seq(Lines) : (r \o s) \o t = r \o (s \o t)
<1> SUFFICES ASSUME NEW r \in Seq(Lines), NEW s \in Seq(Lines), NEW t \in Seq(Lines)
             PROVE  (r \o s) \o t = r \o (s \o t)
  OBVIOUS
<1> QED
  BY ConcatAssociative

LEMMA ConcatNothing == \A r \in Seq(Lines) : r \o <<>> = r
<1> SUFFICES ASSUME NEW r \in Seq(Lines) PROVE r \o <<>> = r
  OBVIOUS
<1> QED
  BY ConcatEmptySeq

LEMMA AppendLine ==
  \A s \in Seq(Lines), l \in Lines :
    /\ <<l>> \in Seq(Lines)
    /\ Append(s, l) \in Seq(Lines)
    /\ Append(s, l) # <<>>
    /\ Append(s, l) = s \o <<l>>
<1> SUFFICES ASSUME NEW s \in Seq(Lines), NEW l \in Lines
             PROVE  /\ <<l>> \in Seq(Lines)
                    /\ Append(s, l) \in Seq(Lines)
                    /\ Append(s, l) # <<>>
                    /\ Append(s, l) = s \o <<l>>
  OBVIOUS
<1>1. <<l>> \in Seq(Lines)
  OBVIOUS
<1>2. Append(s, l) \in Seq(Lines) /\ Append(s, l) # <<>>
  BY AppendProperties
<1>3. Append(s, l) = s \o <<l>>
  BY AppendIsConcat
<1> QED
  BY <1>1, <1>2, <1>3

\* A non-empty sequence is its head and its tail.
LEMMA HeadTail ==
  \A s \in Seq(Lines) : s # <<>> =>
    /\ Head(s) \in Lines
    /\ Tail(s) \in Seq(Lines)
    /\ <<Head(s)>> \o Tail(s) = s
<1> SUFFICES ASSUME NEW s \in Seq(Lines), s # <<>>
             PROVE  /\ Head(s) \in Lines
                    /\ Tail(s) \in Seq(Lines)
                    /\ <<Head(s)>> \o Tail(s) = s
  OBVIOUS
<1>1. Head(s) \in Lines /\ Tail(s) \in Seq(Lines)
  BY HeadTailProperties
<1>2. Len(s) \in Nat \ {0}
  BY EmptySeq
<1>3. SubSeq(s, 1, Len(s)) = <<s[1]>> \o SubSeq(s, 2, Len(s))
  BY <1>2, SubSeqRecursiveFirst
<1>4. SubSeq(s, 1, Len(s)) = s /\ SubSeq(s, 2, Len(s)) = Tail(s) /\ Head(s) = s[1]
  BY <1>2, SubSeqFull, TailIsSubSeq
<1> QED
  BY <1>1, <1>3, <1>4

\* A sequence of lines has lines in it.
LEMMA LinesOf == \A s \in Seq(Lines) : ToSet(s) \subseteq Lines
<1> SUFFICES ASSUME NEW s \in Seq(Lines) PROVE ToSet(s) \subseteq Lines
  OBVIOUS
<1>1. \A i \in DOMAIN s : s[i] \in Lines
  BY LenProperties, ElementOfSeq
<1>2. ToSet(s) = {s[i] : i \in DOMAIN s}
  BY DEF ToSet
<1> QED
  BY <1>1, <1>2

\* The first line of t moves to the end of s.
LEMMA MoveHead ==
  \A r, s, t \in Seq(Lines) : t # <<>> =>
    r \o Append(s, Head(t)) \o Tail(t) = r \o s \o t
<1> SUFFICES ASSUME NEW r \in Seq(Lines), NEW s \in Seq(Lines), NEW t \in Seq(Lines),
                    t # <<>>
             PROVE  r \o Append(s, Head(t)) \o Tail(t) = r \o s \o t
  OBVIOUS
<1> DEFINE h == <<Head(t)>>
           v == Tail(t)
<1>1. h \in Seq(Lines) /\ v \in Seq(Lines) /\ h \o v = t
  BY HeadTail, AppendLine
<1>2. Append(s, Head(t)) = s \o h
  BY HeadTail, AppendLine
<1> HIDE DEF h, v
<1>3. r \o (s \o h) = (r \o s) \o h
  <2>1. (r \o s) \o h = r \o (s \o h)
    BY <1>1, Associative, SMTT(20)
  <2> QED
    BY <2>1, Zenon
<1>4. ((r \o s) \o h) \o v = (r \o s) \o (h \o v)
  <2>1. r \o s \in Seq(Lines)
    BY ConcatLines
  <2> DEFINE q == r \o s
  <2> HIDE DEF q
  <2>2. (q \o h) \o v = q \o (h \o v)
    BY <1>1, <2>1, Associative DEF q
  <2> QED
    BY <2>2 DEF q
<1> QED
  BY <1>1, <1>2, <1>3, <1>4 DEF v

-----------------------------------------------------------------------------
(* Type correctness.                                                       *)

\* Every variable of the flusher keeps its type.
THEOREM TypeCorrect == Spec => []TypeOK
<1>1. Init => TypeOK
  <2>1. Init => changed \in BOOLEAN
    BY Zenon DEF Init
  <2>2. Init => /\ posted \in [Executions -> Seq(Lines)]
                /\ tasks \in [Executions -> Seq(Lines)]
                /\ interval \in {"zero", "positive"}
                /\ buffer \in [Executions -> Seq(Lines)]
                /\ pending \subseteq Executions
                /\ sent \in [Executions -> Seq(Lines)]
                /\ dropped \subseteq Lines
    BY DEF Init
  <2> QED
    BY <2>1, <2>2 DEF TypeOK
<1>2. TypeOK /\ [Next]_vars => TypeOK'
  <2> SUFFICES ASSUME TypeOK, [Next]_vars PROVE TypeOK'
    OBVIOUS
  <2> USE DEF TypeOK
  <2>1. ASSUME NEW l \in Lines, ScheduleAppend(l) PROVE TypeOK'
    BY <2>1 DEF ScheduleAppend
  <2>2. ASSUME NEW e \in Executions, AppendNow(e) PROVE TypeOK'
    <3>1. /\ <<Head(tasks[e])>> \in Seq(Lines)
          /\ Tail(tasks[e]) \in Seq(Lines)
      BY <2>2, HeadTail, AppendLine DEF AppendNow
    <3>2. sent[e] \o <<Head(tasks[e])>> \in Seq(Lines)
      BY <3>1, ConcatLines
    <3>3. tasks' \in [Executions -> Seq(Lines)]
      BY <2>2, <3>1 DEF AppendNow
    <3>4. sent' \in [Executions -> Seq(Lines)]
      BY <2>2, <3>2 DEF AppendNow, Broadcast
    <3>5. dropped' \subseteq Lines
      BY <2>2, <3>1, LinesOf DEF AppendNow, Broadcast
    <3> QED
      BY <2>2, <3>3, <3>4, <3>5 DEF AppendNow
  <2>3. ASSUME NEW e \in Executions, AppendBuffered(e) PROVE TypeOK'
    <3>1. /\ Head(tasks[e]) \in Lines
          /\ Tail(tasks[e]) \in Seq(Lines)
      BY <2>3, HeadTail DEF AppendBuffered
    <3>2. Append(buffer[e], Head(tasks[e])) \in Seq(Lines)
      BY <3>1, AppendLine
    <3> QED
      BY <2>3, <3>1, <3>2 DEF AppendBuffered
  <2>4. ASSUME NEW e \in Executions, Drain(e) PROVE TypeOK'
    <3>1. sent[e] \o buffer[e] \in Seq(Lines)
      BY ConcatLines
    <3>2. sent' \in [Executions -> Seq(Lines)]
      BY <2>4, <3>1 DEF Drain, Broadcast
    <3>3. buffer' \in [Executions -> Seq(Lines)]
      BY <2>4, EmptySeq DEF Drain
    <3>4. dropped' \subseteq Lines
      BY <2>4, LinesOf DEF Drain, Broadcast
    <3> QED
      BY <2>4, <3>2, <3>3, <3>4 DEF Drain
  <2>5. CASE Configure
    BY <2>5 DEF Configure
  <2>6. CASE UNCHANGED vars
    BY <2>6 DEF vars
  <2> QED
    BY <2>1, <2>2, <2>3, <2>4, <2>5, <2>6 DEF Next, Loop
<1> QED
  BY <1>1, <1>2, PTL DEF Spec

\* An execution has lines buffered exactly while a timer for it runs, whatever
\* the interval does and whichever broadcasts fail.
THEOREM TimersCover == Spec => []NothingStuck
<1>1. Init => NothingStuck
  BY DEF Init, NothingStuck
<1>2. TypeOK /\ NothingStuck /\ [Next]_vars => NothingStuck'
  <2> SUFFICES ASSUME TypeOK, NothingStuck, [Next]_vars PROVE NothingStuck'
    OBVIOUS
  <2> USE DEF TypeOK, NothingStuck
  <2>1. ASSUME NEW l \in Lines, ScheduleAppend(l) PROVE NothingStuck'
    BY <2>1 DEF ScheduleAppend
  <2>2. ASSUME NEW e \in Executions, AppendNow(e) PROVE NothingStuck'
    BY <2>2 DEF AppendNow
  <2>3. ASSUME NEW e \in Executions, AppendBuffered(e) PROVE NothingStuck'
    <3>1. Head(tasks[e]) \in Lines
      BY <2>3, HeadTail DEF AppendBuffered
    <3>2. buffer'[e] # <<>>
      <4>1. Append(buffer[e], Head(tasks[e])) # <<>>
        BY <3>1, AppendLine
      <4> QED
        BY <2>3, <4>1 DEF AppendBuffered
    <3> QED
      BY <2>3, <3>2 DEF AppendBuffered
  <2>4. ASSUME NEW e \in Executions, Drain(e) PROVE NothingStuck'
    BY <2>4 DEF Drain
  <2>5. CASE Configure
    BY <2>5 DEF Configure
  <2>6. CASE UNCHANGED vars
    BY <2>6 DEF vars
  <2> QED
    BY <2>1, <2>2, <2>3, <2>4, <2>5, <2>6 DEF Next, Loop
<1> QED
  BY <1>1, <1>2, TypeCorrect, PTL DEF Spec

-----------------------------------------------------------------------------
(* A line is held in one place at a time: the buffer and the tasks of its  *)
(* execution have no line in common and repeat none, and all of them have  *)
(* been posted for that execution.                                         *)

Distinct(s) == \A i, j \in DOMAIN s : s[i] = s[j] => i = j

HeldOnce ==
  \A e \in Executions :
    /\ Distinct(buffer[e])
    /\ Distinct(tasks[e])
    /\ ToSet(buffer[e]) \cap ToSet(tasks[e]) = {}
    /\ ToSet(buffer[e]) \cup ToSet(tasks[e]) \subseteq ToSet(posted[e])
    /\ \A l \in ToSet(posted[e]) : ExecOf[l] = e

\* The lines of a sequence that grew by one.
LEMMA ToSetAppend ==
  \A s \in Seq(Lines), l \in Lines :
    /\ ToSet(Append(s, l)) = ToSet(s) \cup {l}
    /\ Distinct(s) /\ l \notin ToSet(s) => Distinct(Append(s, l))
<1> SUFFICES ASSUME NEW s \in Seq(Lines), NEW l \in Lines
             PROVE  /\ ToSet(Append(s, l)) = ToSet(s) \cup {l}
                    /\ Distinct(s) /\ l \notin ToSet(s) => Distinct(Append(s, l))
  OBVIOUS
<1>1. /\ Len(s) \in Nat
      /\ DOMAIN s = 1 .. Len(s)
      /\ DOMAIN Append(s, l) = 1 .. Len(s) + 1
      /\ \A i \in 1 .. Len(s) : Append(s, l)[i] = s[i]
      /\ Append(s, l)[Len(s) + 1] = l
  BY LenProperties, AppendProperties
<1>2. ToSet(Append(s, l)) = ToSet(s) \cup {l}
  BY <1>1 DEF ToSet
<1>3. ASSUME Distinct(s), l \notin ToSet(s) PROVE Distinct(Append(s, l))
  BY <1>1, <1>3 DEF ToSet, Distinct
<1> QED
  BY <1>2, <1>3

\* A sequence of distinct lines: its tail has all but the head.
LEMMA ToSetTail ==
  \A s \in Seq(Lines) : s # <<>> =>
    /\ Head(s) \in ToSet(s)
    /\ ToSet(s) = ToSet(Tail(s)) \cup {Head(s)}
    /\ Distinct(s) => Distinct(Tail(s)) /\ Head(s) \notin ToSet(Tail(s))
<1> SUFFICES ASSUME NEW s \in Seq(Lines), s # <<>>
             PROVE  /\ Head(s) \in ToSet(s)
                    /\ ToSet(s) = ToSet(Tail(s)) \cup {Head(s)}
                    /\ Distinct(s) => Distinct(Tail(s)) /\ Head(s) \notin ToSet(Tail(s))
  OBVIOUS
<1>1. /\ Len(s) \in Nat \ {0}
      /\ DOMAIN s = 1 .. Len(s)
      /\ DOMAIN Tail(s) = 1 .. Len(s) - 1
      /\ \A i \in 1 .. Len(s) - 1 : Tail(s)[i] = s[i + 1]
      /\ Head(s) = s[1]
  <2>1. Len(s) \in Nat \ {0} /\ DOMAIN s = 1 .. Len(s)
    BY EmptySeq, LenProperties
  <2>2. /\ Tail(s) \in Seq(Lines)
        /\ Len(Tail(s)) = Len(s) - 1
        /\ \A i \in 1 .. Len(Tail(s)) : Tail(s)[i] = s[i + 1]
    BY HeadTailProperties
  <2>3. DOMAIN Tail(s) = 1 .. Len(Tail(s))
    BY <2>2, LenProperties
  <2> QED
    BY <2>1, <2>2, <2>3
<1>2. Head(s) \in ToSet(s)
  BY <1>1 DEF ToSet
<1>3. ToSet(s) = ToSet(Tail(s)) \cup {Head(s)}
  <2>1. ASSUME NEW i \in 1 .. Len(s) PROVE s[i] \in ToSet(Tail(s)) \cup {Head(s)}
    <3>1. CASE i = 1
      BY <1>1, <3>1
    <3>2. CASE i # 1
      <4>1. i - 1 \in 1 .. Len(s) - 1 /\ Tail(s)[i - 1] = s[i]
        BY <1>1, <3>2
      <4> QED
        BY <1>1, <4>1 DEF ToSet
    <3> QED
      BY <3>1, <3>2
  <2>2. ToSet(Tail(s)) \subseteq ToSet(s)
    BY <1>1 DEF ToSet
  <2> QED
    BY <1>1, <1>2, <2>1, <2>2 DEF ToSet
<1>4. ASSUME Distinct(s) PROVE Distinct(Tail(s)) /\ Head(s) \notin ToSet(Tail(s))
  BY <1>1, <1>4 DEF ToSet, Distinct
<1> QED
  BY <1>2, <1>3, <1>4

LEMMA ToSetConcat ==
  \A r, s \in Seq(Lines) : ToSet(r \o s) = ToSet(r) \cup ToSet(s)
<1> SUFFICES ASSUME NEW r \in Seq(Lines), NEW s \in Seq(Lines)
             PROVE  ToSet(r \o s) = ToSet(r) \cup ToSet(s)
  OBVIOUS
<1>1. Range(r \o s) = Range(r) \cup Range(s)
  BY RangeConcatenation
<1> QED
  BY <1>1 DEF ToSet, Range

\* What Held says of the step of an execution that leaves the others alone.
LEMMA OneExecution ==
  ASSUME TypeOK, HeldOnce, NEW e \in Executions,
         \A f \in Executions \ {e} : /\ buffer'[f] = buffer[f]
                                    /\ tasks'[f] = tasks[f]
                                    /\ posted'[f] = posted[f],
         /\ Distinct(buffer'[e])
         /\ Distinct(tasks'[e])
         /\ ToSet(buffer'[e]) \cap ToSet(tasks'[e]) = {}
         /\ ToSet(buffer'[e]) \cup ToSet(tasks'[e]) \subseteq ToSet(posted'[e])
         /\ \A l \in ToSet(posted'[e]) : ExecOf[l] = e
  PROVE  HeldOnce'
BY DEF HeldOnce

LEMMA HeldOnceInvariant == Spec => []HeldOnce
<1>1. Init => HeldOnce
  BY DEF Init, HeldOnce, Distinct, ToSet
<1>2. TypeOK /\ HeldOnce /\ [Next]_vars => HeldOnce'
  <2> SUFFICES ASSUME TypeOK, HeldOnce, [Next]_vars PROVE HeldOnce'
    OBVIOUS
  <2>0. \A e \in Executions : /\ posted[e] \in Seq(Lines)
                              /\ buffer[e] \in Seq(Lines)
                              /\ tasks[e] \in Seq(Lines)
    BY DEF TypeOK
  <2>h. \A e \in Executions :
          /\ Distinct(buffer[e])
          /\ ToSet(buffer[e]) \cap ToSet(tasks[e]) = {}
          /\ ToSet(buffer[e]) \cup ToSet(tasks[e]) \subseteq ToSet(posted[e])
          /\ \A l \in ToSet(posted[e]) : ExecOf[l] = e
    BY DEF HeldOnce
  <2>1. ASSUME NEW l \in Lines, ScheduleAppend(l) PROVE HeldOnce'
    <3>1. PICK e \in Executions : e = ExecOf[l]
      OBVIOUS
    <3>2. /\ l \notin ToSet(posted[e])
          /\ posted' = [posted EXCEPT ![e] = Append(posted[e], l)]
          /\ tasks' = [tasks EXCEPT ![e] = Append(tasks[e], l)]
          /\ buffer' = buffer
      BY <2>1, <3>1 DEF ScheduleAppend
    <3>3. /\ posted'[e] = Append(posted[e], l)
          /\ tasks'[e] = Append(tasks[e], l)
      BY <3>2 DEF TypeOK
    <3>4. /\ ToSet(posted'[e]) = ToSet(posted[e]) \cup {l}
          /\ ToSet(tasks'[e]) = ToSet(tasks[e]) \cup {l}
      BY <2>0, <3>3, ToSetAppend
    <3>5. l \notin ToSet(tasks[e]) /\ l \notin ToSet(buffer[e])
      BY <3>2 DEF HeldOnce
    <3>6. Distinct(tasks'[e])
      BY <2>0, <3>3, <3>5, ToSetAppend DEF HeldOnce
    <3>7. /\ Distinct(buffer'[e])
          /\ ToSet(buffer'[e]) \cap ToSet(tasks'[e]) = {}
          /\ ToSet(buffer'[e]) \cup ToSet(tasks'[e]) \subseteq ToSet(posted'[e])
          /\ \A k \in ToSet(posted'[e]) : ExecOf[k] = e
      <4>1. buffer'[e] = buffer[e]
        BY <3>2
      <4>2. \A k \in ToSet(posted[e]) \cup {l} : ExecOf[k] = e
        BY <2>h, <3>1
      <4> QED
        BY <2>h, <3>4, <3>5, <4>1, <4>2
    <3>8. \A f \in Executions \ {e} : /\ buffer'[f] = buffer[f]
                                      /\ tasks'[f] = tasks[f]
                                      /\ posted'[f] = posted[f]
      BY <3>2 DEF TypeOK
    <3> QED
      BY <3>6, <3>7, <3>8, OneExecution
  <2>2. ASSUME NEW e \in Executions, AppendNow(e) PROVE HeldOnce'
    <3>1. /\ tasks[e] # <<>>
          /\ tasks' = [tasks EXCEPT ![e] = Tail(tasks[e])]
          /\ buffer' = buffer /\ posted' = posted
      BY <2>2 DEF AppendNow
    <3>2. tasks'[e] = Tail(tasks[e])
      BY <3>1 DEF TypeOK
    <3>3. /\ ToSet(tasks'[e]) \subseteq ToSet(tasks[e])
          /\ Distinct(tasks'[e])
      BY <2>0, <3>1, <3>2, ToSetTail DEF HeldOnce
    <3>4. \A f \in Executions \ {e} : tasks'[f] = tasks[f]
      BY <3>1 DEF TypeOK
    <3> QED
      BY <3>1, <3>3, <3>4, OneExecution DEF HeldOnce
  <2>3. ASSUME NEW e \in Executions, AppendBuffered(e) PROVE HeldOnce'
    <3> DEFINE h == Head(tasks[e])
    <3>1. /\ tasks[e] # <<>>
          /\ tasks' = [tasks EXCEPT ![e] = Tail(tasks[e])]
          /\ buffer' = [buffer EXCEPT ![e] = Append(buffer[e], h)]
          /\ posted' = posted
      BY <2>3 DEF AppendBuffered
    <3>2. tasks'[e] = Tail(tasks[e]) /\ buffer'[e] = Append(buffer[e], h)
      BY <3>1 DEF TypeOK
    <3>3. /\ h \in Lines
          /\ h \in ToSet(tasks[e])
          /\ ToSet(tasks[e]) = ToSet(tasks'[e]) \cup {h}
          /\ Distinct(tasks'[e])
          /\ h \notin ToSet(tasks'[e])
      BY <2>0, <3>1, <3>2, HeadTail, ToSetTail DEF HeldOnce
    <3>4. \A f \in Executions \ {e} : tasks'[f] = tasks[f] /\ buffer'[f] = buffer[f]
      BY <3>1 DEF TypeOK
    <3> HIDE DEF h
    <3>5. h \notin ToSet(buffer[e])
      BY <3>3 DEF HeldOnce
    <3>6. /\ ToSet(buffer'[e]) = ToSet(buffer[e]) \cup {h}
          /\ Distinct(buffer'[e])
      BY <2>0, <3>2, <3>3, <3>5, ToSetAppend DEF HeldOnce
    <3>7. /\ ToSet(buffer'[e]) \cap ToSet(tasks'[e]) = {}
          /\ ToSet(buffer'[e]) \cup ToSet(tasks'[e]) \subseteq ToSet(posted'[e])
          /\ \A k \in ToSet(posted'[e]) : ExecOf[k] = e
      <4>1. posted'[e] = posted[e]
        BY <3>1
      <4> QED
        BY <2>h, <3>3, <3>6, <4>1
    <3> QED
      BY <3>1, <3>3, <3>4, <3>6, <3>7, OneExecution
  <2>4. ASSUME NEW e \in Executions, Drain(e) PROVE HeldOnce'
    <3>1. /\ buffer' = [buffer EXCEPT ![e] = <<>>]
          /\ tasks' = tasks /\ posted' = posted
      BY <2>4 DEF Drain
    <3>2. buffer'[e] = <<>>
      BY <3>1 DEF TypeOK
    <3>3. ToSet(buffer'[e]) = {} /\ Distinct(buffer'[e])
      BY <3>2 DEF ToSet, Distinct
    <3>4. \A f \in Executions \ {e} : buffer'[f] = buffer[f]
      BY <3>1 DEF TypeOK
    <3> QED
      BY <3>1, <3>3, <3>4, OneExecution DEF HeldOnce
  <2>5. CASE Configure
    BY <2>5 DEF Configure, HeldOnce
  <2>6. CASE UNCHANGED vars
    BY <2>6 DEF vars, HeldOnce
  <2> QED
    BY <2>1, <2>2, <2>3, <2>4, <2>5, <2>6 DEF Next, Loop
<1> QED
  BY <1>1, <1>2, TypeCorrect, PTL DEF Spec

-----------------------------------------------------------------------------
(* Order.  With an interval of zero that was never changed the buffer      *)
(* stays empty, so that nothing can overtake it.                           *)

EmptyWhenImmediate ==
  ~changed /\ interval = "zero" => \A e \in Executions : buffer[e] = <<>>

\* A line of e whose broadcast raises disturbs e.
LEMMA DropDisturbs ==
  ASSUME NEW e \in Executions, NEW lines \in Seq(Lines), lines # <<>>,
         \A l \in ToSet(lines) : ExecOf[l] = e,
         dropped' = dropped \cup ToSet(lines)
  PROVE  ~Undisturbed(e)'
<1>1. Head(lines) \in ToSet(lines)
  BY ToSetTail
<1> QED
  BY <1>1 DEF Undisturbed

\* While nobody changes the interval and no broadcast of them fails, the lines of
\* an execution go out in the order they were scheduled, none missing and none
\* twice.
THEOREM LinesInOrder == Spec => []InOrder
<1> DEFINE Inv == InOrder /\ EmptyWhenImmediate
<1>1. Init => Inv
  BY DEF Init, InOrder, EmptyWhenImmediate
<1>2. TypeOK /\ HeldOnce /\ Inv /\ [Next]_vars => Inv'
  <2> SUFFICES ASSUME TypeOK, HeldOnce, InOrder, EmptyWhenImmediate, [Next]_vars
               PROVE  InOrder' /\ EmptyWhenImmediate'
    OBVIOUS
  <2>0. /\ \A e \in Executions : /\ sent[e] \in Seq(Lines)
                                 /\ buffer[e] \in Seq(Lines)
                                 /\ tasks[e] \in Seq(Lines)
        /\ DOMAIN sent = Executions /\ DOMAIN buffer = Executions
        /\ DOMAIN tasks = Executions /\ DOMAIN posted = Executions
    BY DEF TypeOK
  <2>1. ASSUME NEW l \in Lines, ScheduleAppend(l)
        PROVE  InOrder' /\ EmptyWhenImmediate'
    <3>1. PICK e \in Executions : e = ExecOf[l]
      OBVIOUS
    <3>2. sent[e] \o buffer[e] \o Append(tasks[e], l)
            = Append(sent[e] \o buffer[e] \o tasks[e], l)
      <4>1. sent[e] \o buffer[e] \in Seq(Lines)
        BY <2>0, ConcatLines
      <4>2. (sent[e] \o buffer[e]) \o tasks[e] \in Seq(Lines)
        BY <2>0, <4>1, ConcatLines
      <4>3. (sent[e] \o buffer[e]) \o (tasks[e] \o <<l>>)
              = ((sent[e] \o buffer[e]) \o tasks[e]) \o <<l>>
        <5> DEFINE q == sent[e] \o buffer[e]
                   u == tasks[e]
                   v == <<l>>
        <5>1. q \in Seq(Lines) /\ u \in Seq(Lines) /\ v \in Seq(Lines)
          BY <2>0, <4>1
        <5> HIDE DEF q, u, v
        <5>2. q \o (u \o v) = (q \o u) \o v
          BY <5>1, Associative
        <5> QED
          BY <5>2 DEF q, u, v
      <4> QED
        BY <2>0, <4>2, <4>3, AppendLine
    <3>3. /\ posted' = [posted EXCEPT ![e] = Append(posted[e], l)]
          /\ tasks' = [tasks EXCEPT ![e] = Append(tasks[e], l)]
          /\ UNCHANGED <<interval, buffer, sent, changed, dropped>>
      BY <2>1, <3>1 DEF ScheduleAppend
    <3> QED
      BY <2>0, <3>2, <3>3 DEF InOrder, EmptyWhenImmediate, Undisturbed
  <2>2. ASSUME NEW e \in Executions, AppendNow(e)
        PROVE  InOrder' /\ EmptyWhenImmediate'
    <3>0. EmptyWhenImmediate'
      BY <2>2 DEF AppendNow, EmptyWhenImmediate
    <3>a. \A f \in Executions : Undisturbed(f)' => Undisturbed(f)
      BY <2>2 DEF AppendNow, Broadcast, Undisturbed
    <3> SUFFICES ASSUME ~changed PROVE InOrder'
      BY <2>2, <3>0 DEF InOrder, Undisturbed, AppendNow
    <3>1. buffer[e] = <<>> /\ tasks[e] # <<>>
      BY <2>2 DEF AppendNow, EmptyWhenImmediate
    <3>2. tasks' = [tasks EXCEPT ![e] = Tail(tasks[e])] /\ UNCHANGED <<posted, buffer>>
      BY <2>2 DEF AppendNow
    <3>3. (sent[e] \o <<Head(tasks[e])>>) \o <<>> \o Tail(tasks[e])
            = sent[e] \o <<>> \o tasks[e]
      <4>1. /\ <<Head(tasks[e])>> \in Seq(Lines)
            /\ Tail(tasks[e]) \in Seq(Lines)
            /\ <<Head(tasks[e])>> \o Tail(tasks[e]) = tasks[e]
        BY <2>0, <3>1, HeadTail, AppendLine
      <4>2. /\ (sent[e] \o <<Head(tasks[e])>>) \o Tail(tasks[e])
                 = sent[e] \o (<<Head(tasks[e])>> \o Tail(tasks[e]))
            /\ sent[e] \o <<Head(tasks[e])>> \in Seq(Lines)
        <5> DEFINE q == sent[e]
                   u == <<Head(tasks[e])>>
                   v == Tail(tasks[e])
        <5>1. q \in Seq(Lines) /\ u \in Seq(Lines) /\ v \in Seq(Lines)
          BY <2>0, <4>1
        <5> HIDE DEF q, u, v
        <5>2. (q \o u) \o v = q \o (u \o v) /\ q \o u \in Seq(Lines)
          BY <5>1, Associative, ConcatLines
        <5> QED
          BY <5>2 DEF q, u, v
      <4> QED
        BY <2>0, <4>1, <4>2, ConcatNothing
    <3>4. CASE sent' = [sent EXCEPT ![e] = sent[e] \o <<Head(tasks[e])>>]
      BY <2>0, <3>a, <3>1, <3>2, <3>3, <3>4 DEF InOrder
    <3>5. CASE dropped' = dropped \cup ToSet(<<Head(tasks[e])>>) /\ sent' = sent
      <4> DEFINE lines == <<Head(tasks[e])>>
      <4>1. lines \in Seq(Lines) /\ lines # <<>> /\ ToSet(lines) = {Head(tasks[e])}
        BY <2>0, <3>1, HeadTail, AppendLine DEF ToSet
      <4>2. Head(tasks[e]) \in ToSet(posted[e])
        BY <2>0, <3>1, ToSetTail DEF HeldOnce
      <4>3. \A l \in ToSet(lines) : ExecOf[l] = e
        BY <4>1, <4>2 DEF HeldOnce
      <4> HIDE DEF lines
      <4>4. dropped' = dropped \cup ToSet(lines)
        BY <3>5 DEF lines
      <4>5. ~Undisturbed(e)'
        BY <4>1, <4>3, <4>4, DropDisturbs
      <4> QED
        BY <2>0, <3>a, <3>2, <3>5, <4>5 DEF InOrder
    <3> QED
      BY <2>2, <3>4, <3>5 DEF AppendNow, Broadcast
  <2>3. ASSUME NEW e \in Executions, AppendBuffered(e)
        PROVE  InOrder' /\ EmptyWhenImmediate'
    <3>1. /\ tasks[e] # <<>>
          /\ tasks' = [tasks EXCEPT ![e] = Tail(tasks[e])]
          /\ buffer' = [buffer EXCEPT ![e] = Append(buffer[e], Head(tasks[e]))]
          /\ interval # "zero"
          /\ UNCHANGED <<posted, interval, sent, changed, dropped>>
      BY <2>3 DEF AppendBuffered
    <3>2. sent[e] \o Append(buffer[e], Head(tasks[e])) \o Tail(tasks[e])
            = sent[e] \o buffer[e] \o tasks[e]
      BY <2>0, <3>1, MoveHead
    <3> QED
      BY <2>0, <3>1, <3>2 DEF InOrder, EmptyWhenImmediate, Undisturbed
  <2>4. ASSUME NEW e \in Executions, Drain(e)
        PROVE  InOrder' /\ EmptyWhenImmediate'
    <3>0. EmptyWhenImmediate'
      BY <2>4 DEF Drain, EmptyWhenImmediate
    <3>a. \A f \in Executions : Undisturbed(f)' => Undisturbed(f)
      BY <2>4 DEF Drain, Broadcast, Undisturbed
    <3>b. buffer' = [buffer EXCEPT ![e] = <<>>] /\ UNCHANGED <<posted, tasks>>
      BY <2>4 DEF Drain
    <3>c. (sent[e] \o buffer[e]) \o <<>> \o tasks[e] = sent[e] \o buffer[e] \o tasks[e]
      BY <2>0, ConcatLines, ConcatNothing
    <3>1. CASE buffer[e] = <<>>
      <4>1. sent' = sent /\ buffer' = buffer
        BY <2>4, <3>1, <3>b DEF Drain, TypeOK
      <4> QED
        BY <2>0, <3>0, <3>a, <3>b, <4>1 DEF InOrder
    <3>2. CASE buffer[e] # <<>> /\ sent' = [sent EXCEPT ![e] = sent[e] \o buffer[e]]
      BY <2>0, <3>0, <3>a, <3>b, <3>c, <3>2 DEF InOrder
    <3>3. CASE /\ buffer[e] # <<>>
               /\ dropped' = dropped \cup ToSet(buffer[e]) /\ sent' = sent
      <4>1. \A l \in ToSet(buffer[e]) : ExecOf[l] = e
        BY DEF HeldOnce
      <4>2. ~Undisturbed(e)'
        BY <2>0, <3>3, <4>1, DropDisturbs
      <4> QED
        BY <2>0, <3>0, <3>a, <3>b, <3>3, <4>2 DEF InOrder
    <3> QED
      BY <2>4, <3>1, <3>2, <3>3 DEF Drain, Broadcast
  <2>5. CASE Configure
    BY <2>5 DEF Configure, InOrder, EmptyWhenImmediate, Undisturbed
  <2>6. CASE UNCHANGED vars
    BY <2>6 DEF vars, InOrder, EmptyWhenImmediate, Undisturbed
  <2> QED
    BY <2>1, <2>2, <2>3, <2>4, <2>5, <2>6 DEF Next, Loop
<1>3. Inv => InOrder
  OBVIOUS
<1> QED
  BY <1>1, <1>2, <1>3, TypeCorrect, HeldOnceInvariant, PTL DEF Spec

-----------------------------------------------------------------------------
(* Refinement.                                                             *)

Held(e) == ToSet(buffer[e]) \cup ToSet(tasks[e])

\* Taking S from what e holds takes S from what all hold.
LEMMA TakeFromOne ==
  ASSUME TypeOK, HeldOnce, NEW e \in Executions, NEW S, S \subseteq Held(e),
         Held(e)' = Held(e) \ S,
         \A f \in Executions \ {e} : Held(f)' = Held(f)
  PROVE  UNION {Held(f)' : f \in Executions}
           = (UNION {Held(f) : f \in Executions}) \ S
<1>1. ASSUME NEW f \in Executions \ {e} PROVE Held(f) \cap S = {}
  <2>1. \A l \in Held(f) : ExecOf[l] = f
    BY DEF HeldOnce, Held
  <2>2. \A l \in S : ExecOf[l] = e
    BY DEF HeldOnce, Held
  <2> QED
    BY <2>1, <2>2
<1>2. \A f \in Executions : Held(f)' = Held(f) \ S
  BY <1>1
<1> QED
  BY <1>2

\* However the interval changes and broadcasts fail, each line leaves the
\* flusher at most once and only as part of a broadcast: the safety half of
\* StreamSpec.
THEOREM FlusherIsStream == Spec => Stream!Spec
<1>1. Init => Stream!Init
  <2> SUFFICES ASSUME Init PROVE Stream!Init
    OBVIOUS
  <2>1. \A e \in Executions : /\ ToSet(posted[e]) = {}
                              /\ ToSet(buffer[e]) = {}
                              /\ ToSet(tasks[e]) = {}
                              /\ ToSet(sent[e]) = {}
    BY DEF Init, ToSet
  <2> QED
    BY <2>1 DEF Stream!Init
<1>2. TypeOK /\ HeldOnce /\ [Next]_vars => [Stream!Next]_(Stream!vars)
  <2> SUFFICES ASSUME TypeOK, HeldOnce, [Next]_vars
               PROVE  Stream!Next \/ UNCHANGED Stream!vars
    OBVIOUS
  <2> DEFINE accepted == UNION {ToSet(posted[e]) : e \in Executions}
             waiting == UNION {Held(e) : e \in Executions}
             delivered == UNION {ToSet(sent[e]) : e \in Executions}
  <2>0. \A e \in Executions : /\ posted[e] \in Seq(Lines)
                              /\ buffer[e] \in Seq(Lines)
                              /\ tasks[e] \in Seq(Lines)
                              /\ sent[e] \in Seq(Lines)
    BY DEF TypeOK
  <2>a. ASSUME NEW l \in Lines, l \notin accepted,
               accepted' = accepted \cup {l},
               waiting' = waiting \cup {l},
               delivered' = delivered
        PROVE  Stream!Next
    BY <2>a DEF Stream!Next, Stream!Accept, Held
  <2>b. ASSUME NEW S \in SUBSET Lines, S # {}, S \subseteq waiting,
               accepted' = accepted,
               waiting' = waiting \ S,
               delivered' = delivered \cup S \/ delivered' = delivered
        PROVE  Stream!Next
    BY <2>b DEF Stream!Next, Stream!HandOff, Held
  <2>c. ASSUME accepted' = accepted, waiting' = waiting, delivered' = delivered
        PROVE  UNCHANGED Stream!vars
    BY <2>c DEF Stream!vars, Held
  <2>d. ASSUME NEW e \in Executions, NEW lines \in Seq(Lines),
               sent' = [sent EXCEPT ![e] = sent[e] \o lines]
        PROVE  delivered' = delivered \cup ToSet(lines)
    <3>1. sent'[e] = sent[e] \o lines /\ \A f \in Executions \ {e} : sent'[f] = sent[f]
      BY <2>d DEF TypeOK
    <3>2. ToSet(sent'[e]) = ToSet(sent[e]) \cup ToSet(lines)
      BY <2>0, <3>1, ToSetConcat
    <3> QED
      BY <3>1, <3>2
  <2>1. ASSUME NEW l \in Lines, ScheduleAppend(l) PROVE Stream!Next
    <3>1. PICK e \in Executions : e = ExecOf[l]
      BY LinesAssumption
    <3>2. /\ l \notin ToSet(posted[e])
          /\ posted' = [posted EXCEPT ![e] = Append(posted[e], l)]
          /\ tasks' = [tasks EXCEPT ![e] = Append(tasks[e], l)]
          /\ buffer' = buffer /\ sent' = sent
      BY <2>1, <3>1 DEF ScheduleAppend
    <3>3. /\ posted'[e] = Append(posted[e], l)
          /\ tasks'[e] = Append(tasks[e], l)
          /\ \A f \in Executions \ {e} : posted'[f] = posted[f] /\ tasks'[f] = tasks[f]
      BY <3>2 DEF TypeOK
    <3>4. /\ ToSet(posted'[e]) = ToSet(posted[e]) \cup {l}
          /\ ToSet(tasks'[e]) = ToSet(tasks[e]) \cup {l}
      BY <2>0, <3>3, ToSetAppend
    <3>5. l \notin accepted
      BY <3>1, <3>2 DEF HeldOnce
    <3>6. accepted' = accepted \cup {l}
      BY <3>3, <3>4
    <3>7. /\ Held(e)' = Held(e) \cup {l}
          /\ \A f \in Executions \ {e} : Held(f)' = Held(f)
      BY <3>2, <3>3, <3>4 DEF Held
    <3>8. waiting' = waiting \cup {l}
      BY <3>7
    <3>9. delivered' = delivered
      BY <3>2
    <3> QED
      BY <3>5, <3>6, <3>8, <3>9, <2>a
  <2>2. ASSUME NEW e \in Executions, AppendNow(e) PROVE Stream!Next
    <3> DEFINE h == Head(tasks[e])
    <3>1. /\ tasks[e] # <<>>
          /\ tasks' = [tasks EXCEPT ![e] = Tail(tasks[e])]
          /\ buffer' = buffer /\ posted' = posted
          /\ \/ sent' = [sent EXCEPT ![e] = sent[e] \o <<h>>]
             \/ sent' = sent
      BY <2>2 DEF AppendNow, Broadcast
    <3>2. /\ tasks'[e] = Tail(tasks[e])
          /\ \A f \in Executions \ {e} : tasks'[f] = tasks[f]
      BY <3>1 DEF TypeOK
    <3>3. /\ h \in Lines
          /\ h \in ToSet(tasks[e])
          /\ ToSet(tasks[e]) = ToSet(tasks'[e]) \cup {h}
          /\ h \notin ToSet(tasks'[e])
      BY <2>0, <3>1, <3>2, HeadTail, ToSetTail DEF HeldOnce
    <3>4. <<h>> \in Seq(Lines) /\ ToSet(<<h>>) = {h}
      BY <3>3 DEF ToSet
    <3> HIDE DEF h
    <3>5. delivered' = delivered \cup {h} \/ delivered' = delivered
      <4>1. CASE sent' = [sent EXCEPT ![e] = sent[e] \o <<h>>]
        BY <2>d, <3>4, <4>1
      <4>2. CASE sent' = sent
        BY <4>2
      <4> QED
        BY <3>1, <4>1, <4>2
    <3>6. Held(e)' = Held(e) \ {h} /\ {h} \subseteq Held(e)
      <4>1. h \notin ToSet(buffer[e]) /\ ToSet(buffer[e]) = ToSet(buffer[e])'
        BY <3>1, <3>3 DEF HeldOnce
      <4> QED
        BY <3>3, <4>1 DEF Held
    <3>7. \A f \in Executions \ {e} : Held(f)' = Held(f)
      BY <3>1, <3>2 DEF Held
    <3>8. waiting' = waiting \ {h}
      BY <3>6, <3>7, TakeFromOne
    <3>9. {h} \subseteq waiting /\ accepted' = accepted
      BY <3>1, <3>6
    <3>10. {h} \in SUBSET Lines /\ {h} # {}
      BY <3>3
    <3> QED
      BY <2>b, <3>5, <3>8, <3>9, <3>10
  <2>3. ASSUME NEW e \in Executions, AppendBuffered(e) PROVE UNCHANGED Stream!vars
    <3> DEFINE h == Head(tasks[e])
    <3>1. /\ tasks[e] # <<>>
          /\ tasks' = [tasks EXCEPT ![e] = Tail(tasks[e])]
          /\ buffer' = [buffer EXCEPT ![e] = Append(buffer[e], h)]
          /\ posted' = posted /\ sent' = sent
      BY <2>3 DEF AppendBuffered
    <3>2. /\ tasks'[e] = Tail(tasks[e]) /\ buffer'[e] = Append(buffer[e], h)
          /\ \A f \in Executions \ {e} : tasks'[f] = tasks[f] /\ buffer'[f] = buffer[f]
      BY <3>1 DEF TypeOK
    <3>3. h \in Lines /\ ToSet(tasks[e]) = ToSet(tasks'[e]) \cup {h}
      BY <2>0, <3>1, <3>2, HeadTail, ToSetTail
    <3> HIDE DEF h
    <3>4. ToSet(buffer'[e]) = ToSet(buffer[e]) \cup {h}
      BY <2>0, <3>2, <3>3, ToSetAppend
    <3>5. \A f \in Executions : Held(f)' = Held(f)
      BY <3>2, <3>3, <3>4 DEF Held
    <3>6. accepted' = accepted /\ waiting' = waiting /\ delivered' = delivered
      BY <3>1, <3>5
    <3> QED
      BY <2>c, <3>6
  <2>4. ASSUME NEW e \in Executions, Drain(e) PROVE Stream!Next \/ UNCHANGED Stream!vars
    <3>1. /\ buffer' = [buffer EXCEPT ![e] = <<>>]
          /\ tasks' = tasks /\ posted' = posted
      BY <2>4 DEF Drain
    <3>2. /\ buffer'[e] = <<>>
          /\ \A f \in Executions \ {e} : buffer'[f] = buffer[f]
      BY <3>1 DEF TypeOK
    <3>3. ToSet(buffer'[e]) = {}
      BY <3>2 DEF ToSet
    <3>4. /\ Held(e)' = Held(e) \ ToSet(buffer[e])
          /\ ToSet(buffer[e]) \subseteq Held(e)
          /\ \A f \in Executions \ {e} : Held(f)' = Held(f)
      BY <3>1, <3>2, <3>3 DEF Held, HeldOnce
    <3>5. waiting' = waiting \ ToSet(buffer[e])
      BY <3>4, TakeFromOne
    <3>6. accepted' = accepted /\ ToSet(buffer[e]) \subseteq waiting
      BY <3>1, <3>4
    <3>7. CASE buffer[e] = <<>>
      <4>1. ToSet(buffer[e]) = {} /\ sent' = sent
        BY <2>4, <3>7 DEF Drain, ToSet
      <4> QED
        BY <2>c, <3>5, <3>6, <4>1
    <3>8. CASE buffer[e] # <<>>
      <4>1. ToSet(buffer[e]) # {} /\ ToSet(buffer[e]) \subseteq Lines
        <5>1. ToSet(buffer[e]) # {}
          BY <2>0, <3>8, ToSetTail
        <5>2. \A i \in DOMAIN buffer[e] : buffer[e][i] \in Lines
          BY <2>0, LenProperties, ElementOfSeq
        <5> QED
          BY <5>1, <5>2 DEF ToSet
      <4>2. \/ sent' = [sent EXCEPT ![e] = sent[e] \o buffer[e]]
            \/ sent' = sent
        BY <2>4, <3>8 DEF Drain, Broadcast
      <4>3. \/ delivered' = delivered \cup ToSet(buffer[e])
            \/ delivered' = delivered
        <5>1. CASE sent' = [sent EXCEPT ![e] = sent[e] \o buffer[e]]
          BY <2>0, <2>d, <5>1
        <5>2. CASE sent' = sent
          BY <5>2
        <5> QED
          BY <4>2, <5>1, <5>2
      <4> QED
        BY <2>b, <3>5, <3>6, <4>1, <4>3
    <3> QED
      BY <3>7, <3>8
  <2>5. CASE Configure
    <3>1. accepted' = accepted /\ waiting' = waiting /\ delivered' = delivered
      BY <2>5 DEF Configure, Held
    <3> QED
      BY <2>c, <3>1
  <2>6. CASE UNCHANGED vars
    <3>1. accepted' = accepted /\ waiting' = waiting /\ delivered' = delivered
      BY <2>6 DEF vars, Held
    <3> QED
      BY <2>c, <3>1
  <2> QED
    BY <2>1, <2>2, <2>3, <2>4, <2>5, <2>6 DEF Next, Loop
<1> QED
  BY <1>1, <1>2, TypeCorrect, HeldOnceInvariant, PTL DEF Spec, Stream!Spec

-----------------------------------------------------------------------------
(* The log of a step.  Handlers run one at a time, so that the column is   *)
(* the lines posted to the flusher, and one more from the commit of a      *)
(* handler to its hand-over.                                               *)

StepTypeOK ==
  /\ column \in [Executions -> Seq(Lines)]
  /\ handler \in [Lines -> {"idle", "writing", "committed", "answered"}]
  /\ loaded \in [Lines -> Seq(Lines)]

Committed(e) == {l \in Lines : handler[l] = "committed" /\ ExecOf[l] = e}

StoredIsPosted ==
  /\ \A k, l \in Lines : Busy(k) /\ Busy(l) => k = l
  /\ \A l \in Lines : handler[l] = "writing" => loaded[l] = column[ExecOf[l]]
  /\ \A e \in Executions :
       /\ Committed(e) = {} => column[e] = posted[e]
       /\ \A l \in Committed(e) : column[e] = Append(posted[e], l)

\* The step log runs the flusher, and leaves it alone otherwise.
LEMMA StepRunsFlusher == StepSpec => Spec
<1>1. StepInit => Init
  BY DEF StepInit
<1>2. [StepNext]_stepVars => [Next]_vars
  BY DEF StepNext, stepVars, Next, vars, LoadAppend, CommitAppend, PublishAppend, Close
<1> QED
  BY <1>1, <1>2, PTL DEF StepSpec, Spec

\* The column and the flusher keep in step.
LEMMA StoredInvariant == StepSpec => [](StepTypeOK /\ StoredIsPosted)
<1> DEFINE Inv == StepTypeOK /\ StoredIsPosted
<1>1. StepInit => Inv
  BY DEF StepInit, Init, StepTypeOK, StoredIsPosted, Committed, Busy
<1>2. TypeOK /\ Inv /\ [StepNext]_stepVars => Inv'
  <2> SUFFICES ASSUME TypeOK, StepTypeOK, StoredIsPosted, [StepNext]_stepVars
               PROVE  StepTypeOK' /\ StoredIsPosted'
    OBVIOUS
  <2>1. ASSUME NEW l \in Lines, LoadAppend(l) PROVE StepTypeOK' /\ StoredIsPosted'
    BY <2>1 DEF LoadAppend, StepTypeOK, StoredIsPosted, Committed, Busy, vars
  <2>2. ASSUME NEW l \in Lines, CommitAppend(l) PROVE StepTypeOK' /\ StoredIsPosted'
    <3>1. Append(loaded[l], l) \in Seq(Lines)
      BY AppendLine DEF StepTypeOK
    <3>2. StepTypeOK'
      BY <2>2, <3>1 DEF CommitAppend, StepTypeOK
    <3>3. Committed(ExecOf[l]) = {} /\ column[ExecOf[l]] = posted[ExecOf[l]]
      BY <2>2 DEF CommitAppend, StepTypeOK, StoredIsPosted, Committed, Busy
    <3>4. \A k \in Lines : Busy(k)' => k = l
      BY <2>2 DEF CommitAppend, StepTypeOK, StoredIsPosted, Busy
    <3>5. \A e \in Executions : Committed(e)' = IF e = ExecOf[l] THEN {l} ELSE Committed(e)
      BY <2>2, <3>3 DEF CommitAppend, StepTypeOK, Committed
    <3>6. column'[ExecOf[l]] = Append(posted[ExecOf[l]], l)
      BY <2>2, <3>3 DEF CommitAppend, StepTypeOK, StoredIsPosted
    <3>7. \A k \in Lines : handler'[k] # "writing"
      BY <2>2, <3>4 DEF CommitAppend, StepTypeOK, Busy
    <3>8. ASSUME NEW e \in Executions
          PROVE  /\ Committed(e)' = {} => column'[e] = posted'[e]
                 /\ \A k \in Committed(e)' : column'[e] = Append(posted'[e], k)
      <4>1. posted' = posted
        BY <2>2 DEF CommitAppend, vars
      <4>2. CASE e = ExecOf[l]
        BY <3>5, <3>6, <4>1, <4>2
      <4>3. CASE e # ExecOf[l]
        BY <2>2, <3>5, <4>1, <4>3 DEF CommitAppend, StepTypeOK, StoredIsPosted
      <4> QED
        BY <4>2, <4>3
    <3> QED
      BY <3>2, <3>4, <3>7, <3>8 DEF StoredIsPosted
  <2>3. ASSUME NEW l \in Lines, PublishAppend(l) PROVE StepTypeOK' /\ StoredIsPosted'
    <3>1. StepTypeOK'
      BY <2>3 DEF PublishAppend, StepTypeOK
    <3>2. \A k \in Lines : ~Busy(k)'
      BY <2>3 DEF PublishAppend, StepTypeOK, StoredIsPosted, Busy
    <3>3. Committed(ExecOf[l]) = {l} /\ \A e \in Executions : Committed(e)' = {}
      BY <2>3, <3>2 DEF PublishAppend, StepTypeOK, StoredIsPosted, Committed, Busy
    <3>4. column[ExecOf[l]] = posted'[ExecOf[l]]
      BY <2>3, <3>3 DEF PublishAppend, ScheduleAppend, StoredIsPosted, TypeOK
    <3>5. \A e \in Executions : e # ExecOf[l] => Committed(e) = {} /\ posted'[e] = posted[e]
      BY <2>3 DEF PublishAppend, ScheduleAppend, StoredIsPosted, TypeOK, Committed, Busy
    <3> QED
      BY <2>3, <3>1, <3>2, <3>3, <3>4, <3>5
         DEF PublishAppend, StepTypeOK, StoredIsPosted, Busy
  <2>4. ASSUME NEW e \in Executions, Close(e) PROVE StepTypeOK' /\ StoredIsPosted'
    BY <2>4 DEF Close, StepTypeOK, StoredIsPosted, Committed, Busy, vars
  <2>5. CASE /\ Configure \/ \E e \in Executions : Loop(e)
             /\ UNCHANGED <<column, handler, loaded, open>>
    <3>1. posted' = posted
      BY <2>5 DEF Configure, Loop, AppendNow, AppendBuffered, Drain
    <3> QED
      BY <2>5, <3>1 DEF StepTypeOK, StoredIsPosted, Committed, Busy
  <2>6. CASE UNCHANGED stepVars
    BY <2>6 DEF stepVars, vars, StepTypeOK, StoredIsPosted, Committed, Busy
  <2> QED
    BY <2>1, <2>2, <2>3, <2>4, <2>5, <2>6 DEF StepNext
<1> QED
  BY <1>1, <1>2, TypeCorrect, StepRunsFlusher, PTL DEF StepSpec

\* The beginning of a sequence, and of one with a line more.
LEMMA BeginningOf ==
  \A s, t \in Seq(Lines) :
    /\ IsPrefix(s, s \o t)
    /\ \A l \in Lines : IsPrefix(s, Append(s \o t, l))
<1> SUFFICES ASSUME NEW s \in Seq(Lines), NEW t \in Seq(Lines)
             PROVE  IsPrefix(s, s \o t) /\ \A l \in Lines : IsPrefix(s, Append(s \o t, l))
  OBVIOUS
<1>1. ASSUME NEW v \in Seq(Lines) PROVE IsPrefix(s, s \o v)
  <2>1. Len(s) \in Nat /\ Len(v) \in Nat /\ Len(s \o v) = Len(s) + Len(v)
    BY ConcatProperties, LenProperties
  <2>2. SubSeq(s \o v, 1, Len(s)) = SubSeq(s, 1, Len(s))
    <3>1. CASE Len(s) = 0
      BY <3>1, SubSeqEmpty
    <3>2. CASE Len(s) # 0
      BY <2>1, <3>2, SubSeqOfConcat1
    <3> QED
      BY <3>1, <3>2
  <2> QED
    BY <2>1, <2>2 DEF IsPrefix
<1>2. ASSUME NEW l \in Lines
      PROVE  t \o <<l>> \in Seq(Lines) /\ Append(s \o t, l) = s \o (t \o <<l>>)
  <2> DEFINE v == <<l>>
  <2>1. v \in Seq(Lines) /\ s \o t \in Seq(Lines) /\ Append(s \o t, l) = (s \o t) \o v
    BY AppendLine, ConcatLines
  <2> HIDE DEF v
  <2>2. (s \o t) \o v = s \o (t \o v) /\ t \o v \in Seq(Lines)
    BY <2>1, ConcatLines, Associative
  <2> QED
    BY <2>1, <2>2 DEF v
<1> QED
  BY <1>1, <1>2

\* The live log of a step that subscribers see is always the beginning of the
\* stored one that a reload of the page reads, while nobody changes the interval
\* and no broadcast of it fails.
THEOREM LiveLogIsStored == StepSpec => []LiveIsStored
<1>1. TypeOK /\ InOrder /\ StepTypeOK /\ StoredIsPosted => LiveIsStored
  <2> SUFFICES ASSUME TypeOK, InOrder, StepTypeOK, StoredIsPosted, NEW e \in Executions,
                      Undisturbed(e)
               PROVE  IsPrefix(sent[e], column[e])
    BY DEF LiveIsStored
  <2> DEFINE rest == buffer[e] \o tasks[e]
  <2>1. sent[e] \in Seq(Lines) /\ rest \in Seq(Lines) /\ posted[e] = sent[e] \o rest
    <3> DEFINE q == sent[e]
               u == buffer[e]
               v == tasks[e]
    <3>1. q \in Seq(Lines) /\ u \in Seq(Lines) /\ v \in Seq(Lines) /\ posted[e] = (q \o u) \o v
      BY DEF TypeOK, InOrder
    <3> HIDE DEF q, u, v
    <3>2. u \o v \in Seq(Lines) /\ (q \o u) \o v = q \o (u \o v)
      BY <3>1, ConcatLines, Associative
    <3> QED
      BY <3>1, <3>2 DEF q, u, v
  <2> HIDE DEF rest
  <2>2. CASE Committed(e) = {}
    <3>1. column[e] = sent[e] \o rest
      BY <2>1, <2>2 DEF StoredIsPosted
    <3>2. IsPrefix(sent[e], sent[e] \o rest)
      BY <2>1, BeginningOf
    <3> QED
      BY <3>1, <3>2
  <2>3. CASE Committed(e) # {}
    <3>1. PICK l \in Committed(e) : column[e] = Append(sent[e] \o rest, l)
      BY <2>1, <2>3 DEF StoredIsPosted
    <3>2. l \in Lines
      BY DEF Committed
    <3>3. IsPrefix(sent[e], Append(sent[e] \o rest, l))
      BY <2>1, <3>2, BeginningOf
    <3> QED
      BY <3>1, <3>3
  <2> QED
    BY <2>2, <2>3
<1> QED
  BY <1>1, StoredInvariant, StepRunsFlusher, TypeCorrect, LinesInOrder, PTL
=============================================================================
