--------------------------- MODULE LogStoreProofs ---------------------------
(***************************************************************************)
(* The log store keeps its promise for any capacity, zero included, and    *)
(* any number of sessions, profiles and lines.                             *)
(*                                                                         *)
(* The refinement needs an invariant beside the types: what is retained    *)
(* belongs to the latest attempt (or the page would be somebody else's),   *)
(* and nothing is held before the first one.                               *)
(***************************************************************************)
EXTENDS LogStore, SequenceTheorems, TLAPS

\* The retained log is the latest attempt's; that attempt is one the worker
\* has begun, adopted or noted; and before there is one nothing is held.
OnlyTheLatest ==
  /\ retained # None => retained.path = mostRecent
  /\ mostRecent \in known \cup Config \cup {None}
  /\ mostRecent = None => DOMAIN buffers = {} /\ retained = None

IInv == TypeOK /\ OnlyTheLatest

-----------------------------------------------------------------------------
(* Buffers *)

\* There is room for a line, also when no capacity was asked for.
LEMMA RoomForOne == Capacity \in Nat /\ Capacity >= 1
BY LogStoreAssumption DEF Capacity

\* None is not a path.
LEMMA NoneIsNoPath == None \notin Path
BY LogStoreAssumption DEF Path

\* PushOnto appends the line and keeps the last lines that fit.
LEMMA PushOntoKeepsTheLast ==
  ASSUME NEW lines \in Buffer, NEW l \in Line
  PROVE  /\ PushOnto(lines, l) \in Buffer
         /\ PushOnto(lines, l) # <<>>
         /\ PushOnto(lines, l) = Promise!LastLines(Append(lines, l))
<1> DEFINE all == Append(lines, l)
<1>1. lines \in Seq(Line) /\ Len(lines) <= Capacity /\ Len(lines) \in Nat
  BY DEF Buffer
<1>2. all \in Seq(Line) /\ Len(all) = Len(lines) + 1
  BY <1>1, AppendProperties
<1>3. CASE Len(lines) = Capacity
  <2>1. lines # <<>>
    BY <1>1, <1>3, RoomForOne
  <2>2. Tail(lines) \in Seq(Line) /\ Len(Tail(lines)) = Len(lines) - 1
    BY <1>1, <2>1, HeadTailProperties
  <2>3. PushOnto(lines, l) = Append(Tail(lines), l)
    BY <1>3 DEF PushOnto
  <2>4. Tail(all) = Append(Tail(lines), l)
    BY <1>1, <2>1, HeadTailAppend
  <2>5. Tail(all) = SubSeq(all, 2, Len(all))
    BY <1>2, AppendProperties, <1>1, TailIsSubSeq
  <2>6. Promise!LastLines(all) = SubSeq(all, 2, Len(all))
    BY <1>1, <1>2, <1>3, RoomForOne DEF Promise!LastLines
  <2>7. /\ Append(Tail(lines), l) \in Seq(Line)
        /\ Append(Tail(lines), l) # <<>>
        /\ Len(Append(Tail(lines), l)) = Len(Tail(lines)) + 1
    BY <2>2, AppendProperties
  <2> QED
    BY <2>2, <2>3, <2>4, <2>5, <2>6, <2>7, <1>1 DEF Buffer
<1>4. CASE Len(lines) # Capacity
  <2>1. PushOnto(lines, l) = all
    BY <1>4 DEF PushOnto
  <2>2. Promise!LastLines(all) = all
    BY <1>1, <1>2, <1>4, RoomForOne DEF Promise!LastLines
  <2> QED
    BY <2>1, <2>2, <1>1, <1>2, <1>4, RoomForOne, AppendProperties DEF Buffer
<1> QED
  BY <1>3, <1>4

\* There is room for nothing, and for one line.
LEMMA SmallBuffers ==
  /\ <<>> \in Buffer
  /\ \A l \in Line : PushOnto(<<>>, l) = <<l>> /\ <<l>> \in Buffer
BY RoomForOne DEF Buffer, PushOnto

-----------------------------------------------------------------------------
(* The invariant *)

\* A buffer set to a buffer leaves all of them buffers.
LEMMA WithKeepsBuffers ==
  ASSUME TypeOK, NEW p \in Path, NEW lines \in Buffer,
         buffers' = With(p, lines)
  PROVE  /\ DOMAIN buffers' \subseteq Path
         /\ \A q \in DOMAIN buffers' : buffers'[q] \in Buffer
BY DEF With, TypeOK

LEMMA StepInvariant == IInv /\ [Next]_vars => IInv'
<1> SUFFICES ASSUME IInv, [Next]_vars PROVE IInv'
  OBVIOUS
<1> USE DEF IInv
<1>1. ASSUME NEW p \in Session, BeginSession(p) PROVE IInv'
  <2>1. p \in Path /\ p # None
    BY NoneIsNoPath DEF Path
  <2>2. DOMAIN buffers' \subseteq Path
        /\ \A q \in DOMAIN buffers' : buffers'[q] \in Buffer
    BY <1>1, <2>1, SmallBuffers, WithKeepsBuffers DEF BeginSession
  <2> QED
    BY <1>1, <2>1, <2>2 DEF BeginSession, TypeOK, OnlyTheLatest
<1>2. ASSUME NEW p \in Session, AdoptExternalSession(p) PROVE IInv'
  <2>1. p \in Path /\ p # None
    BY NoneIsNoPath DEF Path
  <2> QED
    BY <1>2, <2>1 DEF AdoptExternalSession, TypeOK, OnlyTheLatest
<1>3. ASSUME NEW p \in Session, RemoveSession(p) PROVE IInv'
  <2>1. p \in Path /\ p # None
    BY NoneIsNoPath DEF Path
  <2>2. DOMAIN buffers' \subseteq Path
        /\ \A q \in DOMAIN buffers' : buffers'[q] \in Buffer
    BY <1>3 DEF Without, RemoveSession, TypeOK
  <2>3. retained' \in [path : Path, lines : Buffer] \cup {None}
    BY <1>3, <2>1 DEF RemoveSession, TypeOK
  <2>4. OnlyTheLatest'
    BY <1>3, <2>1 DEF RemoveSession, TypeOK, OnlyTheLatest
  <2> QED
    BY <1>3, <2>2, <2>3, <2>4 DEF RemoveSession, TypeOK
<1>4. ASSUME NEW p \in Session, NEW l \in Line, Push(p, l) PROVE IInv'
  <2>1. p \in Path /\ buffers[p] \in Buffer
    BY <1>4 DEF Path, Push, TypeOK
  <2>2. DOMAIN buffers' \subseteq Path
        /\ \A q \in DOMAIN buffers' : buffers'[q] \in Buffer
    BY <1>4, <2>1, PushOntoKeepsTheLast, WithKeepsBuffers DEF Push
  <2> QED
    BY <1>4, <2>2 DEF Push, TypeOK, OnlyTheLatest
<1>5. ASSUME NEW p \in Path, NEW l \in Line, NoteLine(p, l) PROVE IInv'
  <2> DEFINE lines == IF p \in DOMAIN buffers THEN buffers[p] ELSE <<>>
  <2>1. lines \in Buffer
    BY SmallBuffers DEF TypeOK
  <2>2. PushOnto(lines, l) \in Buffer
    BY <2>1, PushOntoKeepsTheLast
  <2>3. buffers' = With(p, PushOnto(lines, l))
    BY <1>5 DEF NoteLine
  <2>4. DOMAIN buffers' \subseteq Path
        /\ \A q \in DOMAIN buffers' : buffers'[q] \in Buffer
    BY <2>2, <2>3, WithKeepsBuffers
  <2> HIDE DEF lines
  <2>5. mostRecent' # None
    BY <1>5, NoneIsNoPath DEF NoteLine
  <2> QED
    BY <1>5, <2>4, <2>5 DEF NoteLine, TypeOK, OnlyTheLatest
<1>6. CASE UNCHANGED vars
  BY <1>6 DEF vars, TypeOK, OnlyTheLatest
<1> QED
  BY <1>1, <1>2, <1>3, <1>4, <1>5, <1>6 DEF Next

LEMMA InitInvariant == Init => IInv
BY DEF Init, IInv, TypeOK, OnlyTheLatest

\* Types, and what is retained is the latest attempt's.
THEOREM LogStoreInvariant == Spec => []IInv
BY InitInvariant, StepInvariant, PTL DEF Spec

\* No buffer ever outgrows the capacity (KTD4: bounded capture), whatever mix
\* of lines, notes and removals fills it, and whatever capacity is asked for.
THEOREM BuffersAreBounded == Spec => []TypeOK
BY LogStoreInvariant, PTL DEF IInv

-----------------------------------------------------------------------------
(* The promise *)

\* Each step of the store is a step of the promise, or changes nothing the
\* reader can see.
LEMMA StepPromise == IInv /\ [Next]_vars => [Promise!Next]_(Promise!vars)
<1> SUFFICES ASSUME IInv, [Next]_vars
             PROVE  Promise!Next \/ UNCHANGED Promise!vars
  OBVIOUS
<1> USE DEF IInv
<1> DEFINE capturing == mostRecent \in DOMAIN buffers
<1>1. ASSUME NEW p \in Session, BeginSession(p)
      PROVE  Promise!Next \/ UNCHANGED Promise!vars
  <2>1. p # mostRecent /\ p \in Path
    BY <1>1, LogStoreAssumption DEF BeginSession, OnlyTheLatest, Path
  <2>2. Page' = <<>>
    BY <1>1 DEF With, BeginSession, Page
  <2>3. Promise!NewAttempt(p)
    BY <1>1, <2>1, <2>2 DEF BeginSession, Promise!NewAttempt
  <2> QED
    BY <2>1, <2>3 DEF Promise!Next
<1>2. ASSUME NEW p \in Session, AdoptExternalSession(p)
      PROVE  Promise!Next \/ UNCHANGED Promise!vars
  <2>1. p # mostRecent /\ p \in Path
    BY <1>2, NoneIsNoPath DEF AdoptExternalSession, Path
  <2>2. Page' = <<>>
    BY <1>2 DEF AdoptExternalSession, OnlyTheLatest, Page
  <2>3. Promise!NewAttempt(p)
    BY <1>2, <2>1, <2>2 DEF AdoptExternalSession, Promise!NewAttempt
  <2> QED
    BY <2>1, <2>3 DEF Promise!Next
<1>3. ASSUME NEW p \in Session, RemoveSession(p)
      PROVE  Promise!Next \/ UNCHANGED Promise!vars
  <2>2. CASE p = mostRecent
    <3> DEFINE kept == [path |-> p, lines |-> buffers[p]]
    <3>1. kept \in [path : Session \cup Config, lines : Seq(Line)]
      BY <1>3 DEF RemoveSession, TypeOK, Buffer
    <3>2. retained' = kept /\ kept # None /\ kept.path = p
      BY <1>3, <2>2, <3>1, LogStoreAssumption DEF RemoveSession
    <3>3. Page' = kept.lines
      BY <1>3, <2>2, <3>2 DEF RemoveSession, Without, Page
    <3>4. Page' = Page
      BY <1>3, <2>2, <3>3 DEF RemoveSession, Page
    <3>5. Promise!End
      BY <1>3, <2>2, <3>4 DEF Without, RemoveSession, Promise!End
    <3> QED
      BY <3>5 DEF Promise!Next
  <2>3. CASE p # mostRecent
    <3>1. capturing' = capturing /\ Page' = Page
      BY <1>3, <2>3 DEF Without, RemoveSession, Page
    <3> QED
      BY <1>3, <3>1 DEF RemoveSession, Promise!vars
  <2> QED
    BY <2>2, <2>3
<1>4. ASSUME NEW p \in Session, NEW l \in Line, Push(p, l)
      PROVE  Promise!Next \/ UNCHANGED Promise!vars
  <2>1. buffers[p] \in Buffer
    BY <1>4 DEF Push, TypeOK
  <2>2. CASE p = mostRecent
    <3>1. Page = buffers[p] /\ Page' = PushOnto(buffers[p], l)
      BY <1>4, <2>2 DEF With, Push, Page
    <3>2. Page' = Promise!LastLines(Append(Page, l))
      BY <2>1, <3>1, PushOntoKeepsTheLast
    <3>3. Promise!Heard(l)
      BY <1>4, <2>2, <3>2 DEF With, Push, Promise!Heard
    <3> QED
      BY <3>3 DEF Promise!Next
  <2>3. CASE p # mostRecent
    <3>1. capturing' = capturing /\ Page' = Page
      BY <1>4, <2>3 DEF With, Push, Page
    <3> QED
      BY <1>4, <3>1 DEF Push, Promise!vars
  <2> QED
    BY <2>2, <2>3
<1>5. ASSUME NEW p \in Path, NEW l \in Line, NoteLine(p, l)
      PROVE  Promise!Next \/ UNCHANGED Promise!vars
  <2>1. CASE p \in DOMAIN buffers /\ p = mostRecent
    <3>1. buffers[p] \in Buffer
      BY <2>1 DEF TypeOK
    <3>2. Page = buffers[p] /\ Page' = PushOnto(buffers[p], l)
      BY <1>5, <2>1, NoneIsNoPath DEF With, NoteLine, Page
    <3>3. Page' = Promise!LastLines(Append(Page, l))
      BY <3>1, <3>2, PushOntoKeepsTheLast
    <3>4. mostRecent' = mostRecent /\ capturing /\ capturing'
      BY <1>5, <2>1, NoneIsNoPath DEF With, NoteLine
    <3>5. Promise!Heard(l)
      BY <3>3, <3>4 DEF Promise!Heard
    <3> QED
      BY <3>5 DEF Promise!Next
  <2>2. CASE p \notin DOMAIN buffers /\ mostRecent \in {p, None}
    <3>1. buffers' = With(p, <<l>>) /\ mostRecent' = p
      BY <1>5, <2>2, SmallBuffers DEF NoteLine
    <3>2. Page' = <<l>> /\ capturing'
      BY <3>1 DEF With, Without, Page
    <3>3. ~capturing
      BY <2>2 DEF OnlyTheLatest
    <3>4. Promise!NotedOutside(p, l)
      BY <2>2, <3>1, <3>2, <3>3 DEF Promise!NotedOutside
    <3> QED
      BY <3>4 DEF Promise!Next
  <2>3. CASE mostRecent \notin {p, None}
    <3>1. mostRecent' = mostRecent /\ retained' = retained
      BY <1>5, <2>3 DEF NoteLine
    <3>2. capturing' = capturing /\ Page' = Page
      BY <1>5, <2>3, <3>1 DEF With, NoteLine, Page
    <3> QED
      BY <3>1, <3>2 DEF Promise!vars
  <2>4. mostRecent = None => p \notin DOMAIN buffers
    BY DEF OnlyTheLatest
  <2> QED
    BY <2>1, <2>2, <2>3, <2>4
<1>6. CASE UNCHANGED vars
  BY <1>6 DEF vars, Page, Promise!vars
<1> QED
  BY <1>1, <1>2, <1>3, <1>4, <1>5, <1>6 DEF Next

\* The page starts empty.
LEMMA InitPromise == Init => Promise!Init
BY DEF Init, Page, Promise!Init

\* R13, for every capacity: the page holds the last lines of the most recent
\* attempt for as long as it is the most recent, its session gone or not.
THEOREM PromiseKept == Spec => ImplementsPromise
<1>1. Spec => [][Promise!Next]_(Promise!vars)
  BY LogStoreInvariant, StepPromise, PTL DEF Spec
<1> QED
  BY <1>1, InitPromise, PTL DEF Spec, ImplementsPromise, Promise!Spec
=============================================================================
