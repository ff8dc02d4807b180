------------------------ MODULE LineDisciplineProofs ------------------------
(***************************************************************************)
(* Proofs about LineDiscipline, for any number of terminals, any alphabet  *)
(* and any length of line, and at the end about what Keyboard makes of a   *)
(* key.                                                                    *)
(***************************************************************************)
EXTENDS LineDiscipline, Keyboard, SequenceTheorems, TLAPS

USE LineAssumption

(***************************************************************************)
(* The inductive invariant behind OwnInput: not only what a read copied,   *)
(* but also the buffer it copies from and the line the buffer is filled    *)
(* from hold characters of their own terminal only.                        *)
(***************************************************************************)
OwnInv ==
  /\ TypeOK
  /\ \A t \in Terminals :
       TypedOn(t, line[t]) /\ TypedOn(t, buf[t]) /\ TypedOn(t, out[t])

LEMMA TermFacts ==
  /\ None \notin Terminals
  /\ NumTerm - 1 \in Terminals
  /\ 0 \in Terminals
  /\ \A t \in Terminals : (t + 1) % NumTerm \in Terminals
BY DEF Terminals, None

(***************************************************************************)
(* What the helpers do to sequences of cells.                              *)
(***************************************************************************)
LEMMA FilledType ==
  ASSUME NEW l \in Seq(Cells)
  PROVE  Filled(l) \in [1..MaxLen -> Cells \cup {Zero}]
<1> SUFFICES ASSUME NEW i \in 1..MaxLen
             PROVE  (IF i <= Len(l) THEN l[i] ELSE Zero) \in Cells \cup {Zero}
  BY DEF Filled
<1>1. CASE i <= Len(l)
  <2>1. i \in 1..Len(l)  BY <1>1
  <2>2. l[i] \in Cells  BY <2>1
  <2> QED  BY <1>1, <2>2
<1>2. CASE ~(i <= Len(l))
  BY <1>2
<1> QED  BY <1>1, <1>2

LEMMA FilledTyped ==
  ASSUME NEW t, NEW l \in Seq(Cells), TypedOn(t, l)
  PROVE  TypedOn(t, Filled(l))
<1> SUFFICES ASSUME NEW i \in 1..MaxLen, Filled(l)[i] # Zero
             PROVE  Filled(l)[i][1] = t
  BY DEF TypedOn, Filled
<1>1. i <= Len(l) /\ Filled(l)[i] = l[i]
  BY DEF Filled
<1>2. i \in DOMAIN l
  BY <1>1
<1> QED  BY <1>1, <1>2 DEF TypedOn

LEMMA AppendTyped ==
  ASSUME NEW t, NEW S, NEW s \in Seq(S), NEW e \in S, TypedOn(t, s),
         e # Zero => e[1] = t
  PROVE  Append(s, e) \in Seq(S) /\ TypedOn(t, Append(s, e))
<1>1. Append(s, e) \in Seq(S) /\ Len(Append(s, e)) = Len(s) + 1
  OBVIOUS
<1> SUFFICES ASSUME NEW i \in 1..Len(s) + 1, Append(s, e)[i] # Zero
             PROVE  Append(s, e)[i][1] = t
  BY <1>1 DEF TypedOn
<1>2. CASE i = Len(s) + 1
  BY <1>2
<1>3. CASE i # Len(s) + 1
  <2>1. i \in 1..Len(s) /\ Append(s, e)[i] = s[i]
    BY <1>3
  <2> QED  BY <2>1 DEF TypedOn
<1> QED  BY <1>2, <1>3

LEMMA FrontTyped ==
  ASSUME NEW t, NEW s \in Seq(Cells), s # <<>>, TypedOn(t, s)
  PROVE  Front(s) \in Seq(Cells) /\ Len(Front(s)) = Len(s) - 1 /\ TypedOn(t, Front(s))
<1>1. Len(s) \in Nat /\ Len(s) # 0
  OBVIOUS
<1>2. Front(s) = SubSeq(s, 1, Len(s) - 1)
  BY DEF Front
<1>3. /\ Front(s) \in Seq(Cells)
      /\ Len(Front(s)) = Len(s) - 1
      /\ \A i \in 1..Len(s)-1 : Front(s)[i] = s[i]
  <2> DEFINE n == Len(s) - 1
  <2>1. n \in Nat /\ \A i \in 1..n : s[i] \in Cells
    BY <1>1
  <2> HIDE DEF n
  <2>2. /\ SubSeq(s, 1, n) \in Seq(Cells)
        /\ Len(SubSeq(s, 1, n)) = IF 1 <= n THEN n - 1 + 1 ELSE 0
        /\ \A i \in 1 .. n - 1 + 1 : SubSeq(s, 1, n)[i] = s[1 + i - 1]
    BY <2>1, SubSeqProperties
  <2>3. /\ Len(SubSeq(s, 1, n)) = n
        /\ \A i \in 1..n : SubSeq(s, 1, n)[i] = s[i]
    BY <2>1, <2>2
  <2> QED  BY <1>2, <2>2, <2>3 DEF n
<1> SUFFICES ASSUME NEW i \in 1..Len(s)-1, Front(s)[i] # Zero
             PROVE  Front(s)[i][1] = t
  BY <1>3 DEF TypedOn
<1>4. i \in DOMAIN s
  BY <1>1
<1> QED  BY <1>3, <1>4 DEF TypedOn

LEMMA EmptyTyped ==
  /\ <<>> \in Seq(Cells)
  /\ <<>> \in Seq(Cells \cup {Zero})
  /\ Len(<<>>) <= MaxLen
  /\ 0 \in 0..MaxLen
  /\ \A t : TypedOn(t, <<>>)
BY DEF TypedOn

(***************************************************************************)
(* The steps.                                                              *)
(***************************************************************************)
LEMMA OwnInit == Init => OwnInv
<1> SUFFICES ASSUME Init  PROVE OwnInv
  OBVIOUS
<1>1. Filled(<<>>) \in [1..MaxLen -> Cells \cup {Zero}] /\ \A t : TypedOn(t, Filled(<<>>))
  BY EmptyTyped, FilledType, FilledTyped
<1>2. TypeOK
  BY <1>1, TermFacts, EmptyTyped DEF Init, TypeOK
<1>3. ASSUME NEW t \in Terminals
      PROVE  TypedOn(t, line[t]) /\ TypedOn(t, buf[t]) /\ TypedOn(t, out[t])
  BY <1>1, EmptyTyped DEF Init
<1> QED  BY <1>2, <1>3 DEF OwnInv

\* A key that changes the visible line to one typed on that terminal.
LEMMA EditStep ==
  ASSUME OwnInv, NEW l \in Seq(Cells), Len(l) <= MaxLen, TypedOn(visible, l), Edit(l)
  PROVE  OwnInv'
<1>1. TypeOK'
  BY DEF OwnInv, TypeOK, Edit, shared, keyboard, reader
<1>2. ASSUME NEW t \in Terminals
      PROVE  TypedOn(t, line'[t]) /\ buf'[t] = buf[t] /\ out'[t] = out[t]
  BY DEF OwnInv, TypeOK, Edit, shared, reader
<1>3. ASSUME NEW t \in Terminals
      PROVE  (TypedOn(t, line[t]) /\ TypedOn(t, buf[t]) /\ TypedOn(t, out[t]))'
  BY <1>2 DEF OwnInv, TypedOn
<1> QED  BY <1>1, <1>3 DEF OwnInv

\* The keyboard interrupt.
LEMMA KeyStep == ASSUME OwnInv, Key  PROVE OwnInv'
<1> USE TermFacts, EmptyTyped
<1>1. ASSUME NEW c \in Chars, KeyChar(c)  PROVE OwnInv'
  <2>1. /\ visible \in Terminals
        /\ line[visible] \in Seq(Cells)
        /\ Len(line[visible]) <= MaxLen
        /\ TypedOn(visible, line[visible])
    BY DEF OwnInv, TypeOK
  <2>2. <<visible, c>> \in Cells
    BY <2>1 DEF Cells
  <2> DEFINE l == Append(line[visible], <<visible, c>>)
  <2>3. l \in Seq(Cells) /\ TypedOn(visible, l)
    BY <2>1, <2>2, AppendTyped
  <2>4. Len(line[visible]) # MaxLen /\ Edit(l)
    BY <1>1 DEF KeyChar
  <2>5. Len(l) <= MaxLen
    BY <2>1, <2>2, <2>4
  <2> QED  BY <2>3, <2>4, <2>5, EditStep
<1>2. CASE KeyBackspace
  <2>1. /\ line[visible] \in Seq(Cells)
        /\ Len(line[visible]) <= MaxLen
        /\ TypedOn(visible, line[visible])
    BY DEF OwnInv, TypeOK
  <2>2. line[visible] # <<>> /\ Edit(Front(line[visible]))
    BY <1>2 DEF KeyBackspace
  <2>3. /\ Front(line[visible]) \in Seq(Cells)
        /\ Len(Front(line[visible])) = Len(line[visible]) - 1
        /\ TypedOn(visible, Front(line[visible]))
    BY <2>1, <2>2, FrontTyped
  <2>4. Len(Front(line[visible])) <= MaxLen
    BY <2>1, <2>3
  <2> QED  BY <2>2, <2>3, <2>4, EditStep
<1>3. CASE KeyClear
  <2>1. TypedOn(visible, <<>>) /\ Edit(<<>>)
    BY <1>3 DEF KeyClear
  <2> QED  BY <2>1, EditStep
<1>4. CASE KeyEnter
  <2>1. TypeOK'
    BY <1>4 DEF OwnInv, TypeOK, KeyEnter, shared, reader
  <2>2. UNCHANGED <<line, buf, out>>
    BY <1>4 DEF KeyEnter, shared, reader
  <2> QED  BY <2>1, <2>2 DEF OwnInv, TypedOn
<1>5. ASSUME NEW t \in Terminals, KeySwitch(t)  PROVE OwnInv'
  <2>1. TypeOK'
    BY <1>5 DEF OwnInv, TypeOK, KeySwitch, shared, keyboard, reader
  <2>2. UNCHANGED <<line, buf, out>>
    BY <1>5 DEF KeySwitch, shared, reader
  <2> QED  BY <2>1, <2>2 DEF OwnInv, TypedOn
<1> QED  BY <1>1, <1>2, <1>3, <1>4, <1>5 DEF Key

\* The rest of the handler: the line goes to the buffer of its own terminal.
LEMMA HandlerStep == ASSUME OwnInv, Handler  PROVE OwnInv'
<1> USE TermFacts, EmptyTyped
<1>1. CASE FillBuffer
  <2>1. /\ visible \in Terminals
        /\ line[visible] \in Seq(Cells)
        /\ TypedOn(visible, line[visible])
    BY DEF OwnInv, TypeOK
  <2> DEFINE b == Filled(line[visible])
  <2>2. b \in [1..MaxLen -> Cells \cup {Zero}] /\ TypedOn(visible, b)
    BY <2>1, FilledType, FilledTyped
  <2>3. /\ buf' = [buf EXCEPT ![visible] = b]
        /\ kpc' = "count" /\ kpc = "fill"
        /\ UNCHANGED <<current, visible, line, num, flag, kon, reader>>
    BY <1>1 DEF FillBuffer, HandlerAt
  <2> HIDE DEF b
  <2>4. TypeOK'
    BY <2>2, <2>3 DEF OwnInv, TypeOK, reader
  <2>5. ASSUME NEW t \in Terminals
        PROVE  TypedOn(t, buf'[t]) /\ line'[t] = line[t] /\ out'[t] = out[t]
    BY <2>1, <2>2, <2>3 DEF OwnInv, TypeOK, reader
  <2>6. ASSUME NEW t \in Terminals
        PROVE  (TypedOn(t, line[t]) /\ TypedOn(t, buf[t]) /\ TypedOn(t, out[t]))'
    BY <2>5 DEF OwnInv, TypedOn
  <2> QED  BY <2>4, <2>6 DEF OwnInv
<1>2. CASE SetCount
  <2>1. Len(line[visible]) \in 0..MaxLen
    BY DEF OwnInv, TypeOK
  <2>2. TypeOK'
    BY <1>2, <2>1 DEF OwnInv, TypeOK, SetCount, HandlerAt, reader
  <2>3. UNCHANGED <<line, buf, out>>
    BY <1>2 DEF SetCount, reader
  <2> QED  BY <2>2, <2>3 DEF OwnInv, TypedOn
<1>3. CASE SetFlag
  <2>1. TypeOK'
    BY <1>3 DEF OwnInv, TypeOK, SetFlag, HandlerAt, reader
  <2>2. UNCHANGED <<line, buf, out>>
    BY <1>3 DEF SetFlag, reader
  <2> QED  BY <2>1, <2>2 DEF OwnInv, TypedOn
<1>4. CASE ResetLine
  <2>1. TypeOK'
    <3> DEFINE e == <<>>
    <3>1. e \in Seq(Cells) /\ Len(e) <= MaxLen
      OBVIOUS
    <3>2. line' = [line EXCEPT ![visible] = e]
      BY <1>4 DEF ResetLine
    <3> HIDE DEF e
    <3>3. line' \in [Terminals -> Seq(Cells)] /\ \A t \in Terminals : Len(line'[t]) <= MaxLen
      BY <3>1, <3>2 DEF OwnInv, TypeOK
    <3> QED  BY <1>4, <3>3 DEF OwnInv, TypeOK, ResetLine, HandlerAt, shared, reader
  <2>2. ASSUME NEW t \in Terminals
        PROVE  TypedOn(t, line'[t]) /\ buf'[t] = buf[t] /\ out'[t] = out[t]
    BY <1>4 DEF OwnInv, TypeOK, ResetLine, shared, reader
  <2>3. ASSUME NEW t \in Terminals
        PROVE  (TypedOn(t, line[t]) /\ TypedOn(t, buf[t]) /\ TypedOn(t, out[t]))'
    BY <2>2 DEF OwnInv, TypedOn
  <2> QED  BY <2>1, <2>3 DEF OwnInv
<1> QED  BY <1>1, <1>2, <1>3, <1>4 DEF Handler

\* terminal_read copies from the buffer of its own terminal.
LEMMA ReaderStep ==
  ASSUME OwnInv, NEW t \in Terminals, Read(t) \/ ReadStep(t)
  PROVE  OwnInv'
<1> USE TermFacts, EmptyTyped DEF ReaderAt, ReaderGoto
<1>1. CASE Read(t)
  <2>1. TypeOK'
    <3>1. out' \in [Terminals -> Seq(Cells \cup {Zero})]
      BY <1>1 DEF OwnInv, TypeOK, Read
    <3> QED  BY <1>1, <3>1 DEF OwnInv, TypeOK, Read, shared, keyboard
  <2>2. ASSUME NEW u \in Terminals
        PROVE  TypedOn(u, out'[u]) /\ buf'[u] = buf[u] /\ line'[u] = line[u]
    BY <1>1 DEF OwnInv, TypeOK, Read, shared
  <2>3. ASSUME NEW u \in Terminals
        PROVE  (TypedOn(u, line[u]) /\ TypedOn(u, buf[u]) /\ TypedOn(u, out[u]))'
    BY <2>2 DEF OwnInv, TypedOn
  <2> QED  BY <2>1, <2>3 DEF OwnInv
<1>2. CASE SeeFlag(t)
  <2>1. TypeOK'
    BY <1>2 DEF OwnInv, TypeOK, SeeFlag, shared, keyboard
  <2>2. UNCHANGED <<line, buf, out>>
    BY <1>2 DEF SeeFlag, shared
  <2> QED  BY <2>1, <2>2 DEF OwnInv, TypedOn
<1>3. CASE CopyChar(t)
  <2> DEFINE e == buf[t][Len(out[t]) + 1]
             o == Append(out[t], e)
  <2>1. /\ out[t] \in Seq(Cells \cup {Zero})
        /\ TypedOn(t, out[t]) /\ TypedOn(t, buf[t])
        /\ buf[t] \in [1..MaxLen -> Cells \cup {Zero}]
        /\ num[t] \in 0..MaxLen
    BY DEF OwnInv, TypeOK
  <2>2. Len(out[t]) < num[t] /\ out' = [out EXCEPT ![t] = o]
    BY <1>3 DEF CopyChar, OwnInv, TypeOK
  <2>3. Len(out[t]) + 1 \in 1..MaxLen
    BY <2>1, <2>2
  <2>4. e \in Cells \cup {Zero} /\ (e # Zero => e[1] = t)
    BY <2>1, <2>3 DEF TypedOn
  <2> HIDE DEF e
  <2>5. o \in Seq(Cells \cup {Zero}) /\ TypedOn(t, o)
    BY <2>1, <2>4, AppendTyped
  <2> HIDE DEF o
  <2>6. TypeOK'
    BY <1>3, <2>2, <2>5 DEF OwnInv, TypeOK, CopyChar, shared, keyboard
  <2>7. ASSUME NEW u \in Terminals
        PROVE  TypedOn(u, out'[u]) /\ buf'[u] = buf[u] /\ line'[u] = line[u]
    BY <1>3, <2>2, <2>5 DEF OwnInv, TypeOK, CopyChar, shared
  <2>8. ASSUME NEW u \in Terminals
        PROVE  (TypedOn(u, line[u]) /\ TypedOn(u, buf[u]) /\ TypedOn(u, out[u]))'
    BY <2>7 DEF OwnInv, TypedOn
  <2> QED  BY <2>6, <2>8 DEF OwnInv
<1>4. CASE EndCopy(t)
  <2>1. num[t] + 1 \in 0..MaxLen+1
    <3>1. num[t] \in 0..MaxLen  BY DEF OwnInv, TypeOK
    <3> QED  BY <3>1
  <2>2. TypeOK'
    BY <1>4, <2>1 DEF OwnInv, TypeOK, EndCopy, shared, keyboard
  <2>3. UNCHANGED <<line, buf, out>>
    BY <1>4 DEF EndCopy, shared
  <2> QED  BY <2>2, <2>3 DEF OwnInv, TypedOn
<1>5. CASE ClearBuffer(t)
  <2> DEFINE b == Filled(<<>>)
  <2>1. b \in [1..MaxLen -> Cells \cup {Zero}] /\ TypedOn(t, b)
    BY FilledType, FilledTyped
  <2>2. buf' = [buf EXCEPT ![t] = b]
    BY <1>5 DEF ClearBuffer
  <2> HIDE DEF b
  <2>3. TypeOK'
    BY <1>5, <2>1, <2>2 DEF OwnInv, TypeOK, ClearBuffer, keyboard
  <2>4. ASSUME NEW u \in Terminals
        PROVE  TypedOn(u, buf'[u]) /\ out'[u] = out[u] /\ line'[u] = line[u]
    BY <1>5, <2>1, <2>2 DEF OwnInv, TypeOK, ClearBuffer
  <2>5. ASSUME NEW u \in Terminals
        PROVE  (TypedOn(u, line[u]) /\ TypedOn(u, buf[u]) /\ TypedOn(u, out[u]))'
    BY <2>4 DEF OwnInv, TypedOn
  <2> QED  BY <2>3, <2>5 DEF OwnInv
<1>6. CASE ZeroCount(t)
  <2>1. TypeOK'
    <3>1. num' \in [Terminals -> 0..MaxLen]
      BY <1>6 DEF OwnInv, TypeOK, ZeroCount
    <3> QED  BY <1>6, <3>1 DEF OwnInv, TypeOK, ZeroCount, keyboard
  <2>2. UNCHANGED <<line, buf, out>>
    BY <1>6 DEF ZeroCount
  <2> QED  BY <2>1, <2>2 DEF OwnInv, TypedOn
<1>7. CASE ReadReturn(t)
  <2>1. TypeOK'
    BY <1>7 DEF OwnInv, TypeOK, ReadReturn, keyboard
  <2>2. UNCHANGED <<line, buf, out>>
    BY <1>7 DEF ReadReturn
  <2> QED  BY <2>1, <2>2 DEF OwnInv, TypedOn
<1> QED  BY <1>1, <1>2, <1>3, <1>4, <1>5, <1>6, <1>7 DEF ReadStep

LEMMA OwnStep == OwnInv /\ [Next]_vars => OwnInv'
<1> SUFFICES ASSUME OwnInv, [Next]_vars  PROVE OwnInv'
  OBVIOUS
<1>1. CASE Tick
  <2>1. TypeOK'
    BY <1>1, TermFacts DEF OwnInv, TypeOK, Tick, shared, keyboard, reader
  <2>2. UNCHANGED <<line, buf, out>>
    BY <1>1 DEF Tick, shared, reader
  <2> QED  BY <2>1, <2>2 DEF OwnInv, TypedOn
<1>2. CASE UNCHANGED vars
  <2>1. TypeOK'
    BY <1>2 DEF OwnInv, TypeOK, vars, shared, keyboard, reader
  <2>2. UNCHANGED <<line, buf, out>>
    BY <1>2 DEF vars, shared, reader
  <2> QED  BY <2>1, <2>2 DEF OwnInv, TypedOn
<1> QED  BY <1>1, <1>2, KeyStep, HandlerStep, ReaderStep DEF Next

\* Every variable of LineDiscipline keeps its type; in particular no line and
\* no buffer ever grows past the place kept for the newline (check_input).
THEOREM LineTypeCorrect == Spec => []TypeOK
<1>1. OwnInv => TypeOK  BY DEF OwnInv
<1> QED  BY <1>1, OwnInit, OwnStep, PTL DEF Spec

\* No process ever reads a character typed for another terminal, whenever ENTER
\* is pressed and wherever the PIT interrupts the keyboard handler
\* (set_terminal_buffer, terminal_read; bug_log.txt item 5).
THEOREM InputStaysHome == Spec => []OwnInput
<1>1. OwnInv => OwnInput  BY DEF OwnInv, OwnInput
<1> QED  BY <1>1, OwnInit, OwnStep, PTL DEF Spec

(***************************************************************************)
(* The line as a queue.  When ENTER is pressed only for a read that waits, *)
(* handler and reader take turns on the buffer of a terminal: k is what    *)
(* the handler does next for the terminal, the others are its components   *)
(* of line, buf, num, flag, rpc, out, ret, sent and got.                   *)
(***************************************************************************)
Handing == {"fill", "count", "flag"}
Taking  == {"copy", "clear", "zero", "unflag"}

\* The line that was handed over last.
Pending(s) == s[Len(s)]

\* What the buffer, and what its count stand for.
Held(k, l, f, r, s) ==
  IF k \in {"count", "flag"} THEN l
  ELSE IF f /\ r \notin {"zero", "unflag"} THEN Pending(s) ELSE <<>>

Counted(k, l, f, r, s) ==
  IF k = "flag" THEN l ELSE IF f /\ r # "unflag" THEN Pending(s) ELSE <<>>

\* How far the reader has come with the line.
Taken(r, o, v, s) ==
  /\ r = "spin" => o = <<>>
  /\ r = "copy" => /\ Len(o) <= Len(Pending(s))
                   /\ \A i \in 1 .. Len(o) : o[i] = Pending(s)[i]
  /\ r \in {"clear", "zero", "unflag"} => o = Pending(s) /\ v = Len(Pending(s)) + 1

\* Whose turn it is.
Turns(k, f, r) ==
  /\ k \in Handing => r = "spin" /\ ~f
  /\ r = "user" => ~f
  /\ r \in Taking => f

Histories(f, s, g) ==
  /\ s \in Seq(Seq(Cells))
  /\ g \in Seq(Seq(Cells \cup {Zero}) \X (0 .. MaxLen+1))
  /\ Len(s) = IF f THEN Len(g) + 1 ELSE Len(g)
  /\ f => Pending(s) \in Seq(Cells) /\ Len(Pending(s)) <= MaxLen

QueueAt(k, l, b, n, f, r, o, v, s, g) ==
  /\ Turns(k, f, r)
  /\ Histories(f, s, g)
  /\ b = Filled(Held(k, l, f, r, s))
  /\ n = Len(Counted(k, l, f, r, s))
  /\ Taken(r, o, v, s)

Phase(t) == IF visible = t THEN kpc ELSE "idle"

QueueOn(t) ==
  QueueAt(Phase(t), line[t], buf[t], num[t], flag[t], rpc[t], out[t], ret[t], sent[t], got[t])

QueueInv ==
  /\ OwnInv
  /\ DOMAIN sent = Terminals /\ DOMAIN got = Terminals
  /\ \A t \in Terminals : QueueOn(t)

LEMMA QueueInit == Init => QueueInv
<1> SUFFICES ASSUME Init  PROVE QueueInv
  OBVIOUS
<1>1. OwnInv /\ DOMAIN sent = Terminals /\ DOMAIN got = Terminals
  BY OwnInit DEF Init
<1>2. ASSUME NEW t \in Terminals  PROVE QueueOn(t)
  <2>1. /\ Phase(t) = "idle" /\ buf[t] = Filled(<<>>) /\ num[t] = 0 /\ flag[t] = FALSE
        /\ rpc[t] = "user" /\ sent[t] = <<>> /\ got[t] = <<>>
    BY DEF Init, Phase
  <2>2. Turns(Phase(t), flag[t], rpc[t]) /\ Taken(rpc[t], out[t], ret[t], sent[t])
    BY <2>1 DEF Turns, Taken, Handing, Taking
  <2>3. Histories(flag[t], sent[t], got[t])
    BY <2>1 DEF Histories
  <2>4. /\ Held(Phase(t), line[t], flag[t], rpc[t], sent[t]) = <<>>
        /\ Counted(Phase(t), line[t], flag[t], rpc[t], sent[t]) = <<>>
    BY <2>1 DEF Held, Counted
  <2> QED  BY <2>1, <2>2, <2>3, <2>4 DEF QueueOn, QueueAt
<1> QED  BY <1>1, <1>2 DEF QueueInv

\* A terminal that a step leaves alone.
LEMMA QueueKept ==
  ASSUME NEW t, QueueOn(t), Phase(t)' = Phase(t), line'[t] = line[t],
         buf'[t] = buf[t], num'[t] = num[t], flag'[t] = flag[t], rpc'[t] = rpc[t],
         out'[t] = out[t], ret'[t] = ret[t], sent'[t] = sent[t], got'[t] = got[t]
  PROVE  QueueOn(t)'
BY DEF QueueOn

\* Outside the hand-over the edited line does not matter.
LEMMA QueueIdle ==
  ASSUME NEW t, QueueOn(t), Phase(t) \notin Handing, Phase(t)' \notin Handing,
         buf'[t] = buf[t], num'[t] = num[t], flag'[t] = flag[t], rpc'[t] = rpc[t],
         out'[t] = out[t], ret'[t] = ret[t], sent'[t] = sent[t], got'[t] = got[t]
  PROVE  QueueOn(t)'
<1>1. /\ Held(Phase(t), line[t], flag[t], rpc[t], sent[t])
           = Held(Phase(t)', line'[t], flag[t], rpc[t], sent[t])
      /\ Counted(Phase(t), line[t], flag[t], rpc[t], sent[t])
           = Counted(Phase(t)', line'[t], flag[t], rpc[t], sent[t])
  BY DEF Held, Counted, Handing
<1>2. Turns(Phase(t)', flag[t], rpc[t])
  BY DEF QueueOn, QueueAt, Turns
<1> QED  BY <1>1, <1>2 DEF QueueOn, QueueAt

\* Keys.
LEMMA QueueKey ==
  ASSUME QueueInv, ~TypeAhead, Key
  PROVE  QueueInv'
<1>1. OwnInv'
  BY KeyStep DEF QueueInv
<1>2. /\ kon = None /\ kpc = "idle"
      /\ UNCHANGED <<buf, num, flag, rpc, out, ret, sent, got>>
  BY DEF QueueInv, OwnInv, TypeOK, Key, KeyChar, KeyBackspace, KeyClear, KeyEnter, KeySwitch, Edit,
         shared, reader
<1>3. CASE kpc' = "idle"
  <2>1. ASSUME NEW t \in Terminals  PROVE QueueOn(t)'
    <3>1. Phase(t) \notin Handing /\ Phase(t)' \notin Handing
      BY <1>2, <1>3 DEF Phase, Handing
    <3> QED  BY <1>2, <3>1, QueueIdle DEF QueueInv
  <2> QED  BY <1>1, <1>2, <2>1 DEF QueueInv
<1>4. CASE KeyEnter
  <2>1. /\ kpc' = "fill" /\ UNCHANGED <<visible, line>>
        /\ flag[visible] = FALSE /\ rpc[visible] = "spin"
        /\ visible \in Terminals
    <3>1. flag[visible] \in BOOLEAN /\ visible \in Terminals
      BY DEF QueueInv, OwnInv, TypeOK
    <3> QED  BY <1>4, <3>1 DEF KeyEnter
  <2>2. ASSUME NEW t \in Terminals, t # visible  PROVE QueueOn(t)'
    <3>1. Phase(t)' = Phase(t)
      BY <2>1, <2>2 DEF Phase
    <3> QED  BY <1>2, <2>1, <3>1, QueueKept DEF QueueInv
  <2>3. QueueOn(visible)'
    <3>1. QueueOn(visible) /\ Phase(visible) = "idle" /\ Phase(visible)' = "fill"
      BY <1>2, <2>1 DEF QueueInv, Phase
    <3>2. Turns("fill", flag[visible], rpc[visible])
      BY <2>1 DEF Turns, Taking
    <3>3. \A l, f, r, s : Held("fill", l, f, r, s) = Held("idle", l, f, r, s)
                          /\ Counted("fill", l, f, r, s) = Counted("idle", l, f, r, s)
      BY DEF Held, Counted
    <3> QED  BY <1>2, <2>1, <3>1, <3>2, <3>3 DEF QueueOn, QueueAt
  <2>4. ASSUME NEW t \in Terminals  PROVE QueueOn(t)'
    BY <2>1, <2>2, <2>3
  <2> QED  BY <1>1, <1>2, <2>4 DEF QueueInv
<1>5. kpc' = "idle" \/ KeyEnter
  BY <1>2 DEF Key, KeyChar, KeyBackspace, KeyClear, KeySwitch, Edit, keyboard
<1> QED  BY <1>3, <1>4, <1>5

\* The keyboard handler hands the line over.
LEMMA QueueHandler ==
  ASSUME QueueInv, Handler
  PROVE  QueueInv'
<1> DEFINE v == visible
           l == line[v]
           s == sent[v]
           g == got[v]
<1>1. OwnInv'
  BY HandlerStep DEF QueueInv
<1>2. v \in Terminals /\ l \in Seq(Cells) /\ Len(l) <= MaxLen /\ flag[v] \in BOOLEAN
  BY DEF QueueInv, OwnInv, TypeOK
<1>3. QueueAt(kpc, l, buf[v], num[v], flag[v], rpc[v], out[v], ret[v], s, g)
  BY <1>2 DEF QueueInv, QueueOn, Phase
<1>4. UNCHANGED <<visible, rpc, out, ret, got>>
  BY DEF Handler, FillBuffer, SetCount, SetFlag, ResetLine, reader
<1>5. ASSUME NEW t \in Terminals, t # v
      PROVE  /\ QueueOn(t) /\ Phase(t)' = Phase(t) /\ line'[t] = line[t]
             /\ buf'[t] = buf[t] /\ num'[t] = num[t] /\ flag'[t] = flag[t]
             /\ sent'[t] = sent[t]
  <2>1. Phase(t)' = Phase(t)
    BY <1>4, <1>5 DEF Phase
  <2> QED
    BY <1>5, <2>1 DEF QueueInv, OwnInv, TypeOK, Handler, FillBuffer, SetCount, SetFlag, ResetLine, shared
<1>6. ASSUME NEW t \in Terminals, t # v  PROVE QueueOn(t)'
  BY <1>4, <1>5, <1>6, QueueKept
<1>7. DOMAIN sent' = Terminals /\ DOMAIN got' = Terminals
  BY <1>4 DEF QueueInv, Handler, FillBuffer, SetCount, SetFlag, ResetLine
<1>8. QueueOn(v)'
  <2>1. Phase(v)' = kpc'
    BY <1>4 DEF Phase
  <2>2. CASE FillBuffer
    <3>1. /\ kpc = "fill" /\ kpc' = "count" /\ buf'[v] = Filled(l)
          /\ line'[v] = l /\ num'[v] = num[v] /\ flag'[v] = flag[v] /\ sent'[v] = s
      BY <1>2, <2>2 DEF FillBuffer, HandlerAt, QueueInv, OwnInv, TypeOK
    <3> HIDE DEF l, s, g, v
    <3>2. Turns("count", flag[v], rpc[v])
      BY <1>3, <3>1 DEF QueueAt, Turns, Handing
    <3>3. /\ Held("count", l, flag[v], rpc[v], s) = l
          /\ Counted("count", l, flag[v], rpc[v], s) = Counted("fill", l, flag[v], rpc[v], s)
      BY DEF Held, Counted
    <3>4. QueueAt("count", l, Filled(l), num[v], flag[v], rpc[v], out[v], ret[v], s, g)
      BY <1>3, <3>1, <3>2, <3>3 DEF QueueAt
    <3> QED  BY <1>4, <2>1, <3>1, <3>4 DEF QueueOn, g, v
  <2>3. CASE SetCount
    <3>1. /\ kpc = "count" /\ kpc' = "flag" /\ num'[v] = Len(l)
          /\ line'[v] = l /\ buf'[v] = buf[v] /\ flag'[v] = flag[v] /\ sent'[v] = s
      BY <1>2, <2>3 DEF SetCount, HandlerAt, QueueInv, OwnInv, TypeOK
    <3> HIDE DEF l, s, g, v
    <3>2. Turns("flag", flag[v], rpc[v])
      BY <1>3, <3>1 DEF QueueAt, Turns, Handing
    <3>3. /\ Held("flag", l, flag[v], rpc[v], s) = Held("count", l, flag[v], rpc[v], s)
          /\ Counted("flag", l, flag[v], rpc[v], s) = l
      BY DEF Held, Counted
    <3>4. QueueAt("flag", l, buf[v], Len(l), flag[v], rpc[v], out[v], ret[v], s, g)
      BY <1>3, <3>1, <3>2, <3>3 DEF QueueAt
    <3> QED  BY <1>4, <2>1, <3>1, <3>4 DEF QueueOn, g, v
  <2>4. CASE SetFlag
    <3>1. /\ kpc = "flag" /\ kpc' = "reset" /\ flag'[v] = TRUE /\ sent'[v] = Append(s, l)
          /\ line'[v] = l /\ buf'[v] = buf[v] /\ num'[v] = num[v]
      BY <1>2, <2>4 DEF SetFlag, HandlerAt, QueueInv, OwnInv, TypeOK
    <3>2. rpc[v] = "spin" /\ flag[v] = FALSE
      BY <1>2, <1>3, <3>1 DEF QueueAt, Turns, Handing
    <3> HIDE DEF l, s, g, v
    <3>3. s \in Seq(Seq(Cells)) /\ Len(s) = Len(g)
          /\ g \in Seq(Seq(Cells \cup {Zero}) \X (0 .. MaxLen+1))
      BY <1>3, <3>2 DEF QueueAt, Histories
    <3>4. Pending(Append(s, l)) = l
      BY <1>2, <3>3 DEF Pending
    <3>5. Histories(TRUE, Append(s, l), g)
      <4>1. Append(s, l) \in Seq(Seq(Cells)) /\ Len(Append(s, l)) = Len(g) + 1
        BY <1>2, <3>3
      <4> QED  BY <1>2, <3>3, <3>4, <4>1 DEF Histories
    <3>6. Turns("reset", TRUE, "spin") /\ Taken("spin", out[v], ret[v], Append(s, l))
      BY <1>3, <3>2 DEF QueueAt, Turns, Taken, Handing
    <3>7. /\ Held("reset", l, TRUE, "spin", Append(s, l)) = l
          /\ Counted("reset", l, TRUE, "spin", Append(s, l)) = l
      BY <3>4 DEF Held, Counted
    <3>8. buf[v] = Filled(l) /\ num[v] = Len(l)
      BY <1>3, <3>1 DEF QueueAt, Held, Counted
    <3>9. QueueAt("reset", l, buf[v], num[v], TRUE, "spin", out[v], ret[v], Append(s, l), g)
      BY <3>5, <3>6, <3>7, <3>8 DEF QueueAt
    <3> QED  BY <1>4, <2>1, <3>1, <3>2, <3>9 DEF QueueOn, g, v
  <2>5. CASE ResetLine
    <3>1. /\ kpc = "reset" /\ kpc' = "idle"
          /\ buf'[v] = buf[v] /\ num'[v] = num[v] /\ flag'[v] = flag[v] /\ sent'[v] = s
      BY <2>5 DEF ResetLine, HandlerAt, shared
    <3>2. Phase(v) = "reset" /\ QueueOn(v)
      BY <1>2, <3>1 DEF Phase, QueueInv
    <3> QED  BY <1>4, <2>1, <3>1, <3>2, QueueIdle DEF Handing
  <2> QED  BY <2>2, <2>3, <2>4, <2>5 DEF Handler
<1>9. ASSUME NEW t \in Terminals  PROVE QueueOn(t)'
  BY <1>4, <1>6, <1>8
<1> QED  BY <1>1, <1>7, <1>9 DEF QueueInv

\* terminal_read takes the line.
LEMMA QueueReader ==
  ASSUME QueueInv, NEW t \in Terminals, Read(t) \/ ReadStep(t)
  PROVE  QueueInv'
<1> DEFINE k == Phase(t)
           l == line[t]
           s == sent[t]
           g == got[t]
           b == buf[t]
           n == num[t]
           o == out[t]
           q == Pending(s)
<1>1. OwnInv'
  BY ReaderStep DEF QueueInv
<1>2. /\ flag[t] \in BOOLEAN /\ o \in Seq(Cells \cup {Zero})
      /\ b \in [1..MaxLen -> Cells \cup {Zero}]
  BY DEF QueueInv, OwnInv, TypeOK
<1>3. QueueAt(k, l, b, n, flag[t], rpc[t], o, ret[t], s, g)
  BY DEF QueueInv, QueueOn
<1>4. UNCHANGED <<visible, line, kpc, sent>> /\ Phase(t)' = k
  BY DEF Read, ReadStep, SeeFlag, CopyChar, EndCopy, ClearBuffer, ZeroCount, ReadReturn, keyboard, Phase
<1>5. ASSUME NEW u \in Terminals, u # t
      PROVE  /\ QueueOn(u) /\ Phase(u)' = Phase(u)
             /\ buf'[u] = buf[u] /\ num'[u] = num[u] /\ flag'[u] = flag[u] /\ rpc'[u] = rpc[u]
             /\ out'[u] = out[u] /\ ret'[u] = ret[u] /\ got'[u] = got[u]
  <2>1. Phase(u)' = Phase(u)
    BY <1>4 DEF Phase
  <2> QED
    BY <1>5, <2>1 DEF QueueInv, OwnInv, TypeOK, Read, ReadStep, SeeFlag, CopyChar, EndCopy, ClearBuffer,
       ZeroCount, ReadReturn, shared, ReaderGoto
<1>6. ASSUME NEW u \in Terminals, u # t  PROVE QueueOn(u)'
  BY <1>4, <1>5, <1>6, QueueKept
<1>7. DOMAIN sent' = Terminals /\ DOMAIN got' = Terminals
  BY <1>4 DEF QueueInv, Read, ReadStep, SeeFlag, CopyChar, EndCopy, ClearBuffer, ZeroCount, ReadReturn
<1>8. QueueOn(t)'
  <2> SUFFICES QueueAt(k, l, buf'[t], num'[t], flag'[t], rpc'[t], out'[t], ret'[t], s, got'[t])
    BY <1>4 DEF QueueOn
  <2>1. CASE Read(t)
    <3>1. /\ rpc[t] = "user" /\ rpc'[t] = "spin" /\ out'[t] = <<>>
          /\ buf'[t] = b /\ num'[t] = n /\ flag'[t] = flag[t] /\ ret'[t] = ret[t] /\ got'[t] = g
      BY <2>1 DEF QueueInv, OwnInv, TypeOK, Read, shared, ReaderAt, ReaderGoto
    <3>2. flag[t] = FALSE /\ k \notin Handing
      BY <1>2, <1>3, <3>1 DEF QueueAt, Turns
    <3> HIDE DEF k, l, s, g, b, n, o
    <3>3. Turns(k, FALSE, "spin") /\ Taken("spin", <<>>, ret[t], s)
      BY <3>2 DEF Turns, Taken, Taking
    <3>4. /\ Held(k, l, FALSE, "spin", s) = Held(k, l, FALSE, "user", s)
          /\ Counted(k, l, FALSE, "spin", s) = Counted(k, l, FALSE, "user", s)
      BY DEF Held, Counted
    <3>5. QueueAt(k, l, b, n, FALSE, "spin", <<>>, ret[t], s, g)
      BY <1>3, <3>1, <3>2, <3>3, <3>4 DEF QueueAt
    <3> QED  BY <3>1, <3>2, <3>5
  <2>2. CASE ReadStep(t)
    <3>1. /\ flag[t] = TRUE /\ rpc[t] \in {"spin"} \cup Taking
          /\ k \notin Handing
      <4>1. flag[t] /\ rpc[t] \in {"spin"} \cup Taking
        BY <1>3, <2>2 DEF QueueAt, Turns, ReadStep, SeeFlag, CopyChar, EndCopy, ClearBuffer, ZeroCount,
           ReadReturn, ReaderAt, Taking
      <4> QED  BY <1>2, <1>3, <4>1 DEF QueueAt, Turns
    <3>2. q \in Seq(Cells) /\ Len(q) <= MaxLen /\ Histories(TRUE, s, g)
      BY <1>3, <3>1 DEF QueueAt, Histories
    <3>3. /\ b = Filled(IF rpc[t] \notin {"zero", "unflag"} THEN q ELSE <<>>)
          /\ n = Len(IF rpc[t] # "unflag" THEN q ELSE <<>>)
          /\ Taken(rpc[t], o, ret[t], s)
      BY <1>3, <3>1 DEF QueueAt, Held, Counted, Handing
    <3>4. ASSUME NEW r \in {"spin"} \cup Taking, NEW x, NEW w, Taken(r, x, w, s), NEW h, NEW c,
                 h = IF r \notin {"zero", "unflag"} THEN q ELSE <<>>,
                 c = IF r # "unflag" THEN q ELSE <<>>
          PROVE  QueueAt(k, l, Filled(h), Len(c), TRUE, r, x, w, s, g)
      <4>1. Turns(k, TRUE, r)
        BY <3>1 DEF Turns, Taking
      <4>2. Held(k, l, TRUE, r, s) = h /\ Counted(k, l, TRUE, r, s) = c
        BY <3>1, <3>4 DEF Held, Counted, Handing
      <4> HIDE DEF q
      <4> QED  BY <3>2, <3>4, <4>1, <4>2 DEF QueueAt
    <3>5. CASE SeeFlag(t)
      <4>1. /\ rpc[t] = "spin" /\ rpc'[t] = "copy" /\ out'[t] = o
            /\ buf'[t] = b /\ num'[t] = n /\ flag'[t] = TRUE /\ ret'[t] = ret[t] /\ got'[t] = g
        BY <3>1, <3>5 DEF QueueInv, OwnInv, TypeOK, SeeFlag, shared, ReaderAt, ReaderGoto
      <4>2. o = <<>>
        BY <3>3, <4>1 DEF Taken
      <4> HIDE DEF q, o, b, n, k, l, s, g
      <4>3. Taken("copy", <<>>, ret[t], s)
        BY <3>2 DEF Taken, q
      <4>4. b = Filled(q) /\ n = Len(q)
        BY <3>3, <4>1
      <4>5. QueueAt(k, l, Filled(q), Len(q), TRUE, "copy", <<>>, ret[t], s, g)
        BY <3>4, <4>3 DEF Taking
      <4> QED  BY <4>1, <4>2, <4>4, <4>5
    <3>6. CASE CopyChar(t)
      <4>1. /\ rpc[t] = "copy" /\ rpc'[t] = "copy" /\ out'[t] = Append(o, b[Len(o) + 1])
            /\ Len(o) < n
            /\ buf'[t] = b /\ num'[t] = n /\ flag'[t] = TRUE /\ ret'[t] = ret[t] /\ got'[t] = g
        BY <3>1, <3>6 DEF QueueInv, OwnInv, TypeOK, CopyChar, shared, ReaderAt
      <4> HIDE DEF q, o, b, n, k, l, s, g
      <4>2. b = Filled(q) /\ n = Len(q)
        BY <3>3, <4>1
      <4>3. Len(o) + 1 \in 1 .. MaxLen /\ Len(o) + 1 <= Len(q)
        BY <1>2, <3>2, <4>1, <4>2
      <4>4. b[Len(o) + 1] = q[Len(o) + 1] /\ b[Len(o) + 1] \in Cells \cup {Zero}
        BY <1>2, <4>2, <4>3 DEF Filled
      <4> DEFINE x == Append(o, b[Len(o) + 1])
      <4>5. Len(x) = Len(o) + 1 /\ \A i \in 1 .. Len(o) : x[i] = o[i]
        BY <1>2, <4>4
      <4>6. x[Len(o) + 1] = q[Len(o) + 1]
        BY <1>2, <4>4
      <4> HIDE DEF x
      <4>7. \A i \in 1 .. Len(o) : o[i] = q[i]
        BY <3>3, <4>1 DEF Taken, q
      <4>8. Taken("copy", x, ret[t], s)
        <5>1. Len(x) <= Len(q)
          BY <4>3, <4>5
        <5>2. ASSUME NEW i \in 1 .. Len(x)  PROVE x[i] = q[i]
          <6>1. i \in 1 .. Len(o) \/ i = Len(o) + 1
            BY <1>2, <4>5
          <6> QED  BY <4>5, <4>6, <4>7, <6>1
        <5> QED  BY <5>1, <5>2 DEF Taken, q
      <4>9. QueueAt(k, l, Filled(q), Len(q), TRUE, "copy", x, ret[t], s, g)
        BY <3>4, <4>8 DEF Taking
      <4> QED  BY <4>1, <4>2, <4>9 DEF x
    <3>7. CASE EndCopy(t)
      <4>1. /\ rpc[t] = "copy" /\ rpc'[t] = "clear" /\ ret'[t] = n + 1
            /\ Len(o) >= n
            /\ buf'[t] = b /\ num'[t] = n /\ flag'[t] = TRUE /\ out'[t] = o /\ got'[t] = g
        BY <3>1, <3>7 DEF QueueInv, OwnInv, TypeOK, EndCopy, shared, ReaderAt, ReaderGoto
      <4> HIDE DEF q, o, b, n, k, l, s, g
      <4>2. b = Filled(q) /\ n = Len(q)
        BY <3>3, <4>1
      <4>3. Len(o) <= Len(q) /\ \A i \in 1 .. Len(o) : o[i] = q[i]
        BY <3>3, <4>1 DEF Taken, q
      <4>4. o = q
        <5>1. Len(o) = Len(q) /\ Len(q) \in Nat
          BY <1>2, <3>2, <4>1, <4>2, <4>3
        <5>2. q \in Seq(Cells \cup {Zero})
          BY <3>2
        <5> QED  BY <1>2, <4>3, <5>1, <5>2
      <4>5. Taken("clear", o, n + 1, s)
        BY <4>2, <4>4 DEF Taken, q
      <4>6. QueueAt(k, l, Filled(q), Len(q), TRUE, "clear", o, n + 1, s, g)
        BY <3>4, <4>5 DEF Taking
      <4> QED  BY <4>1, <4>2, <4>6
    <3>8. CASE ClearBuffer(t)
      <4>1. /\ rpc[t] = "clear" /\ rpc'[t] = "zero" /\ buf'[t] = Filled(<<>>)
            /\ num'[t] = n /\ flag'[t] = TRUE /\ out'[t] = o /\ ret'[t] = ret[t] /\ got'[t] = g
        BY <3>1, <3>8 DEF QueueInv, OwnInv, TypeOK, ClearBuffer, ReaderAt, ReaderGoto
      <4> HIDE DEF q, o, b, n, k, l, s, g
      <4>2. n = Len(q) /\ Taken("zero", o, ret[t], s)
        BY <3>3, <4>1 DEF Taken
      <4>3. QueueAt(k, l, Filled(<<>>), Len(q), TRUE, "zero", o, ret[t], s, g)
        BY <3>4, <4>2 DEF Taking
      <4> QED  BY <4>1, <4>2, <4>3
    <3>9. CASE ZeroCount(t)
      <4>1. /\ rpc[t] = "zero" /\ rpc'[t] = "unflag" /\ buf'[t] = b
            /\ num'[t] = 0 /\ flag'[t] = TRUE /\ out'[t] = o /\ ret'[t] = ret[t] /\ got'[t] = g
        BY <3>1, <3>9 DEF QueueInv, OwnInv, TypeOK, ZeroCount, ReaderAt, ReaderGoto
      <4> HIDE DEF q, o, b, n, k, l, s, g
      <4>2. b = Filled(<<>>) /\ Taken("unflag", o, ret[t], s) /\ Len(<<>>) = 0
        BY <3>3, <4>1 DEF Taken
      <4>3. QueueAt(k, l, Filled(<<>>), Len(<<>>), TRUE, "unflag", o, ret[t], s, g)
        BY <3>4, <4>2 DEF Taking
      <4> QED  BY <4>1, <4>2, <4>3
    <3>10. CASE ReadReturn(t)
      <4>1. /\ rpc[t] = "unflag" /\ rpc'[t] = "user" /\ buf'[t] = b /\ num'[t] = n
            /\ flag'[t] = FALSE /\ out'[t] = o /\ ret'[t] = ret[t]
            /\ got'[t] = Append(g, <<o, ret[t]>>)
        BY <3>1, <3>10 DEF QueueInv, OwnInv, TypeOK, ReadReturn, ReaderAt, ReaderGoto
      <4>2. ret[t] \in 0 .. MaxLen+1
        BY DEF QueueInv, OwnInv, TypeOK
      <4> HIDE DEF q, o, b, n, k, l, s, g
      <4>3. b = Filled(<<>>) /\ n = Len(<<>>)
        BY <3>3, <4>1
      <4>4. Histories(FALSE, s, Append(g, <<o, ret[t]>>))
        <5>1. <<o, ret[t]>> \in Seq(Cells \cup {Zero}) \X (0 .. MaxLen+1)
          BY <1>2, <4>2
        <5>2. /\ g \in Seq(Seq(Cells \cup {Zero}) \X (0 .. MaxLen+1))
              /\ s \in Seq(Seq(Cells)) /\ Len(s) = Len(g) + 1
          BY <3>2 DEF Histories
        <5>3. /\ Append(g, <<o, ret[t]>>) \in Seq(Seq(Cells \cup {Zero}) \X (0 .. MaxLen+1))
              /\ Len(Append(g, <<o, ret[t]>>)) = Len(g) + 1
          BY <5>1, <5>2
        <5> QED  BY <5>2, <5>3 DEF Histories
      <4>5. Turns(k, FALSE, "user") /\ Taken("user", o, ret[t], s)
        BY <3>1 DEF Turns, Taken, Taking
      <4>6. Held(k, l, FALSE, "user", s) = <<>> /\ Counted(k, l, FALSE, "user", s) = <<>>
        BY <3>1 DEF Held, Counted, Handing
      <4>7. QueueAt(k, l, b, n, FALSE, "user", o, ret[t], s, Append(g, <<o, ret[t]>>))
        BY <4>3, <4>4, <4>5, <4>6 DEF QueueAt
      <4> QED  BY <4>1, <4>7
    <3> QED  BY <2>2, <3>5, <3>6, <3>7, <3>8, <3>9, <3>10 DEF ReadStep
  <2> QED  BY <2>1, <2>2
<1>9. ASSUME NEW u \in Terminals  PROVE QueueOn(u)'
  BY <1>6, <1>8
<1> QED  BY <1>1, <1>7, <1>9 DEF QueueInv

LEMMA QueueNext ==
  ASSUME QueueInv, ~TypeAhead, [Next]_vars
  PROVE  QueueInv'
<1>1. CASE Tick \/ UNCHANGED vars
  <2>1. OwnInv'
    BY OwnStep DEF QueueInv
  <2>2. UNCHANGED <<visible, line, buf, num, flag, kpc, rpc, out, ret, got, sent>>
    BY <1>1 DEF Tick, vars, shared, keyboard, reader
  <2>3. ASSUME NEW t \in Terminals  PROVE QueueOn(t)'
    <3>1. Phase(t)' = Phase(t)
      BY <2>2 DEF Phase
    <3> QED  BY <2>2, <3>1, QueueKept DEF QueueInv
  <2> QED  BY <2>1, <2>2, <2>3 DEF QueueInv
<1> QED  BY <1>1, QueueKey, QueueHandler, QueueReader DEF Next

\* Handler and reader take turns on every buffer (set_terminal_buffer against
\* terminal_read).
THEOREM QueueInvariant == ~TypeAhead => (Spec => []QueueInv)
<1> SUFFICES ASSUME ~TypeAhead PROVE Spec => []QueueInv
  OBVIOUS
<1>1. QueueInv /\ [Next]_vars => QueueInv'
  BY QueueNext
<1> QED  BY <1>1, QueueInit, PTL DEF Spec

\* No line survives the read that consumed it: the buffer and its count are empty
\* whenever the flag is clear and the handler is not filling them (terminal_read's
\* memset and numberofchars = 0 against set_terminal_buffer).
THEOREM LinesAreConsumedOnce == ~TypeAhead => (Spec => []ConsumedOnce)
<1> SUFFICES ASSUME ~TypeAhead PROVE Spec => []ConsumedOnce
  OBVIOUS
<1>1. QueueInv => ConsumedOnce
  <2> SUFFICES ASSUME QueueInv, NEW t \in Terminals, ~flag[t],
                      ~(visible = t /\ kpc \in {"count", "flag"})
               PROVE  num[t] = 0 /\ buf[t] = Filled(<<>>)
    BY DEF ConsumedOnce
  <2>1. Phase(t) \notin {"count", "flag"} /\ QueueOn(t)
    BY DEF Phase, QueueInv
  <2>2. /\ Held(Phase(t), line[t], flag[t], rpc[t], sent[t]) = <<>>
        /\ Counted(Phase(t), line[t], flag[t], rpc[t], sent[t]) = <<>>
    BY <2>1 DEF Held, Counted
  <2> QED  BY <2>1, <2>2 DEF QueueOn, QueueAt
<1> QED  BY <1>1, QueueInvariant, PTL

(***************************************************************************)
(* The refinement.  A line is entered when the handler sets the flag, a    *)
(* read answered when it clears it; every other step is a stutter.         *)
(***************************************************************************)
Reading == [t \in Terminals |-> rpc[t] # "user"]

LEMMA QueueStart == Init => Queue!Init
BY DEF Init, Queue!Init

LEMMA QueueStep ==
  ASSUME QueueInv, [Next]_vars
  PROVE  [Queue!Next]_(Queue!vars)
<1>1. CASE UNCHANGED <<sent, got, Reading>>
  BY <1>1 DEF Queue!vars, Reading
<1>2. CASE SetFlag
  <2> DEFINE l == line[visible]
  <2>1. visible \in Terminals /\ l \in Seq(Cells) /\ Len(l) \in 0 .. MaxLen
    BY DEF QueueInv, OwnInv, TypeOK
  <2>2. /\ sent' = [sent EXCEPT ![visible] = Append(@, l)]
        /\ UNCHANGED <<got, Reading>>
    BY <1>2 DEF SetFlag, reader, Reading
  <2> HIDE DEF l
  <2>3. l \in UNION {[1..n -> Cells] : n \in 0..MaxLen}
    <3>1. l \in [1..Len(l) -> Cells]
      BY <2>1
    <3> QED  BY <2>1, <3>1
  <2>4. Queue!Enter(visible)
    BY <2>2, <2>3 DEF Queue!Enter, Reading
  <2> QED  BY <2>1, <2>4 DEF Queue!Next
<1>3. ASSUME NEW t \in Terminals, Read(t)  PROVE Queue!Next
  <2>1. rpc[t] = "user" /\ rpc' = [rpc EXCEPT ![t] = "spin"] /\ UNCHANGED <<sent, got>>
    BY <1>3 DEF Read, ReaderAt, ReaderGoto
  <2>2. Reading' = [Reading EXCEPT ![t] = TRUE] /\ Reading[t] = FALSE
    BY <2>1 DEF Reading, QueueInv, OwnInv, TypeOK
  <2>3. Queue!Ask(t)
    BY <2>1, <2>2 DEF Queue!Ask, Reading
  <2> QED  BY <2>3 DEF Queue!Next
<1>4. ASSUME NEW t \in Terminals, ReadReturn(t)  PROVE Queue!Next
  <2>1. /\ rpc[t] = "unflag" /\ rpc' = [rpc EXCEPT ![t] = "user"] /\ UNCHANGED sent
        /\ got' = [got EXCEPT ![t] = Append(@, <<out[t], ret[t]>>)]
    BY <1>4 DEF ReadReturn, ReaderAt, ReaderGoto
  <2>2. Reading' = [Reading EXCEPT ![t] = FALSE] /\ Reading[t] = TRUE
    BY <2>1 DEF Reading, QueueInv, OwnInv, TypeOK
  <2>3. QueueOn(t)
    BY DEF QueueInv
  <2>4. flag[t] = TRUE
    <3>1. flag[t]
      BY <2>1, <2>3 DEF QueueOn, QueueAt, Turns, Taking
    <3>2. flag[t] \in BOOLEAN
      BY DEF QueueInv, OwnInv, TypeOK
    <3> QED  BY <3>1, <3>2
  <2>5. out[t] = Pending(sent[t]) /\ ret[t] = Len(Pending(sent[t])) + 1
    BY <2>1, <2>3 DEF QueueOn, QueueAt, Taken
  <2>6. Len(sent[t]) = Len(got[t]) + 1 /\ Len(got[t]) \in Nat
    BY <2>3, <2>4 DEF QueueOn, QueueAt, Histories
  <2>7. Queue!NextLine(t) = Pending(sent[t]) /\ Len(got[t]) < Len(sent[t])
    BY <2>6 DEF Queue!NextLine, Pending
  <2>8. Queue!Answer(t)
    BY <2>1, <2>2, <2>5, <2>7 DEF Queue!Answer, Reading
  <2> QED  BY <2>8 DEF Queue!Next
<1>5. CASE Tick \/ Key \/ FillBuffer \/ SetCount \/ ResetLine \/ UNCHANGED vars
  <2>1. UNCHANGED <<sent, got, rpc>>
    BY <1>5 DEF Tick, Key, KeyChar, KeyBackspace, KeyClear, KeyEnter, KeySwitch, Edit, FillBuffer,
       SetCount, ResetLine, vars, reader
  <2> QED  BY <1>1, <2>1 DEF Reading
<1>6. ASSUME NEW t \in Terminals,
             SeeFlag(t) \/ CopyChar(t) \/ EndCopy(t) \/ ClearBuffer(t) \/ ZeroCount(t)
      PROVE  UNCHANGED <<sent, got, Reading>>
  <2>1. /\ UNCHANGED <<sent, got>> /\ rpc[t] # "user"
        /\ \/ rpc' = rpc
           \/ \E x \in {"copy", "clear", "zero", "unflag"} : rpc' = [rpc EXCEPT ![t] = x]
    BY <1>6 DEF SeeFlag, CopyChar, EndCopy, ClearBuffer, ZeroCount, ReaderAt, ReaderGoto
  <2>2. Reading' = Reading
    BY <2>1 DEF Reading, QueueInv, OwnInv, TypeOK
  <2> QED  BY <2>1, <2>2
<1> QED
  BY <1>1, <1>2, <1>3, <1>4, <1>5, <1>6 DEF Next, Handler, ReadStep

\* Each terminal is a queue of lines: every line handed over is returned by one
\* read, complete, with its length and in order, wherever the PIT interrupts the
\* keyboard handler and terminal_read (what QueueOfLines says, but for its fairness).
THEOREM TerminalsAreQueues == ~TypeAhead => (Spec => Queue!Safety)
<1> SUFFICES ASSUME ~TypeAhead PROVE Spec => Queue!Safety
  OBVIOUS
<1>1. QueueInv /\ [Next]_vars => [Queue!Next]_(Queue!vars)
  BY QueueStep
<1> QED  BY <1>1, QueueStart, QueueInvariant, PTL DEF Spec, Queue!Safety

(***************************************************************************)
(* Keyboard: check_input's flags are what the user holds down and struck.  *)
(***************************************************************************)
FlagsInv ==
  /\ pressed = down
  /\ odd \in BOOLEAN
  /\ capslock \in {"0", "1"}
  /\ capslock = "1" <=> odd

KeysInv == FlagsInv /\ KeysMeant

LEMMA FlagsNext == FlagsInv /\ [KeysNext]_keyvars => FlagsInv'
<1> SUFFICES ASSUME FlagsInv, [KeysNext]_keyvars  PROVE FlagsInv'
  OBVIOUS
<1>1. ASSUME NEW m \in Modifiers, PressModifier(m) \/ ReleaseModifier(m)  PROVE FlagsInv'
  BY <1>1 DEF FlagsInv, PressModifier, ReleaseModifier
<1>2. CASE PressCapsLock
  <2>1. pressed' = down'
    BY <1>2 DEF FlagsInv, PressCapsLock
  <2>2. capslock' = IF capslock = "0" THEN "1" ELSE "0"
    BY <1>2 DEF PressCapsLock
  <2>3. odd' \in BOOLEAN /\ (odd' <=> ~odd)
    BY <1>2, Zenon DEF FlagsInv, PressCapsLock
  <2> QED  BY <2>1, <2>2, <2>3 DEF FlagsInv
<1>3. CASE UNCHANGED <<pressed, capslock, down, odd>>
  BY <1>3 DEF FlagsInv
<1> QED
  BY <1>1, <1>2, <1>3 DEF KeysNext, keyvars, Switch, ClearScreen, TypeCased, TypeShifted, TypePlain,
     Ignore, Does

\* What a key does is what it means, whichever branch of check_input it takes.
LEMMA KeyDoes ==
  ASSUME FlagsInv, NEW k \in Keys,
         Switch(k) \/ ClearScreen(k) \/ TypeCased(k) \/ TypeShifted(k) \/ TypePlain(k) \/ Ignore(k)
  PROVE  KeysMeant'
<1>1. UNCHANGED <<pressed, capslock, down, odd>> /\ effect'.key = k
  BY DEF Switch, ClearScreen, TypeCased, TypeShifted, TypePlain, Ignore, Does
<1> DEFINE c == chararray[k]
           S == HeldShift
           U == Upper
<1>2. /\ (Shifted <=> S)
      /\ (U <=> (S /\ capslock # "1") \/ (~S /\ capslock = "1"))
  <2>1. Shifted <=> S
    BY DEF FlagsInv, Shifted, HeldShift
  <2>2. odd \in BOOLEAN /\ S \in BOOLEAN /\ (capslock = "1" <=> odd)
    BY DEF FlagsInv, HeldShift
  <2>3. U = (S # odd)
    BY DEF Upper
  <2> HIDE DEF S, U
  <2> QED  BY <2>1, <2>2, <2>3, Zenon
<1>3. Meant(k)' = Meant(k) /\ HeldShift' = HeldShift
  BY <1>1 DEF Meant, Upper, HeldShift
<1> SUFFICES effect'.does = Meant(k) \/ (k = "SPACE" /\ S)
  BY <1>1, <1>3 DEF KeysMeant
<1>4. pressed = down
  BY DEF FlagsInv
<1> HIDE DEF S, U
<1>5. /\ (c \in Letters <=> k \in {"A", "L", "TAB"})
      /\ (c \in DOMAIN ShiftedOf <=> k \in {"1", "-"})
      /\ (c = Mute <=> k \in {"ESC", "F1", "F2", "F3"})
      /\ (k \in DOMAIN TerminalOf <=> k \in {"F1", "F2", "F3"})
      /\ (k = "SPACE" => c = " ")
      /\ (c \in Letters => c # Capital[c] /\ c # "L" /\ (Capital[c] = "L" <=> k = "L"))
  BY DEF Keys, chararray, Letters, Capital, ShiftedOf, Mute, TerminalOf
<1>6. CASE k \in {"A", "L", "TAB"}
  <2>1. Meant(k) = IF U /\ k = "L" /\ LEFTCONTROL \in down THEN "clear"
                   ELSE IF U THEN Capital[c] ELSE c
    BY <1>5, <1>6 DEF Meant, U
  <2>2. c # Mute /\ c \in Letters /\ k \notin DOMAIN TerminalOf
    BY <1>5, <1>6
  <2>3. Temp(c) = IF capslock = "1" /\ S THEN c ELSE Capital[c]
    BY <1>2 DEF Temp
  <2>4. Cased(k) <=> capslock = "1" \/ S
    BY <1>2, <2>2 DEF Cased
  <2>5. Clears(k) <=> Temp(c) = "L" /\ LEFTCONTROL \in down
    BY <1>4 DEF Clears
  <2> HIDE DEF c
  <2>6. CASE ClearScreen(k)
    <3>1. Cased(k) /\ Clears(k) /\ effect'.does = "clear"
      BY <2>6 DEF ClearScreen, Does
    <3> QED  BY <1>2, <1>5, <2>1, <2>2, <2>3, <2>4, <2>5, <3>1
  <2>7. CASE TypeCased(k)
    <3>1. Cased(k) /\ ~Clears(k) /\ effect'.does = Temp(c)
      BY <2>7 DEF TypeCased, Does, c
    <3> QED  BY <1>2, <1>5, <2>1, <2>2, <2>3, <2>4, <2>5, <3>1
  <2>8. CASE TypePlain(k)
    <3>1. ~Cased(k) /\ ~S /\ effect'.does = c
      BY <1>2, <2>8 DEF TypePlain, Does, c
    <3> QED  BY <1>2, <2>1, <2>4, <3>1
  <2>9. ~Switch(k) /\ ~Ignore(k) /\ ~TypeShifted(k)
    BY <1>2, <2>2, <2>4 DEF Switch, Ignore, TypeShifted, c
  <2> QED  BY <2>6, <2>7, <2>8, <2>9
<1>7. CASE k \notin {"A", "L", "TAB"}
  <2>1. ~Cased(k) /\ ~ClearScreen(k) /\ ~TypeCased(k)
    BY <1>5, <1>7 DEF Cased, ClearScreen, TypeCased
  <2>2. CASE k \in {"1", "-"}
    <3>1. Meant(k) = IF S THEN ShiftedOf[c] ELSE c
      BY <1>5, <2>2 DEF Meant, S
    <3>2. c # Mute /\ k \notin DOMAIN TerminalOf /\ c \in DOMAIN ShiftedOf
      BY <1>5, <2>2
    <3>3. CASE TypeShifted(k)
      BY <1>2, <3>1, <3>2, <3>3 DEF TypeShifted, Does
    <3>4. CASE TypePlain(k)
      BY <1>2, <3>1, <3>2, <3>4 DEF TypePlain, Does
    <3> QED  BY <2>1, <3>2, <3>3, <3>4 DEF Switch, Ignore
  <2>3. CASE k = "SPACE"
    <3>1. Meant(k) = " " /\ c = " " /\ c # Mute /\ k \notin DOMAIN TerminalOf
      BY <1>5, <2>3 DEF Meant
    <3>2. CASE TypeShifted(k)
      BY <1>2, <2>3, <3>2 DEF TypeShifted
    <3>3. CASE TypePlain(k)
      BY <3>1, <3>3 DEF TypePlain, Does
    <3> QED  BY <2>1, <3>1, <3>2, <3>3 DEF Switch, Ignore
  <2>4. CASE k \in {"ESC", "F1", "F2", "F3"}
    <3>1. c = Mute /\ Meant(k) = IF k \in DOMAIN TerminalOf /\ ALT \in down THEN TerminalOf[k] ELSE "nothing"
      BY <1>5, <2>4 DEF Meant
    <3>2. CASE Switch(k)
      BY <1>4, <3>1, <3>2 DEF Switch, Does
    <3>3. CASE Ignore(k)
      BY <1>4, <3>1, <3>3 DEF Ignore, Does
    <3> QED  BY <2>1, <3>1, <3>2, <3>3 DEF TypeShifted, TypePlain
  <2> QED  BY <1>7, <2>2, <2>3, <2>4 DEF Keys
<1> QED  BY <1>6, <1>7

\* A key does what the modifiers the user holds down and CAPS LOCK make it mean,
\* after any sequence of keys (check_input's flags in chararray).
THEOREM KeysDoAsMeant == KeysSpec => []KeysMeant
<1>1. KeysInit => KeysInv
  <2> SUFFICES ASSUME KeysInit  PROVE FlagsInv /\ KeysMeant
    BY DEF KeysInv
  <2>1. pressed = down /\ capslock = "0" /\ effect = NoEffect
    BY DEF KeysInit
  <2>2. odd = FALSE
    BY Zenon DEF KeysInit
  <2>3. capslock \in {"0", "1"} /\ capslock # "1"
    BY <2>1
  <2>4. FlagsInv
    BY <2>1, <2>2, <2>3, Zenon DEF FlagsInv
  <2> QED  BY <2>1, <2>4 DEF KeysMeant, NoEffect, Keys
<1>2. KeysInv /\ [KeysNext]_keyvars => KeysInv'
  <2> SUFFICES ASSUME KeysInv, [KeysNext]_keyvars  PROVE KeysMeant'
    BY FlagsNext DEF KeysInv
  <2>1. CASE effect'.key \notin Keys
    BY <2>1 DEF KeysMeant
  <2>2. CASE UNCHANGED keyvars
    BY <2>2 DEF keyvars, KeysInv, KeysMeant, Meant, Upper, HeldShift
  <2>3. ASSUME NEW m, PressModifier(m) \/ ReleaseModifier(m) \/ PressCapsLock
               \/ Does("ENTER", "line") \/ Does("BACKSPACE", "erase")
        PROVE  effect'.key \notin Keys
    BY <2>3 DEF PressModifier, ReleaseModifier, PressCapsLock, Does, NoEffect, Keys
  <2> QED  BY <2>1, <2>2, <2>3, KeyDoes DEF KeysNext, KeysInv
<1>3. KeysInv => KeysMeant
  BY DEF KeysInv
<1> QED  BY <1>1, <1>2, <1>3, PTL DEF KeysSpec
=============================================================================
