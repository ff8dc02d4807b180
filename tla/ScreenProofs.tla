---------------------------- MODULE ScreenProofs ----------------------------
(***************************************************************************)
(* The cursor of a terminal never leaves its screen, for any size of       *)
(* screen and length of line.                                              *)
(***************************************************************************)
EXTENDS ScreenSteps, WellFoundedInduction, TLAPS

\* The bounds without the product in them.
LEMMA Bounds == /\ Rows \in Nat /\ Rows > 0
                /\ Cols \in Nat /\ Cols > 0
                /\ MaxLen \in Nat
  BY ScreenAssumption

\* What putc and putc_modified store keeps the cells what they are.
LEMMA EmptyIsText == Empty \in [Positions -> Cells]
  BY DEF Empty, Cells

\* A row more: the cursor is at the start of a row of the screen (putc's line
\* feed, its wrap, scroll).
LEMMA AdvanceType ==
  ASSUME TypeOK, NEW s \in [Positions -> Cells], Advance(s)
  PROVE  /\ text' \in [Positions -> Cells]
         /\ <<y', x'>> \in Positions
         /\ top' \in Nat
<1>1. Rows \in Nat /\ Cols \in Nat /\ Rows > 0 /\ Cols > 0
  BY Bounds
<1>2. x \in 0 .. Cols-1 /\ y \in 0 .. Rows-1 /\ top \in Nat
  BY DEF TypeOK, Cursor, Positions
<1>3. CASE y + 1 < Rows
  BY <1>1, <1>2, <1>3 DEF Advance, Positions
<1>4. CASE ~(y + 1 < Rows)
  <2>1. Scroll(s)
    BY <1>4 DEF Advance
  <2>2. ASSUME NEW p \in Positions, p[1] # Rows-1
        PROVE  <<p[1] + 1, p[2]>> \in Positions
    BY <1>1, <2>2 DEF Positions
  <2>3. Blank \in Cells
    BY DEF Cells
  <2>4. text' \in [Positions -> Cells]
    BY <2>1, <2>2, <2>3 DEF Scroll
  <2> QED
    BY <1>1, <1>2, <2>1, <2>4 DEF Scroll, Positions
<1> QED
  BY <1>3, <1>4

LEMMA PutType ==
  ASSUME TypeOK, NEW by \in {"output", "typed"}, NEW item \in Items(by), Put(item)
  PROVE  /\ text' \in [Positions -> Cells]
         /\ <<y', x'>> \in Positions
         /\ top' \in Nat
         /\ log' \in Seq(Items("output") \cup Items("typed"))
<1>1. Rows \in Nat /\ Cols \in Nat /\ Rows > 0 /\ Cols > 0
  BY Bounds
<1>2. /\ x \in 0 .. Cols-1 /\ y \in 0 .. Rows-1 /\ top \in Nat
      /\ text \in [Positions -> Cells]
      /\ log \in Seq(Items("output") \cup Items("typed"))
  BY DEF TypeOK, Cursor, Positions
<1>3. log' \in Seq(Items("output") \cup Items("typed"))
  BY <1>2 DEF Put
<1> DEFINE s == [text EXCEPT ![Cursor] = item]
<1>4. CASE item[2] = NewLine
  <2>1. Advance(text)
    BY <1>4 DEF Put
  <2> QED
    BY <1>2, <1>3, <2>1, AdvanceType
<1>5. CASE item[2] # NewLine
  <2>1. item \in Cells
    BY <1>5 DEF Items, Cells
  <2>2. s \in [Positions -> Cells]
    BY <1>2, <2>1 DEF Positions, Cursor
  <2>3. CASE x + 1 < Cols
    <3>1. text' = s /\ x' = x + 1 /\ UNCHANGED <<y, top>>
      BY <1>5, <2>3 DEF Put
    <3> QED
      BY <1>1, <1>2, <1>3, <2>2, <2>3, <3>1 DEF Positions
  <2>4. CASE ~(x + 1 < Cols)
    <3>1. Advance(s)
      BY <1>5, <2>4 DEF Put
    <3> QED
      BY <1>3, <2>2, <3>1, AdvanceType
  <2> QED
    BY <2>3, <2>4
<1> QED
  BY <1>4, <1>5

\* Backspace leaves the cursor on the screen (handlebackspace).
LEMMA RetreatType == TypeOK => Retreat \in Positions
  BY Bounds DEF TypeOK, Cursor, Retreat, Positions

\* A cleared screen, at boot and after CTRL-L.
LEMMA ClearType ==
  /\ <<0, 0>> \in Positions
  /\ 0 \in 0..MaxLen
  /\ <<>> \in Seq(Items("output") \cup Items("typed"))
<1>1. <<0, 0>> \in Positions
  BY Bounds DEF Positions
<1>2. 0 \in 0..MaxLen
  BY Bounds
<1>3. <<>> \in Seq(Items("output") \cup Items("typed"))
  OBVIOUS
<1> QED
  BY <1>1, <1>2, <1>3

LEMMA StepType == TypeOK /\ [Next]_vars => TypeOK'
<1> SUFFICES ASSUME TypeOK, [Next]_vars PROVE TypeOK'
  OBVIOUS
<1>1. noc \in 0..MaxLen /\ MaxLen \in Nat /\ mixed \in BOOLEAN
  BY Bounds DEF TypeOK, Cursor
<1>2. ASSUME NEW item \in Items("output"), Output(item) PROVE TypeOK'
  <2>1. Put(item) /\ noc' = noc /\ mixed' = (mixed \/ noc > 0)
    BY <1>2 DEF Output
  <2>2. mixed' \in BOOLEAN
    BY <2>1
  <2> QED
    BY <1>1, <2>1, <2>2, PutType DEF TypeOK, Cursor
<1>3. ASSUME NEW c \in Chars, KeyChar(c) PROVE TypeOK'
  <2>1. <<"typed", c>> \in Items("typed")
    BY DEF Items
  <2>2. Put(<<"typed", c>>) /\ mixed' = mixed /\ noc' \in 0..MaxLen
    BY <1>1, <1>3 DEF KeyChar
  <2> QED
    BY <1>1, <2>1, <2>2, PutType DEF TypeOK, Cursor
<1>4. CASE KeyEnter
  <2>1. <<"typed", NewLine>> \in Items("typed")
    BY DEF Items
  <2>2. Put(<<"typed", NewLine>>) /\ mixed' = mixed /\ noc' \in 0..MaxLen
    BY <1>1, <1>4 DEF KeyEnter
  <2> QED
    BY <1>1, <2>1, <2>2, PutType DEF TypeOK, Cursor
<1>5. CASE KeyBackspace
  <2>1. text' \in [Positions -> Cells]
    BY <1>5 DEF KeyBackspace, TypeOK, Cursor, Cells
  <2>2. <<y', x'>> \in Positions
    <3>1. Retreat \in Positions
      BY RetreatType
    <3>2. Retreat = <<Retreat[1], Retreat[2]>>
      BY <3>1 DEF Positions
    <3> QED
      BY <1>5, <3>1, <3>2 DEF KeyBackspace
  <2>3. log' \in Seq(Items("output") \cup Items("typed"))
    <3> DEFINE I == Items("output") \cup Items("typed")
    <3>1. log \in Seq(I) /\ log' = SubSeq(log, 1, Len(log) - 1)
      BY <1>5 DEF KeyBackspace, TypeOK, Cursor, Front
    <3> HIDE DEF I
    <3>2. log' \in Seq(I)
      BY <3>1
    <3> QED
      BY <3>2 DEF I
  <2>4. noc' \in 0..MaxLen
    BY <1>1, <1>5 DEF KeyBackspace
  <2> QED
    BY <1>1, <1>5, <2>1, <2>2, <2>3, <2>4 DEF KeyBackspace, TypeOK, Cursor
<1>6. CASE KeyClear
  BY <1>6, EmptyIsText, ClearType DEF KeyClear, TypeOK, Cursor
<1>7. CASE UNCHANGED vars
  BY <1>7 DEF vars, TypeOK, Cursor
<1> QED
  BY <1>2, <1>3, <1>4, <1>5, <1>6, <1>7 DEF Next

LEMMA InitType == Init => TypeOK
<1> SUFFICES ASSUME Init  PROVE TypeOK
  OBVIOUS
<1>1. /\ text = Empty /\ x = 0 /\ y = 0 /\ noc = 0
      /\ log = <<>> /\ top = 0 /\ mixed \in BOOLEAN
  BY DEF Init
<1> QED
  BY <1>1, EmptyIsText, ClearType DEF TypeOK, Cursor

\* Whatever programs write and users type, erase and clear, the cursor stays on
\* the screen and the line within its buffer (putc, putc_modified, scroll,
\* handlebackspace, check_input), for any number of rows and columns.
THEOREM ScreenTypeCorrect == Spec => []TypeOK
  BY InitType, StepType, PTL DEF Spec

(***************************************************************************)
(* Backspace.  The inductive invariant: as long as no program wrote into   *)
(* the line, the noc places before the cursor hold typed characters.  They *)
(* are on the screen because a line is shorter than all rows but one.      *)
(***************************************************************************)
Lin(p) == p[1] * Cols + p[2]

TypedInv ==
  ~mixed =>
    /\ noc <= Lin(Cursor)
    /\ \A p \in Positions :
         Lin(Cursor) - noc <= Lin(p) /\ Lin(p) < Lin(Cursor) => text[p][1] = "typed"

LEMMA Monotone ==
  ASSUME NEW a \in Nat, NEW b \in Nat, NEW c \in Nat, a <= b
  PROVE  a * c <= b * c
<1>1. b * c = a * c + (b - a) * c
  OBVIOUS
<1>2. b - a \in Nat
  OBVIOUS
<1>3. \A u, v \in Nat : u * v \in Nat
  OBVIOUS
<1>4. (b - a) * c \in Nat /\ a * c \in Nat
  BY <1>2, <1>3
<1> QED  BY <1>1, <1>4

LEMMA LinFacts ==
  /\ \A p \in Positions : Lin(p) \in Nat
  /\ \A i \in Int : (i + 1) * Cols = i * Cols + Cols
  /\ \A p, q \in Positions : Lin(p) = Lin(q) => p = q
<1>1. Cols \in Nat /\ Cols > 0 /\ Rows \in Nat
  BY Bounds
<1>2. \A i \in Int : (i + 1) * Cols = i * Cols + Cols
  BY <1>1
<1>3. \A a, b \in Nat : a * b \in Nat
  OBVIOUS
<1>4. ASSUME NEW p \in Positions  PROVE Lin(p) \in Nat
  <2>1. p[1] \in Nat /\ p[2] \in Nat
    BY <1>1 DEF Positions
  <2>2. p[1] * Cols \in Nat
    BY <1>1, <1>3, <2>1
  <2> QED  BY <2>1, <2>2 DEF Lin
<1>5. ASSUME NEW p \in Positions, NEW q \in Positions, p[1] < q[1]  PROVE Lin(p) < Lin(q)
  <2>1. /\ p[1] \in Nat /\ p[2] \in 0 .. Cols-1
        /\ q[1] \in Nat /\ q[2] \in 0 .. Cols-1
    BY <1>1 DEF Positions
  <2>2. (p[1] + 1) * Cols <= q[1] * Cols
    BY <1>1, <1>5, <2>1, Monotone
  <2>3. (p[1] + 1) * Cols = p[1] * Cols + Cols
    BY <1>2, <2>1
  <2>4. p[1] * Cols \in Nat /\ q[1] * Cols \in Nat
    BY <1>1, <1>3, <2>1
  <2> QED  BY <1>1, <2>1, <2>2, <2>3, <2>4 DEF Lin
<1>6. ASSUME NEW p \in Positions, NEW q \in Positions, Lin(p) = Lin(q)  PROVE p = q
  <2>1. /\ p[1] \in Nat /\ p[2] \in Nat /\ p = <<p[1], p[2]>>
        /\ q[1] \in Nat /\ q[2] \in Nat /\ q = <<q[1], q[2]>>
    BY <1>1 DEF Positions
  <2>2. p[1] = q[1]
    <3>1. Lin(p) \in Nat /\ Lin(q) \in Nat
      BY <1>4
    <3>2. ~(p[1] < q[1]) /\ ~(q[1] < p[1])
      BY <1>5, <1>6, <3>1
    <3> QED  BY <2>1, <3>2
  <2>3. p[1] * Cols \in Nat
    BY <1>1, <1>3, <2>1
  <2>4. p[2] = q[2]
    BY <1>6, <2>1, <2>2, <2>3 DEF Lin
  <2> QED  BY <2>1, <2>2, <2>4
<1> QED  BY <1>2, <1>4, <1>6

\* A typed character: the line grows by the place it is put in, which a wrap
\* leaves right before the cursor and a scroll moves up with the others.
LEMMA TypedPut ==
  ASSUME TypeOK, TypedInv, NEW c \in Chars, c # NewLine, KeyChar(c)
  PROVE  TypedInv'
<1> SUFFICES ASSUME ~mixed  PROVE /\ noc' <= Lin(<<y', x'>>)
                                  /\ \A p \in Positions :
                                       Lin(<<y', x'>>) - noc' <= Lin(p) /\ Lin(p) < Lin(<<y', x'>>)
                                         => text'[p][1] = "typed"
  BY DEF TypedInv, KeyChar, Cursor
<1> DEFINE i == <<"typed", c>>
           s == [text EXCEPT ![Cursor] = i]
           L == Lin(Cursor)
<1>1. /\ Rows \in Nat /\ Rows > 0 /\ Cols \in Nat /\ Cols > 0
      /\ x \in 0 .. Cols-1 /\ y \in 0 .. Rows-1 /\ noc \in Nat /\ noc < MaxLen /\ MaxLen \in Nat
      /\ text \in [Positions -> Cells] /\ Cursor \in Positions /\ noc' = noc + 1
  BY Bounds DEF TypeOK, Cursor, Positions, KeyChar
<1>2. noc <= L /\ L \in Nat /\ L = y * Cols + x /\ y * Cols \in Nat
  <2>1. \A a, b \in Nat : a * b \in Nat
    OBVIOUS
  <2> QED  BY <1>1, <2>1, LinFacts DEF TypedInv, Lin, Cursor
<1>3. ASSUME NEW p \in Positions, L - noc <= Lin(p), Lin(p) < L + 1
      PROVE  s[p][1] = "typed"
  <2>1. CASE p = Cursor
    BY <1>1, <2>1
  <2>2. CASE p # Cursor
    <3>1. Lin(p) # L /\ Lin(p) \in Nat
      BY <1>1, <2>2, LinFacts
    <3>2. s[p] = text[p]
      BY <1>1, <2>2
    <3>3. Lin(p) < L
      BY <1>2, <1>3, <3>1
    <3> QED  BY <1>3, <3>2, <3>3 DEF TypedInv
  <2> QED  BY <2>1, <2>2
<1>4. Put(i) /\ i[2] # NewLine
  BY DEF KeyChar
<1> HIDE DEF i
<1>5. CASE x + 1 < Cols
  <2>1. text' = s /\ x' = x + 1 /\ y' = y
    BY <1>4, <1>5 DEF Put
  <2>2. Lin(<<y', x'>>) = L + 1
    BY <1>1, <1>2, <2>1 DEF Lin
  <2> QED  BY <1>1, <1>2, <1>3, <2>1, <2>2
<1>6. CASE ~(x + 1 < Cols)
  <2>1. Advance(s) /\ x + 1 = Cols
    BY <1>1, <1>4, <1>6 DEF Put
  <2>2. (y + 1) * Cols = L + 1
    <3>1. (y + 1) * Cols = y * Cols + Cols
      BY <1>1, LinFacts
    <3> QED  BY <1>1, <1>2, <2>1, <3>1
  <2>3. CASE y + 1 < Rows
    <3>1. text' = s /\ x' = 0 /\ y' = y + 1
      BY <2>1, <2>3 DEF Advance
    <3>2. Lin(<<y', x'>>) = L + 1
      BY <1>2, <2>2, <3>1 DEF Lin
    <3> QED  BY <1>1, <1>2, <1>3, <3>1, <3>2
  <2>4. CASE ~(y + 1 < Rows)
    <3>1. /\ text' = [p \in Positions |-> IF p[1] = Rows-1 THEN Blank ELSE s[<<p[1] + 1, p[2]>>]]
          /\ x' = 0 /\ y' = Rows - 1 /\ y = Rows - 1
      BY <1>1, <2>1, <2>4 DEF Advance, Scroll
    <3>2. Lin(<<y', x'>>) = L + 1 - Cols /\ Lin(<<y', x'>>) = (Rows - 1) * Cols
      <4>1. (y + 1) * Cols = y * Cols + Cols
        BY <1>1, LinFacts
      <4> QED  BY <1>1, <1>2, <2>2, <3>1, <4>1 DEF Lin
    <3>3. noc' <= (Rows - 1) * Cols
      <4>1. MaxLen <= (Rows - 1) * Cols
        BY ScreenAssumption
      <4>2. (Rows - 1) * Cols \in Nat
        BY <1>2, <3>1
      <4> QED  BY <1>1, <4>1, <4>2
    <3>4. ASSUME NEW p \in Positions, Lin(<<y', x'>>) - noc' <= Lin(p), Lin(p) < Lin(<<y', x'>>)
          PROVE  text'[p][1] = "typed"
      <4>1. /\ p[1] \in 0 .. Rows-1 /\ p[2] \in 0 .. Cols-1 /\ p = <<p[1], p[2]>>
            /\ Lin(p) = p[1] * Cols + p[2] /\ Lin(p) \in Nat
        BY LinFacts DEF Positions, Lin
      <4>2. p[1] # Rows - 1
        BY <1>1, <1>2, <3>1, <3>2, <3>4, <4>1
      <4> DEFINE q == <<p[1] + 1, p[2]>>
      <4>3. q \in Positions
        BY <1>1, <4>1, <4>2 DEF Positions
      <4>4. Lin(q) = Lin(p) + Cols
        <5>1. (p[1] + 1) * Cols = p[1] * Cols + Cols
          BY <1>1, <4>1, LinFacts
        <5>2. Lin(q) = (p[1] + 1) * Cols + p[2]
          BY DEF Lin
        <5>3. p[1] * Cols \in Int
          BY <1>1, <4>1
        <5> QED  BY <1>1, <4>1, <5>1, <5>2, <5>3
      <4>5. L - noc <= Lin(q) /\ Lin(q) < L + 1
        BY <1>1, <1>2, <3>2, <3>4, <4>1, <4>4
      <4>6. text'[p] = s[q]
        BY <3>1, <4>2
      <4> QED  BY <1>3, <4>3, <4>5, <4>6
    <3> QED  BY <3>2, <3>3, <3>4
  <2> QED  BY <2>3, <2>4
<1> QED  BY <1>5, <1>6

\* Where backspace goes.
LEMMA RetreatIs ==
  ASSUME TypeOK, Lin(Cursor) > 0
  PROVE  Retreat \in Positions /\ Lin(Retreat) = Lin(Cursor) - 1
<1>1. /\ Rows \in Nat /\ Rows > 0 /\ Cols \in Nat /\ Cols > 0
      /\ x \in 0 .. Cols-1 /\ y \in 0 .. Rows-1
  BY Bounds DEF TypeOK, Cursor, Positions
<1>2. Lin(Cursor) = y * Cols + x /\ y * Cols \in Int
  BY <1>1 DEF Lin, Cursor
<1>3. CASE x - 1 >= 0
  <2>1. Retreat = <<y, x - 1>>
    BY <1>3 DEF Retreat
  <2>2. Lin(Retreat) = y * Cols + (x - 1)
    BY <2>1 DEF Lin
  <2> QED  BY <1>1, <1>2, <2>2, RetreatType
<1>4. CASE ~(x - 1 >= 0) /\ y # 0
  <2>1. Retreat = <<y - 1, Cols - 1>> /\ x = 0
    BY <1>1, <1>4 DEF Retreat
  <2>2. Lin(Retreat) = (y - 1) * Cols + (Cols - 1)
    BY <2>1 DEF Lin
  <2>3. ((y - 1) + 1) * Cols = (y - 1) * Cols + Cols /\ (y - 1) + 1 = y
    BY <1>1, LinFacts
  <2>4. (y - 1) * Cols \in Int
    BY <1>1
  <2> QED  BY <1>1, <1>2, <2>1, <2>2, <2>3, <2>4, RetreatType
<1>5. CASE x = 0 /\ y = 0
  BY <1>1, <1>2, <1>5
<1> QED  BY <1>1, <1>3, <1>4, <1>5

LEMMA TypedNext ==
  ASSUME TypeOK, TypedInv, NewLine \notin Chars, [Next]_vars
  PROVE  TypedInv'
<1>1. noc \in Nat /\ Lin(Cursor) \in Nat /\ TypeOK'
  BY LinFacts, Bounds, StepType DEF TypeOK
<1>2. Lin(Cursor)' \in Nat
  <2>1. <<y', x'>> \in Positions
    BY <1>1 DEF TypeOK, Cursor
  <2> QED  BY <2>1, LinFacts DEF Cursor
<1>3. ASSUME noc' = 0  PROVE TypedInv'
  <2>1. \A p \in Positions : ~(Lin(Cursor)' - 0 <= Lin(p) /\ Lin(p) < Lin(Cursor)')
    BY <1>2, LinFacts
  <2> QED  BY <1>2, <1>3, <2>1 DEF TypedInv, Lin
<1>4. ASSUME NEW item \in Items("output"), Output(item)  PROVE TypedInv'
  <2>1. noc' = noc /\ (~mixed' => noc = 0)
    <3>1. noc' = noc /\ mixed' = (mixed \/ noc > 0)
      BY <1>4 DEF Output
    <3>2. ~mixed' => ~(noc > 0)
      BY <3>1, Zenon
    <3> QED  BY <1>1, <3>1, <3>2
  <2> QED  BY <1>3, <2>1 DEF TypedInv
<1>5. ASSUME NEW c \in Chars, KeyChar(c)  PROVE TypedInv'
  BY <1>5, TypedPut
<1>6. CASE KeyEnter \/ KeyClear
  BY <1>3, <1>6 DEF KeyEnter, KeyClear
<1>7. CASE KeyBackspace
  <2> SUFFICES ASSUME ~mixed
               PROVE  /\ noc' <= Lin(<<y', x'>>)
                      /\ \A p \in Positions :
                           Lin(<<y', x'>>) - noc' <= Lin(p) /\ Lin(p) < Lin(<<y', x'>>)
                             => text'[p][1] = "typed"
    BY <1>7 DEF TypedInv, KeyBackspace, Cursor
  <2>1. /\ noc > 0 /\ noc' = noc - 1 /\ noc <= Lin(Cursor)
        /\ y' = Retreat[1] /\ x' = Retreat[2]
        /\ text' = [text EXCEPT ![Retreat] = Blank]
    BY <1>1, <1>7 DEF KeyBackspace, TypedInv
  <2>2. Retreat \in Positions /\ Lin(Retreat) = Lin(Cursor) - 1
    BY <1>1, <2>1, RetreatIs
  <2>3. Lin(<<y', x'>>) = Lin(Cursor) - 1
    BY <2>1, <2>2 DEF Lin
  <2>4. ASSUME NEW p \in Positions, Lin(<<y', x'>>) - noc' <= Lin(p), Lin(p) < Lin(<<y', x'>>)
        PROVE  text'[p][1] = "typed"
    <3>1. Lin(p) \in Nat
      BY LinFacts
    <3>2. p # Retreat /\ Lin(Cursor) - noc <= Lin(p) /\ Lin(p) < Lin(Cursor)
      BY <1>1, <2>1, <2>2, <2>3, <2>4, <3>1
    <3>3. text'[p] = text[p]
      BY <2>1, <3>2 DEF TypeOK
    <3> QED  BY <3>2, <3>3 DEF TypedInv
  <2> QED  BY <1>1, <2>1, <2>3, <2>4
<1>8. CASE UNCHANGED vars
  BY <1>8 DEF vars, TypedInv, Cursor
<1> QED  BY <1>4, <1>5, <1>6, <1>7, <1>8 DEF Next

LEMMA TypedInit == Init => TypedInv
<1> SUFFICES ASSUME Init  PROVE TypedInv
  OBVIOUS
<1>1. noc = 0 /\ Cursor = <<0, 0>>
  BY DEF Init, Cursor
<1>2. Lin(Cursor) \in Nat
  BY <1>1, ClearType, LinFacts
<1>3. \A p \in Positions : ~(Lin(Cursor) - 0 <= Lin(p) /\ Lin(p) < Lin(Cursor))
  BY <1>2, LinFacts
<1> QED  BY <1>1, <1>2, <1>3 DEF TypedInv

LEMMA BackTyped ==
  ASSUME TypeOK, TypedInv, KeyBackspace
  PROVE  mixed \/ text[Retreat][1] = "typed"
<1> SUFFICES ASSUME ~mixed  PROVE text[Retreat][1] = "typed"
  OBVIOUS
<1>1. noc \in Nat /\ noc # 0 /\ noc <= Lin(Cursor) /\ Lin(Cursor) \in Nat
  BY LinFacts, Bounds DEF TypeOK, TypedInv, KeyBackspace
<1>2. Retreat \in Positions /\ Lin(Retreat) = Lin(Cursor) - 1
  BY <1>1, RetreatIs
<1> QED  BY <1>1, <1>2 DEF TypedInv

\* Backspace never takes back anything but a typed character, through any wraps
\* and scrolls of the line, unless a program wrote into it (check_input's
\* numberofchars, handlebackspace).
THEOREM BackspaceErasesTyped == Spec => ErasesTyped
<1>1. Init => TypedInv
  BY TypedInit
<1>2. TypeOK /\ TypedInv /\ [Next]_vars => TypedInv'
  BY ScreenAssumption, TypedNext
<1>3. TypeOK /\ TypedInv => [KeyBackspace => mixed \/ text[Retreat][1] = "typed"]_vars
  BY BackTyped
<1> QED
  BY <1>1, <1>2, <1>3, ScreenTypeCorrect, PTL DEF Spec, ErasesTyped

(***************************************************************************)
(* What the screen shows.  The places of the characters of a text follow   *)
(* one another, so no two characters share a place and nothing is at or    *)
(* behind the cursor.                                                      *)
(***************************************************************************)
\* A set of natural numbers has a least one.
LEMMA Least ==
  ASSUME NEW T \in SUBSET Nat, T # {}
  PROVE  \E u \in T : \A v \in T : u <= v
<1> DEFINE R == OpToRel(<, Nat)
<1>1. IsWellFoundedOn(R, Nat)
  BY NatLessThanWellFounded
<1>2. \A u, v \in Nat : <<u, v>> \in R <=> u < v
  BY DEF OpToRel
<1> HIDE DEF R
<1>3. PICK u \in T : \A v \in T : ~(<<v, u>> \in R)
  BY <1>1, WFMin
<1>4. ASSUME NEW v \in T  PROVE u <= v
  <2>1. u \in Nat /\ v \in Nat /\ ~(<<v, u>> \in R)
    BY <1>3
  <2>2. ~(v < u)
    BY <1>2, <2>1
  <2> QED  BY <2>1, <2>2
<1> QED  BY <1>4

Sheet  == Nat \X (0 .. Cols-1)
Logged == Items("output") \cup Items("typed")

\* p comes before q on the sheet.
Before(p, q) == p[1] < q[1] \/ (p[1] = q[1] /\ p[2] < q[2])

\* f has the places of the first n characters of l, and the one behind them.
Traces(f, l, n) ==
  /\ f \in [0 .. n -> Sheet] /\ f[0] = <<0, 0>>
  /\ \A k \in 1 .. n : f[k] = After(f[k - 1], l[k])

LEMMA AfterIs ==
  ASSUME NEW p \in Sheet, NEW item
  PROVE  After(p, item) \in Sheet /\ Before(p, After(p, item))
<1>1. Cols \in Nat /\ Cols > 0 /\ p[1] \in Nat /\ p[2] \in 0 .. Cols-1
  BY Bounds DEF Sheet
<1>2. CASE item[2] = NewLine \/ p[2] = Cols-1
  <2>1. After(p, item) = <<p[1] + 1, 0>>
    BY <1>2 DEF After
  <2> QED  BY <1>1, <2>1 DEF Sheet, Before
<1>3. CASE ~(item[2] = NewLine \/ p[2] = Cols-1)
  <2>1. After(p, item) = <<p[1], p[2] + 1>>
    BY <1>3 DEF After
  <2> QED  BY <1>1, <1>3, <2>1 DEF Sheet, Before
<1> QED  BY <1>2, <1>3

LEMMA TraceExists ==
  ASSUME NEW l, NEW n \in Nat
  PROVE  \E f : Traces(f, l, n)
<1> DEFINE T == {k \in Nat : ~ \E f : Traces(f, l, k)}
<1> SUFFICES ASSUME T # {}  PROVE FALSE
  OBVIOUS
<1>1. T \in SUBSET Nat
  OBVIOUS
<1>2. PICK k \in T : \A j \in T : k <= j
  <2> HIDE DEF T
  <2> QED  BY <1>1, Least
<1>3. k \in Nat /\ ~ \E f : Traces(f, l, k)
  OBVIOUS
<1>4. <<0, 0>> \in Sheet
  BY Bounds DEF Sheet
<1>5. k # 0
  <2> SUFFICES ASSUME k = 0  PROVE FALSE
    OBVIOUS
  <2> DEFINE g == [j \in 0 .. 0 |-> <<0, 0>>]
  <2>1. Traces(g, l, 0)
    BY <1>4 DEF Traces
  <2> QED  BY <1>3, <2>1
<1>6. k - 1 \in Nat /\ k - 1 \notin T
  BY <1>2, <1>3, <1>5
<1>7. PICK f : Traces(f, l, k - 1)
  BY <1>6
<1> DEFINE g == [j \in 0 .. k |-> IF j = k THEN After(f[k - 1], l[k]) ELSE f[j]]
<1>8. f \in [0 .. k-1 -> Sheet] /\ f[0] = <<0, 0>> /\ f[k - 1] \in Sheet
  BY <1>6, <1>7 DEF Traces
<1>9. After(f[k - 1], l[k]) \in Sheet
  BY <1>8, AfterIs
<1> HIDE DEF T
<1>10. g \in [0 .. k -> Sheet] /\ g[0] = <<0, 0>>
  BY <1>3, <1>5, <1>8, <1>9
<1>11. ASSUME NEW j \in 1 .. k  PROVE g[j] = After(g[j - 1], l[j])
  <2>1. g[j - 1] = f[j - 1]
    BY <1>3, <1>11
  <2>2. CASE j = k
    BY <1>3, <2>1, <2>2
  <2>3. CASE j # k
    <3>1. j \in 1 .. k-1 /\ g[j] = f[j]
      BY <1>3, <2>3
    <3> QED  BY <1>7, <2>1, <3>1 DEF Traces
  <2> QED  BY <2>2, <2>3
<1>12. Traces(g, l, k)
  BY <1>10, <1>11 DEF Traces
<1> QED  BY <1>3, <1>12

\* Texts that agree up to the n-th character have the same places up to there.
LEMMA TracesAgree ==
  ASSUME NEW l, NEW m, NEW n \in Nat, NEW f, NEW g,
         Traces(f, l, n), Traces(g, m, n), \A k \in 1 .. n : l[k] = m[k]
  PROVE  \A k \in 0 .. n : f[k] = g[k]
<1> DEFINE T == {k \in 0 .. n : f[k] # g[k]}
<1> SUFFICES ASSUME T # {}  PROVE FALSE
  OBVIOUS
<1>1. T \in SUBSET Nat
  OBVIOUS
<1>2. PICK k \in T : \A j \in T : k <= j
  <2> HIDE DEF T
  <2> QED  BY <1>1, Least
<1>3. k \in 1 .. n /\ f[k] # g[k]
  BY DEF Traces
<1>4. f[k - 1] = g[k - 1]
  BY <1>2, <1>3
<1>5. f[k] = After(f[k - 1], l[k]) /\ g[k] = After(g[k - 1], m[k]) /\ l[k] = m[k]
  BY <1>3 DEF Traces
<1> QED  BY <1>3, <1>4, <1>5

LEMMA PlacesIs ==
  ASSUME NEW l \in Seq(Logged)
  PROVE  Traces(Places(l), l, Len(l))
<1> DEFINE n == Len(l)
           Eq(f) == f = [k \in 0 .. n |-> IF k = 0 THEN <<0, 0>> ELSE After(f[k - 1], l[k])]
<1>1. n \in Nat
  OBVIOUS
<1>2. Places(l) = CHOOSE f : Eq(f)
  BY DEF Places
<1> HIDE DEF n, Eq
<1>3. PICK f : Traces(f, l, n)
  BY <1>1, TraceExists
<1>4. Eq(f)
  <2>1. f = [k \in 0 .. n |-> f[k]] /\ f[0] = <<0, 0>>
    BY <1>3 DEF Traces
  <2>2. \A k \in 0 .. n : f[k] = IF k = 0 THEN <<0, 0>> ELSE After(f[k - 1], l[k])
    <3>1. \A k \in 0 .. n : k = 0 \/ k \in 1 .. n
      BY <1>1
    <3> QED  BY <1>1, <1>3, <3>1 DEF Traces
  <2> DEFINE h == [k \in 0 .. n |-> IF k = 0 THEN <<0, 0>> ELSE After(f[k - 1], l[k])]
  <2>3. f = h
    BY <2>1, <2>2
  <2> QED  BY <2>3 DEF Eq
<1>5. Eq(Places(l))
  BY <1>2, <1>4, Zenon
<1>6. ASSUME NEW g, Eq(g)  PROVE Traces(g, l, n)
  <2>1. /\ DOMAIN g = 0 .. n
        /\ \A k \in 0 .. n : g[k] = IF k = 0 THEN <<0, 0>> ELSE After(g[k - 1], l[k])
        /\ g = [k \in 0 .. n |-> g[k]]
    BY <1>6 DEF Eq
  <2>2. g[0] = <<0, 0>> /\ \A k \in 1 .. n : g[k] = After(g[k - 1], l[k])
    <3>1. 0 \in 0 .. n /\ \A k \in 1 .. n : k \in 0 .. n /\ k # 0
      BY <1>1
    <3> QED  BY <2>1, <3>1
  <2> DEFINE T == {k \in 0 .. n : g[k] \notin Sheet}
  <2>3. T = {}
    <3> SUFFICES ASSUME T # {}  PROVE FALSE
      OBVIOUS
    <3>1. T \in SUBSET Nat
      BY <1>1
    <3>2. PICK k \in T : \A j \in T : k <= j
      <4> HIDE DEF T
      <4> QED  BY <3>1, Least
    <3>3. k # 0
      <4>1. <<0, 0>> \in Sheet
        BY Bounds DEF Sheet
      <4> QED  BY <2>2, <4>1
    <3>4. k \in 1 .. n /\ k - 1 \in 0 .. n /\ k - 1 \notin T
      BY <1>1, <3>2, <3>3
    <3>5. g[k - 1] \in Sheet /\ g[k] = After(g[k - 1], l[k])
      BY <2>2, <3>4
    <3> QED  BY <3>5, AfterIs
  <2> QED  BY <2>1, <2>2, <2>3 DEF Traces
<1> QED  BY <1>5, <1>6 DEF n

\* Each character is behind the ones before it.
LEMMA Increasing ==
  ASSUME NEW l, NEW n \in Nat, NEW f, Traces(f, l, n)
  PROVE  \A j, k \in 0 .. n : j < k => Before(f[j], f[k])
<1> SUFFICES ASSUME NEW j \in 0 .. n  PROVE \A k \in 0 .. n : j < k => Before(f[j], f[k])
  OBVIOUS
<1> DEFINE T == {k \in 0 .. n : j < k /\ ~Before(f[j], f[k])}
<1> SUFFICES ASSUME T # {}  PROVE FALSE
  OBVIOUS
<1>1. T \in SUBSET Nat
  OBVIOUS
<1>2. PICK k \in T : \A i \in T : k <= i
  <2> HIDE DEF T
  <2> QED  BY <1>1, Least
<1>3. /\ k \in 1 .. n /\ j < k /\ ~Before(f[j], f[k]) /\ k - 1 \in 0 .. n
      /\ k - 1 \notin T
  BY <1>2
<1>4. f[k] = After(f[k - 1], l[k]) /\ f[k - 1] \in Sheet /\ f[j] \in Sheet
  BY <1>3 DEF Traces
<1>5. Before(f[k - 1], f[k]) /\ f[k] \in Sheet
  BY <1>4, AfterIs
<1>6. j = k - 1 \/ Before(f[j], f[k - 1])
  BY <1>3
<1>7. CASE j = k - 1
  BY <1>3, <1>5, <1>7
<1>8. CASE Before(f[j], f[k - 1])
  <2>1. \A p \in Sheet : p[1] \in Nat /\ p[2] \in Nat
    BY Bounds DEF Sheet
  <2> QED  BY <1>3, <1>4, <1>5, <1>8, <2>1 DEF Before
<1> QED  BY <1>6, <1>7, <1>8

\* What the text l has at place q of the sheet.
At(l, q) == {k \in DOMAIN l : l[k][2] # NewLine /\ Places(l)[k - 1] = q}
On(l, q) == IF At(l, q) = {} THEN Blank ELSE l[CHOOSE k \in At(l, q) : TRUE]

\* A place holds one character at most, and none at or behind the cursor.
LEMMA OnIs ==
  ASSUME NEW l \in Seq(Logged), NEW q \in Sheet
  PROVE  /\ \A k \in At(l, q) : On(l, q) = l[k]
         /\ At(l, q) = {} => On(l, q) = Blank
         /\ ~Before(q, Places(l)[Len(l)]) => At(l, q) = {}
<1> DEFINE n == Len(l)
           P == Places(l)
<1>1. Traces(P, l, n) /\ n \in Nat /\ DOMAIN l = 1 .. n
  BY PlacesIs
<1> HIDE DEF P, n
<1>2. \A j, k \in 0 .. n : j < k => Before(P[j], P[k])
  BY <1>1, Increasing
<1>3. ASSUME NEW j \in At(l, q), NEW k \in At(l, q)  PROVE j = k
  <2>1. /\ j \in 1 .. n /\ k \in 1 .. n /\ P[j - 1] = q /\ P[k - 1] = q
    BY <1>1 DEF At, P
  <2>2. ~Before(q, q)
    <3>1. q[1] \in Nat /\ q[2] \in Nat
      BY Bounds DEF Sheet
    <3> QED  BY <3>1 DEF Before
  <2>3. j - 1 \in 0 .. n /\ k - 1 \in 0 .. n
    BY <1>1, <2>1
  <2>4. ~(j - 1 < k - 1) /\ ~(k - 1 < j - 1)
    BY <1>2, <2>1, <2>2, <2>3
  <2> QED  BY <1>1, <2>1, <2>4
<1>4. ASSUME NEW k \in At(l, q)  PROVE On(l, q) = l[k]
  <2>1. (CHOOSE i \in At(l, q) : TRUE) \in At(l, q)
    BY Zenon
  <2>2. (CHOOSE i \in At(l, q) : TRUE) = k
    BY <1>3, <2>1
  <2> QED  BY <2>2 DEF On
<1>5. ASSUME NEW k \in At(l, q)  PROVE Before(q, P[n])
  <2>1. k \in 1 .. n /\ P[k - 1] = q
    BY <1>1 DEF At, P
  <2>2. k - 1 \in 0 .. n /\ n \in 0 .. n /\ k - 1 < n
    BY <1>1, <2>1
  <2> QED  BY <1>2, <2>1, <2>2
<1> QED  BY <1>4, <1>5 DEF On, P, n

\* A character more.
LEMMA OnAppend ==
  ASSUME NEW l \in Seq(Logged), NEW i \in Logged, NEW q \in Sheet
  PROVE  /\ Places(Append(l, i))[Len(l) + 1] = After(Places(l)[Len(l)], i)
         /\ Places(Append(l, i))[Len(l)] = Places(l)[Len(l)]
         /\ On(Append(l, i), q) =
              IF i[2] # NewLine /\ q = Places(l)[Len(l)] THEN i ELSE On(l, q)
<1> DEFINE m == Append(l, i)
           n == Len(l)
           P == Places(l)
           Q == Places(m)
<1>1. /\ n \in Nat /\ DOMAIN l = 1 .. n
      /\ m \in Seq(Logged) /\ Len(m) = n + 1 /\ DOMAIN m = 1 .. n + 1
      /\ m[n + 1] = i /\ \A k \in 1 .. n : m[k] = l[k]
  OBVIOUS
<1>2. Traces(P, l, n)
  BY PlacesIs
<1>3. Traces(Q, m, n + 1)
  BY <1>1, PlacesIs
<1> HIDE DEF m, n, P, Q
<1>4. \A k \in 0 .. n : Q[k] = P[k]
  <2> DEFINE R == [k \in 0 .. n |-> Q[k]]
  <2>1. Q \in [0 .. n+1 -> Sheet] /\ Q[0] = <<0, 0>>
        /\ \A k \in 1 .. n+1 : Q[k] = After(Q[k - 1], m[k])
    BY <1>3 DEF Traces
  <2>2. R \in [0 .. n -> Sheet] /\ R[0] = <<0, 0>>
    BY <1>1, <2>1
  <2>3. ASSUME NEW k \in 1 .. n  PROVE R[k] = After(R[k - 1], m[k])
    BY <1>1, <2>1
  <2>4. Traces(R, m, n)
    BY <2>2, <2>3 DEF Traces
  <2> HIDE DEF R
  <2>5. \A k \in 0 .. n : R[k] = P[k]
    BY <1>1, <1>2, <2>4, TracesAgree
  <2> QED  BY <2>5 DEF R
<1>5. Q[n + 1] = After(P[n], i) /\ Q[n] = P[n]
  <2>1. n + 1 \in 1 .. n + 1 /\ (n + 1) - 1 = n /\ n \in 0 .. n
    BY <1>1
  <2>2. Q[n + 1] = After(Q[(n + 1) - 1], m[n + 1])
    BY <1>3, <2>1 DEF Traces
  <2> QED  BY <1>1, <1>4, <2>1, <2>2
<1>6. \A k \in 1 .. n : k \in At(m, q) <=> k \in At(l, q)
  <2> SUFFICES ASSUME NEW k \in 1 .. n  PROVE k \in At(m, q) <=> k \in At(l, q)
    OBVIOUS
  <2>1. k - 1 \in 0 .. n /\ k \in DOMAIN l /\ k \in DOMAIN m /\ m[k] = l[k]
    BY <1>1
  <2>2. Q[k - 1] = P[k - 1]
    BY <1>4, <2>1
  <2> QED  BY <2>1, <2>2 DEF At, P, Q
<1>7. n + 1 \in At(m, q) <=> i[2] # NewLine /\ q = P[n]
  <2>1. n + 1 \in DOMAIN m /\ (n + 1) - 1 = n
    BY <1>1
  <2>2. n + 1 \in At(m, q) <=> m[n + 1][2] # NewLine /\ Q[(n + 1) - 1] = q
    BY <2>1 DEF At, Q
  <2> QED  BY <1>1, <1>5, <2>1, <2>2
<1>8. At(m, q) \subseteq 1 .. n + 1 /\ At(l, q) \subseteq 1 .. n
  BY <1>1 DEF At
<1>9. On(m, q) = IF i[2] # NewLine /\ q = P[n] THEN i ELSE On(l, q)
  <2>1. CASE i[2] # NewLine /\ q = P[n]
    BY <1>1, <1>7, <2>1, OnIs
  <2>2. CASE ~(i[2] # NewLine /\ q = P[n])
    <3>1. At(m, q) = At(l, q)
      <4>1. n + 1 \notin At(m, q)
        BY <1>7, <2>2
      <4>2. \A k \in 1 .. n + 1 : k = n + 1 \/ k \in 1 .. n
        BY <1>1
      <4> QED  BY <1>6, <1>8, <4>1, <4>2
    <3>2. CASE At(l, q) = {}
      <4>1. On(m, q) = Blank /\ On(l, q) = Blank
        BY <1>1, <3>1, <3>2, OnIs
      <4> QED  BY <2>2, <4>1
    <3>3. CASE At(l, q) # {}
      <4>1. PICK k : k \in At(l, q)
        BY <3>3
      <4>2. On(m, q) = m[k] /\ On(l, q) = l[k] /\ k \in 1 .. n
        BY <1>1, <1>8, <3>1, <4>1, OnIs
      <4> QED  BY <1>1, <2>2, <4>2
    <3> QED  BY <3>2, <3>3
  <2> QED  BY <2>1, <2>2
<1> QED  BY <1>5, <1>9 DEF m, n, P, Q

LEMMA FrontIs ==
  ASSUME NEW L, NEW l \in Seq(L), Len(l) > 0
  PROVE  /\ Front(l) \in Seq(L) /\ Len(Front(l)) = Len(l) - 1
         /\ \A k \in 1 .. Len(l)-1 : Front(l)[k] = l[k]
<1> DEFINE n == Len(l)
           m == Front(l)
<1>1. m = SubSeq(l, 1, n - 1) /\ n = Len(l) /\ n \in Nat /\ n > 0
  BY DEF Front
<1> HIDE DEF m, n
<1>2. m \in Seq(L)
  BY <1>1
<1>3. Len(m) = n - 1 /\ \A k \in 1 .. n-1 : m[k] = l[k]
  BY <1>1
<1> QED  BY <1>2, <1>3 DEF m, n

\* A character less.
LEMMA OnFront ==
  ASSUME NEW l \in Seq(Logged), Len(l) > 0, l[Len(l)][2] # NewLine
  PROVE  LET m == Front(l) IN
         /\ m \in Seq(Logged) /\ Len(m) = Len(l) - 1
         /\ Places(l)[Len(l)] = After(Places(m)[Len(m)], l[Len(l)])
         /\ Places(m)[Len(m)] \in Sheet
         /\ \A q \in Sheet : On(m, q) = IF q = Places(m)[Len(m)] THEN Blank ELSE On(l, q)
<1> DEFINE m == Front(l)
           n == Len(l)
           i == l[n]
<1>1. n \in Nat /\ n > 0 /\ i \in Logged /\ i[2] # NewLine
  OBVIOUS
<1>2. m \in Seq(Logged) /\ Len(m) = n - 1 /\ \A k \in 1 .. n-1 : m[k] = l[k]
  BY FrontIs
<1>3. l = Append(m, i)
  <2>1. Append(m, i) \in Seq(Logged) /\ Len(Append(m, i)) = n
    BY <1>1, <1>2
  <2>2. \A k \in 1 .. n : Append(m, i)[k] = l[k]
    BY <1>1, <1>2
  <2> QED  BY <2>1, <2>2
<1> HIDE DEF m, n, i
<1> DEFINE c == Places(m)[Len(m)]
<1>4. c \in Sheet
  <2>1. Traces(Places(m), m, Len(m)) /\ Len(m) \in 0 .. Len(m)
    BY <1>1, <1>2, PlacesIs
  <2> QED  BY <2>1 DEF Traces
<1>5. Places(l)[n] = After(c, i)
  BY <1>1, <1>2, <1>3, <1>4, OnAppend
<1>6. ASSUME NEW q \in Sheet  PROVE On(m, q) = IF q = c THEN Blank ELSE On(l, q)
  <2>1. On(l, q) = IF q = c THEN i ELSE On(m, q)
    BY <1>1, <1>2, <1>3, OnAppend
  <2>2. q = c => On(m, q) = Blank
    <3>1. ~Before(c, c)
      <4>1. c[1] \in Nat /\ c[2] \in Nat
        BY <1>4, Bounds DEF Sheet
      <4> QED  BY <4>1 DEF Before
    <3> QED  BY <1>2, <3>1, OnIs
  <2> QED  BY <2>1, <2>2
<1> QED  BY <1>2, <1>4, <1>5, <1>6 DEF m, n, i

(***************************************************************************)
(* The inductive invariant: the screen is the sheet from row top on, and   *)
(* the characters backspace may take back are no newlines.                 *)
(***************************************************************************)
Shows(t, l, cy, cx, up) ==
  /\ t = [p \in Positions |-> On(l, <<p[1] + up, p[2]>>)]
  /\ <<cy + up, cx>> = Places(l)[Len(l)]

NoNewLines(l, n) == n <= Len(l) /\ \A k \in 1 .. Len(l) : k > Len(l) - n => l[k][2] # NewLine

ShowInv == ~mixed => Shows(text, log, y, x, top) /\ NoNewLines(log, noc)

LEMMA ShowsIs ==
  ASSUME TypeOK
  PROVE  ShowsText <=> (~mixed => Shows(text, log, y, x, top))
<1>1. log \in Seq(Logged) /\ Len(log) \in Nat
  BY DEF TypeOK, Logged
<1>2. \A q : OnSheet(q) = On(log, q)
  BY DEF OnSheet, On, At, PlaceOf
<1>3. PlaceOf(Len(log) + 1) = Places(log)[Len(log)]
  <2>1. (Len(log) + 1) - 1 = Len(log)
    BY <1>1
  <2> QED  BY <2>1 DEF PlaceOf
<1>4. [p \in Positions |-> OnSheet(<<p[1] + top, p[2]>>)]
        = [p \in Positions |-> On(log, <<p[1] + top, p[2]>>)]
  BY <1>2
<1> QED  BY <1>3, <1>4 DEF ShowsText, Shows

\* The places of the screen are places of the sheet.
LEMMA OnSheetIs ==
  ASSUME NEW up \in Nat, NEW p \in Positions
  PROVE  <<p[1] + up, p[2]>> \in Sheet
<1>1. Rows \in Nat /\ Cols \in Nat /\ p[1] \in 0 .. Rows-1 /\ p[2] \in 0 .. Cols-1
  BY Bounds DEF Positions
<1> QED  BY <1>1 DEF Sheet

\* The next row, whether it is there or has to be made: s already shows l.
LEMMA AdvanceShows ==
  ASSUME TypeOK, NEW l \in Seq(Logged), NEW s,
         s = [p \in Positions |-> On(l, <<p[1] + top, p[2]>>)],
         Places(l)[Len(l)] = <<(y + top) + 1, 0>>, Advance(s)
  PROVE  Shows(text', l, y', x', top')
<1>1. /\ Rows \in Nat /\ Rows > 0 /\ Cols \in Nat /\ Cols > 0
      /\ x \in 0 .. Cols-1 /\ y \in 0 .. Rows-1 /\ top \in Nat
  BY Bounds DEF TypeOK, Cursor, Positions
<1>2. CASE y + 1 < Rows
  <2>1. text' = s /\ x' = 0 /\ y' = y + 1 /\ top' = top
    BY <1>2 DEF Advance
  <2>2. <<y' + top', x'>> = <<(y + top) + 1, 0>>
    BY <1>1, <2>1
  <2> QED  BY <2>1, <2>2 DEF Shows
<1>3. CASE ~(y + 1 < Rows)
  <2>1. /\ text' = [p \in Positions |-> IF p[1] = Rows-1 THEN Blank ELSE s[<<p[1] + 1, p[2]>>]]
        /\ x' = 0 /\ y' = Rows-1 /\ top' = top + 1
    BY <1>3 DEF Advance, Scroll
  <2>2. y = Rows - 1
    BY <1>1, <1>3
  <2>3. <<y' + top', x'>> = <<(y + top) + 1, 0>>
    BY <1>1, <2>1, <2>2
  <2>4. ASSUME NEW p \in Positions
        PROVE  (IF p[1] = Rows-1 THEN Blank ELSE s[<<p[1] + 1, p[2]>>])
                 = On(l, <<p[1] + top', p[2]>>)
    <3>1. p[1] \in 0 .. Rows-1 /\ p[2] \in 0 .. Cols-1
      BY <1>1 DEF Positions
    <3>2. CASE p[1] = Rows - 1
      <4> DEFINE q == <<p[1] + top', p[2]>>
      <4>1. q \in Sheet
        BY <1>1, <2>1, <3>1 DEF Sheet
      <4>2. ~Before(q, <<(y + top) + 1, 0>>)
        BY <1>1, <2>1, <2>2, <3>1, <3>2 DEF Before
      <4>3. On(l, q) = Blank
        BY <4>1, <4>2, OnIs
      <4> QED  BY <3>2, <4>3
    <3>3. CASE p[1] # Rows - 1
      <4> DEFINE r == <<p[1] + 1, p[2]>>
      <4>1. r \in Positions
        <5>1. p[1] + 1 \in 0 .. Rows-1
          BY <1>1, <3>1, <3>3
        <5> QED  BY <3>1, <5>1 DEF Positions
      <4>2. s[r] = On(l, <<r[1] + top, r[2]>>)
        BY <4>1
      <4>3. <<r[1] + top, r[2]>> = <<p[1] + top', p[2]>>
        <5>1. (p[1] + 1) + top = p[1] + top'
          <6>1. \A a, b \in Nat : (a + 1) + b = a + (b + 1)
            OBVIOUS
          <6>2. p[1] \in Nat /\ top \in Nat /\ top' = top + 1
            BY <1>1, <2>1, <3>1
          <6> QED  BY <6>1, <6>2
        <5> QED  BY <5>1
      <4> QED  BY <3>3, <4>2, <4>3
    <3> QED  BY <3>2, <3>3
  <2>5. text' = [p \in Positions |-> On(l, <<p[1] + top', p[2]>>)]
    BY <2>1, <2>4
  <2> QED  BY <2>3, <2>5 DEF Shows
<1> QED  BY <1>2, <1>3

\* putc and putc_modified put a character where the sheet has it.
LEMMA PutShows ==
  ASSUME TypeOK, Shows(text, log, y, x, top), NEW i \in Logged, Put(i)
  PROVE  Shows(text', log', y', x', top')
<1> DEFINE l == Append(log, i)
           c == <<y + top, x>>
           s == [text EXCEPT ![Cursor] = i]
<1>1. /\ Rows \in Nat /\ Rows > 0 /\ Cols \in Nat /\ Cols > 0
      /\ x \in 0 .. Cols-1 /\ y \in 0 .. Rows-1 /\ top \in Nat
      /\ Cursor = <<y, x>> /\ Cursor \in Positions
      /\ log \in Seq(Logged) /\ text \in [Positions -> Cells]
  BY Bounds DEF TypeOK, Cursor, Positions, Logged
<1>2. c \in Sheet /\ c = Places(log)[Len(log)]
  BY <1>1 DEF Sheet, Shows
<1>3. l \in Seq(Logged) /\ Len(l) = Len(log) + 1 /\ log' = l
  BY <1>1 DEF Put
<1>4. Places(l)[Len(l)] = After(c, i)
  BY <1>1, <1>2, <1>3, OnAppend
<1>5. \A q \in Sheet : On(l, q) = IF i[2] # NewLine /\ q = c THEN i ELSE On(log, q)
  BY <1>1, <1>2, OnAppend
<1>6. \A p \in Positions : text[p] = On(log, <<p[1] + top, p[2]>>)
  BY DEF Shows
<1>7. CASE i[2] = NewLine
  <2>1. Advance(text)
    BY <1>7 DEF Put
  <2>2. \A p \in Positions : text[p] = On(l, <<p[1] + top, p[2]>>)
    BY <1>1, <1>5, <1>6, <1>7, OnSheetIs
  <2>3. text = [p \in Positions |-> On(l, <<p[1] + top, p[2]>>)]
    <3> HIDE DEF l
    <3> QED  BY <1>1, <2>2
  <2>4. After(c, i) = <<(y + top) + 1, 0>>
    BY <1>7 DEF After
  <2> HIDE DEF l
  <2> QED  BY <1>3, <1>4, <2>1, <2>3, <2>4, AdvanceShows
<1>8. CASE i[2] # NewLine
  <2>1. \A p \in Positions : s[p] = On(l, <<p[1] + top, p[2]>>)
    <3> SUFFICES ASSUME NEW p \in Positions  PROVE s[p] = On(l, <<p[1] + top, p[2]>>)
      OBVIOUS
    <3>1. p[1] \in Nat /\ p[2] \in Nat /\ p = <<p[1], p[2]>>
      BY <1>1 DEF Positions
    <3>2. p = Cursor <=> <<p[1] + top, p[2]>> = c
      BY <1>1, <3>1
    <3>3. s[p] = IF p = Cursor THEN i ELSE text[p]
      BY <1>1
    <3>4. <<p[1] + top, p[2]>> \in Sheet
      BY <1>1, OnSheetIs
    <3> HIDE DEF l, s, c
    <3> QED  BY <1>5, <1>6, <1>8, <3>2, <3>3, <3>4
  <2>2. s = [p \in Positions |-> On(l, <<p[1] + top, p[2]>>)]
    <3>1. s = [p \in Positions |-> s[p]]
      BY <1>1
    <3> HIDE DEF l, s
    <3> QED  BY <2>1, <3>1
  <2>3. CASE x + 1 < Cols
    <3>1. text' = s /\ x' = x + 1 /\ y' = y /\ top' = top
      BY <1>8, <2>3 DEF Put
    <3>2. After(c, i) = <<y + top, x + 1>>
      BY <1>1, <1>8, <2>3 DEF After
    <3> HIDE DEF l, s, c
    <3> QED  BY <1>3, <1>4, <2>2, <3>1, <3>2 DEF Shows
  <2>4. CASE ~(x + 1 < Cols)
    <3>1. Advance(s)
      BY <1>8, <2>4 DEF Put
    <3>2. After(c, i) = <<(y + top) + 1, 0>>
      BY <1>1, <2>4 DEF After
    <3> HIDE DEF l, s, c
    <3> QED  BY <1>3, <1>4, <2>2, <3>1, <3>2, AdvanceShows
  <2> QED  BY <2>3, <2>4
<1> QED  BY <1>7, <1>8

\* handlebackspace goes back to the place of the last character.
LEMMA BackShows ==
  ASSUME TypeOK, TypedInv, ~mixed, Shows(text, log, y, x, top), NoNewLines(log, noc), KeyBackspace
  PROVE  Shows(text', log', y', x', top')
<1> DEFINE m == Front(log)
           c == Places(m)[Len(m)]
<1>1. /\ Rows \in Nat /\ Rows > 0 /\ Cols \in Nat /\ Cols > 0
      /\ x \in 0 .. Cols-1 /\ y \in 0 .. Rows-1 /\ top \in Nat
      /\ Cursor = <<y, x>> /\ log \in Seq(Logged) /\ text \in [Positions -> Cells]
      /\ noc \in Nat /\ noc > 0 /\ Len(log) \in Nat
  BY Bounds DEF TypeOK, Cursor, Positions, Logged, KeyBackspace
<1>2. Len(log) > 0 /\ log[Len(log)][2] # NewLine
  BY <1>1 DEF NoNewLines
<1>3. /\ m \in Seq(Logged) /\ Len(m) = Len(log) - 1 /\ c \in Sheet
      /\ Places(log)[Len(log)] = After(c, log[Len(log)])
      /\ \A q \in Sheet : On(m, q) = IF q = c THEN Blank ELSE On(log, q)
  BY <1>1, <1>2, OnFront
<1>4. <<y + top, x>> = After(c, log[Len(log)])
  BY <1>3 DEF Shows
<1> HIDE DEF m, c
<1>5. c[1] \in Nat /\ c[2] \in 0 .. Cols-1 /\ c = <<c[1], c[2]>>
  BY <1>3 DEF Sheet
<1>6. Lin(Cursor) > 0 /\ Lin(Cursor) \in Nat
  <2>1. noc <= Lin(Cursor) /\ Lin(Cursor) \in Nat
    BY LinFacts DEF TypedInv, TypeOK
  <2> QED  BY <1>1, <2>1
<1>7. Retreat \in Positions /\ c = <<Retreat[1] + top, Retreat[2]>>
  <2>1. Retreat \in Positions
    BY RetreatType
  <2>2. CASE c[2] = Cols - 1
    <3>1. y + top = c[1] + 1 /\ x = 0
      BY <1>2, <1>4, <2>2 DEF After
    <3>2. y # 0
      <4> SUFFICES ASSUME y = 0  PROVE FALSE
        OBVIOUS
      <4>1. Lin(Cursor) = 0 * Cols + 0
        BY <1>1, <3>1 DEF Lin
      <4> QED  BY <1>1, <1>6, <4>1
    <3>3. Retreat = <<y - 1, Cols - 1>>
      BY <3>1, <3>2 DEF Retreat
    <3>4. (y - 1) + top = c[1]
      <4>1. \A a, b, d \in Nat : a + b = d + 1 => (a - 1) + b = d
        OBVIOUS
      <4>2. y \in Nat /\ top \in Nat /\ c[1] \in Nat
        BY <1>1, <1>5
      <4> QED  BY <3>1, <4>1, <4>2
    <3> QED  BY <1>5, <2>1, <2>2, <3>3, <3>4
  <2>3. CASE c[2] # Cols - 1
    <3>1. y + top = c[1] /\ x = c[2] + 1
      BY <1>2, <1>4, <2>3 DEF After
    <3>2. Retreat = <<y, x - 1>>
      BY <1>1, <1>5, <3>1 DEF Retreat
    <3> QED  BY <1>1, <1>5, <2>1, <3>1, <3>2
  <2> QED  BY <2>2, <2>3
<1>8. /\ y' = Retreat[1] /\ x' = Retreat[2] /\ text' = [text EXCEPT ![Retreat] = Blank]
      /\ log' = m /\ top' = top
  BY DEF KeyBackspace, m
<1>9. \A p \in Positions : text'[p] = On(m, <<p[1] + top, p[2]>>)
  <2> SUFFICES ASSUME NEW p \in Positions  PROVE text'[p] = On(m, <<p[1] + top, p[2]>>)
    OBVIOUS
  <2>1. p[1] \in Nat /\ p[2] \in Nat /\ p = <<p[1], p[2]>>
        /\ Retreat[1] \in Nat /\ Retreat[2] \in Nat /\ Retreat = <<Retreat[1], Retreat[2]>>
    BY <1>1, <1>7 DEF Positions
  <2>2. p = Retreat <=> <<p[1] + top, p[2]>> = c
    BY <1>1, <1>7, <2>1
  <2>3. text'[p] = IF p = Retreat THEN Blank ELSE text[p]
    BY <1>1, <1>8
  <2>4. <<p[1] + top, p[2]>> \in Sheet
    BY <1>1, OnSheetIs
  <2>5. text[p] = On(log, <<p[1] + top, p[2]>>)
    BY DEF Shows
  <2> QED  BY <1>3, <2>2, <2>3, <2>4, <2>5
<1>10. text' = [p \in Positions |-> On(m, <<p[1] + top, p[2]>>)]
  <2>1. text' = [p \in Positions |-> text'[p]]
    BY <1>1, <1>8
  <2> QED  BY <1>9, <2>1
<1>11. <<y' + top', x'>> = Places(m)[Len(m)]
  BY <1>7, <1>8 DEF c
<1> QED  BY <1>8, <1>10, <1>11 DEF Shows

LEMMA NothingShown ==
  Shows(Empty, <<>>, 0, 0, 0) /\ NoNewLines(<<>>, 0)
<1>1. <<>> \in Seq(Logged) /\ Len(<<>>) = 0
  OBVIOUS
<1>2. Places(<<>>)[0] = <<0, 0>>
  BY <1>1, PlacesIs DEF Traces
<1>3. \A q : On(<<>>, q) = Blank
  BY DEF On, At
<1>4. Empty = [p \in Positions |-> On(<<>>, <<p[1] + 0, p[2]>>)]
  BY <1>3 DEF Empty
<1> QED  BY <1>1, <1>2, <1>4 DEF Shows, NoNewLines

LEMMA ShowInit == Init => ShowInv
  BY NothingShown DEF Init, ShowInv

LEMMA ShowNext ==
  ASSUME TypeOK, TypedInv, ShowInv, NewLine \notin Chars, [Next]_vars
  PROVE  ShowInv'
<1>1. log \in Seq(Logged) /\ Len(log) \in Nat /\ noc \in Nat
  BY Bounds DEF TypeOK, Logged
<1>2. ASSUME NEW i \in Logged  PROVE Len(Append(log, i)) = Len(log) + 1
                                     /\ Append(log, i)[Len(log) + 1] = i
                                     /\ \A k \in 1 .. Len(log) : Append(log, i)[k] = log[k]
  BY <1>1
<1>3. ASSUME NEW item \in Items("output"), Output(item)  PROVE ShowInv'
  <2>1. item \in Logged /\ Put(item) /\ noc' = noc /\ log' = Append(log, item)
    BY <1>3 DEF Logged, Output, Put
  <2>2. mixed' = (mixed \/ noc > 0)
    BY <1>3 DEF Output
  <2>3. ~mixed' => ~mixed /\ ~(noc > 0)
    BY <2>2, Zenon
  <2>4. ~mixed' => Shows(text', log', y', x', top')
    BY <2>1, <2>3, PutShows DEF ShowInv
  <2>5. ~mixed' => NoNewLines(log', noc')
    BY <1>1, <1>2, <2>1, <2>3 DEF NoNewLines
  <2> QED  BY <2>4, <2>5 DEF ShowInv
<1>4. ASSUME NEW c \in Chars, KeyChar(c)  PROVE ShowInv'
  <2> DEFINE i == <<"typed", c>>
  <2>1. i \in Logged /\ Put(i) /\ noc' = noc + 1 /\ log' = Append(log, i) /\ mixed' = mixed
    BY <1>4 DEF Logged, Items, KeyChar, Put
  <2>2. i[2] # NewLine
    OBVIOUS
  <2> HIDE DEF i
  <2>3. ~mixed' => Shows(text', log', y', x', top')
    BY <2>1, PutShows DEF ShowInv
  <2>4. ~mixed' => NoNewLines(log', noc')
    <3> SUFFICES ASSUME ~mixed'  PROVE NoNewLines(log', noc')
      OBVIOUS
    <3>1. NoNewLines(log, noc)
      BY <2>1 DEF ShowInv
    <3>2. Len(log') = Len(log) + 1 /\ log'[Len(log) + 1] = i
          /\ \A k \in 1 .. Len(log) : log'[k] = log[k]
      BY <1>2, <2>1
    <3> QED  BY <1>1, <2>1, <2>2, <3>1, <3>2 DEF NoNewLines
  <2> QED  BY <2>3, <2>4 DEF ShowInv
<1>5. CASE KeyEnter
  <2> DEFINE i == <<"typed", NewLine>>
  <2>1. i \in Logged /\ Put(i) /\ noc' = 0 /\ log' = Append(log, i) /\ mixed' = mixed
    BY <1>5 DEF Logged, Items, KeyEnter, Put
  <2> HIDE DEF i
  <2>2. ~mixed' => Shows(text', log', y', x', top')
    BY <2>1, PutShows DEF ShowInv
  <2>3. NoNewLines(log', noc')
    BY <1>1, <1>2, <2>1 DEF NoNewLines
  <2> QED  BY <2>2, <2>3 DEF ShowInv
<1>6. CASE KeyBackspace
  <2>1. mixed' = mixed /\ noc' = noc - 1 /\ log' = Front(log) /\ noc > 0
    BY <1>1, <1>6 DEF KeyBackspace
  <2>2. ~mixed' => Shows(text', log', y', x', top')
    BY <1>6, <2>1, BackShows DEF ShowInv
  <2>3. ~mixed' => NoNewLines(log', noc')
    <3> SUFFICES ASSUME ~mixed'  PROVE NoNewLines(log', noc')
      OBVIOUS
    <3>1. NoNewLines(log, noc)
      BY <2>1 DEF ShowInv
    <3>3. Len(log) > 0
      BY <1>1, <2>1, <3>1 DEF NoNewLines
    <3>4. Len(log') = Len(log) - 1 /\ \A k \in 1 .. Len(log) - 1 : log'[k] = log[k]
      BY <1>1, <2>1, <3>3, FrontIs
    <3> QED  BY <1>1, <2>1, <3>1, <3>3, <3>4 DEF NoNewLines
  <2> QED  BY <2>2, <2>3 DEF ShowInv
<1>7. CASE KeyClear
  BY <1>7, NothingShown DEF KeyClear, ShowInv
<1>8. CASE UNCHANGED vars
  BY <1>8 DEF vars, ShowInv
<1> QED  BY <1>3, <1>4, <1>5, <1>6, <1>7, <1>8 DEF Next

\* The screen shows the end of what was written and typed, through every wrap,
\* scroll and backspace over them, for any size of screen, until a program
\* writes into a line being typed (putc, putc_modified, scroll, scroll_modified,
\* handlebackspace).
THEOREM ScreenShowsText == Spec => []ShowsText
<1>1. Init => TypedInv
  BY TypedInit
<1>2. Init => ShowInv
  BY ShowInit
<1>3. TypeOK /\ TypedInv /\ [Next]_vars => TypedInv'
  BY ScreenAssumption, TypedNext
<1>4. TypeOK /\ TypedInv /\ ShowInv /\ [Next]_vars => ShowInv'
  BY ScreenAssumption, ShowNext
<1>5. TypeOK /\ ShowInv => ShowsText
  BY ShowsIs DEF ShowInv
<1> QED
  BY <1>1, <1>2, <1>3, <1>4, <1>5, ScreenTypeCorrect, PTL DEF Spec

(***************************************************************************)
(* ScreenSteps: the keyboard handler comes between any two accesses a      *)
(* program's putc_modified makes to the cursor, and is not preempted       *)
(* itself.  The inductive invariant says how far the cursor may be off the *)
(* screen where the program stands, and that the handler, which finds it   *)
(* there, leaves it no further off.                                        *)
(***************************************************************************)
Coords == {"x", "y"}
Shaped(l) == DOMAIN l = {"pc", "item", "key", "back", "reg"} /\ DOMAIN l.reg = Coords

StepsType ==
  /\ DOMAIN th = Threads /\ \A t \in Threads : Shaped(th[t])
  /\ DOMAIN cur = Coords

\* The program has added 1 to a coordinate and not yet tested it or acted on it.
WideX == {"testX", "readY", "addY", "testY", "zeroX", "scroll", "lastRow", "firstCol"}
WideY == {"testY", "scroll", "lastRow"}
NearX(pc, v) == v < Cols \/ (pc \in WideX /\ v = Cols)
NearY(pc, v) == v < Rows \/ (pc \in WideY /\ v = Rows)

Backs == {"zeroX", "lastTest", "idle"}

ProgPc == {"idle", "atY", "atX", "store", "readX", "addX", "modX", "putModX", "lastTest",
           "sumY", "sumX", "putY"} \cup WideX

\* The local variables of the program.
ProgAt(l) ==
  /\ l.pc \in ProgPc
  /\ l.reg.x \in Nat /\ l.reg.y \in Nat
  /\ l.pc = "atX" => l.reg.y < Rows
  /\ l.pc = "store" => l.reg.x < Cols /\ l.reg.y < Rows
  /\ l.pc = "addX" => l.reg.x < Cols
  /\ l.pc = "addY" => l.reg.y < Rows
  /\ l.pc \in {"scroll", "lastRow", "firstCol"} => l.back \in Backs

\* Where the handler has the cursor as near as it found it.
KeepsX == {"idle", "getY", "getX", "setX", "setY", "atY", "atX", "store", "readX", "addX",
           "backX", "backY", "decX", "clear"}
KeepsY == KeepsX \cup {"left", "readUp", "endCol"}

KeyPc == KeepsY \cup ProgPc \cup {"up", "homeX", "homeY"}

\* The handler's local variables and the cursor, with the program at pc.
KeyAt(pc, l, c) ==
  /\ l.pc \in KeyPc
  /\ l.reg.x \in Nat /\ l.reg.y \in Nat /\ c.x \in Nat /\ c.y \in Nat
  /\ l.key \in {"idle", "atY", "readY", "backX", "clear"}
  /\ l.pc \in KeepsX => NearX(pc, c.x)
  /\ l.pc \in KeepsY => NearY(pc, c.y)
  /\ l.pc \in {"lastTest", "sumY", "sumX", "putY", "homeY"} => c.x < Cols
  /\ l.pc \in {"zeroX", "firstCol"} => c.y < Rows
  /\ l.pc \in {"getX", "setX", "setY"} => l.reg.y = c.y
  /\ l.pc = "setX" => l.reg.x = c.x
  /\ l.pc = "atX" => l.reg.y <= Rows
  /\ l.pc = "store" => l.reg.x <= Cols /\ l.reg.y <= Rows
  /\ l.pc = "decX" => c.x > 0
  /\ l.pc = "left" => l.reg.x > 0 /\ l.reg.x <= Cols
  /\ l.pc = "readUp" => c.y > 0
  /\ l.pc = "up" => l.reg.y > 0 /\ l.reg.y <= Rows
  /\ l.pc \in {"scroll", "lastRow", "firstCol"} => l.back \in Backs

StepsInv ==
  /\ StepsType
  /\ ProgAt(th["program"])
  /\ KeyAt(th["program"].pc, th["keyboard"], cur)

(***************************************************************************)
(* What a step makes of the local variables l and the cursor c: m and d.   *)
(***************************************************************************)
Kept(l, m) == m.key = l.key /\ m.item = l.item

\* A coordinate is read.
ReadX(l, c, m, d, pc) ==
  Kept(l, m) /\ m.pc = pc /\ m.back = l.back /\ m.reg.x = c.x /\ m.reg.y = l.reg.y /\ d = c
ReadY(l, c, m, d, pc) ==
  Kept(l, m) /\ m.pc = pc /\ m.back = l.back /\ m.reg.x = l.reg.x /\ m.reg.y = c.y /\ d = c

\* The cursor is written, or nothing but pc changes.
Moved(l, m, pc) ==
  IF pc = "idle" THEN m = Idle
  ELSE Kept(l, m) /\ m.pc = pc /\ m.back = l.back /\ m.reg = l.reg
WriteX(l, c, m, d, v, pc) == Moved(l, m, pc) /\ d.x = v /\ d.y = c.y
WriteY(l, c, m, d, v, pc) == Moved(l, m, pc) /\ d.x = c.x /\ d.y = v

\* A test on the cursor.
Tested(l, c, m, d, pc) ==
  /\ Kept(l, m) /\ m.reg = l.reg /\ d = c /\ m.pc = pc
  /\ m.back = IF pc = "scroll" THEN AfterScroll(l) ELSE l.back

Reading(l, c, m, d) ==
  \/ l.pc = "getY" /\ ReadY(l, c, m, d, "getX")
  \/ l.pc = "getX" /\ ReadX(l, c, m, d, "setX")
  \/ l.pc = "atY" /\ ReadY(l, c, m, d, "atX")
  \/ l.pc = "atX" /\ ReadX(l, c, m, d, "store")
  \/ l.pc = "readX" /\ ReadX(l, c, m, d, "addX")
  \/ l.pc = "readY" /\ ReadY(l, c, m, d, "addY")
  \/ l.pc = "modX" /\ ReadX(l, c, m, d, "putModX")
  \/ l.pc = "sumY" /\ ReadY(l, c, m, d, "sumX")
  \/ l.pc = "sumX" /\ ReadX(l, c, m, d, "putY")
  \/ l.pc = "decX" /\ ReadX(l, c, m, d, "left")
  \/ l.pc = "readUp" /\ ReadY(l, c, m, d, "up")

Writing(l, c, m, d) ==
  \/ l.pc = "setX" /\ WriteX(l, c, m, d, l.reg.x, "setY")
  \/ l.pc = "setY" /\ WriteY(l, c, m, d, l.reg.y, l.key)
  \/ l.pc = "addX" /\ WriteX(l, c, m, d, l.reg.x + 1, "testX")
  \/ l.pc = "addY" /\ WriteY(l, c, m, d, l.reg.y + 1, "testY")
  \/ l.pc = "putModX" /\ WriteX(l, c, m, d, l.reg.x % Cols, "lastTest")
  \/ l.pc = "putY" /\ WriteY(l, c, m, d, (l.reg.y + (l.reg.x \div Cols)) % Rows, "idle")
  \/ l.pc = "zeroX" /\ WriteX(l, c, m, d, 0, IF l.item[2] = NewLine THEN "idle" ELSE "lastTest")
  \/ l.pc = "lastRow" /\ WriteY(l, c, m, d, Rows - 1, "firstCol")
  \/ l.pc = "firstCol" /\ WriteX(l, c, m, d, 0, l.back)
  \/ l.pc = "left" /\ WriteX(l, c, m, d, l.reg.x - 1, "atY")
  \/ l.pc = "up" /\ WriteY(l, c, m, d, l.reg.y - 1, "endCol")
  \/ l.pc = "endCol" /\ WriteX(l, c, m, d, Cols - 1, "atY")
  \/ l.pc = "homeX" /\ WriteX(l, c, m, d, 0, "homeY")
  \/ l.pc = "homeY" /\ WriteY(l, c, m, d, 0, "idle")

Testing(l, c, m, d) ==
  \/ l.pc = "testX" /\ Tested(l, c, m, d, IF c.x < Cols THEN "modX" ELSE "readY")
  \/ l.pc = "testY" /\ Tested(l, c, m, d, IF c.y < Rows THEN "zeroX" ELSE "scroll")
  \/ l.pc = "lastTest" /\ Tested(l, c, m, d, IF c.y < Rows THEN "sumY" ELSE "scroll")
  \/ l.pc = "backX" /\ Tested(l, c, m, d, IF c.x - 1 < 0 THEN "backY" ELSE "decX")
  \/ l.pc = "backY" /\ Tested(l, c, m, d, IF c.y # 0 THEN "readUp" ELSE "atY")

Storing(l, c, m, d) ==
  /\ d = c
  /\ \/ l.pc = "store" /\ Moved(l, m, IF l.item = Blank THEN "idle" ELSE "readX")
     \/ l.pc = "scroll" /\ Moved(l, m, "lastRow")
     \/ l.pc = "clear" /\ Moved(l, m, "homeX")

StepOf(l, c, m, d) ==
  Reading(l, c, m, d) \/ Writing(l, c, m, d) \/ Testing(l, c, m, d) \/ Storing(l, c, m, d)

LEMMA IdleShape == Shaped(Idle)
BY DEF Idle, Shaped, Coords

\* Threads move one at a time.
LEMMA OneMoves ==
  ASSUME StepsType, NEW t \in Threads, NEW m, Shaped(m), th' = [th EXCEPT ![t] = m],
         DOMAIN cur' = Coords
  PROVE  StepsType' /\ th'[t] = m /\ \A u \in Threads : u # t => th'[u] = th[u]
BY DEF StepsType

\* Only t has moved, as the relation of its local variables and the cursor says.
Only(t) == StepsType' /\ \A u \in Threads : u # t => th'[u] = th[u]

LEMMA GotoIs ==
  ASSUME StepsType, NEW t \in Threads, NEW pc, Goto(t, pc), DOMAIN cur' = Coords
  PROVE  Only(t) /\ Moved(th[t], th'[t], pc)
<1> DEFINE l == th[t]
           m == IF pc = "idle" THEN Idle ELSE [l EXCEPT !.pc = pc]
<1>1. th' = [th EXCEPT ![t] = m] /\ Shaped(l)
  BY DEF Goto, StepsType
<1> HIDE DEF l
<1>2. Shaped(m)
  BY <1>1, IdleShape DEF Shaped
<1>3. Moved(l, m, pc)
  BY <1>1 DEF Moved, Kept, Shaped
<1> HIDE DEF m
<1> QED  BY <1>1, <1>2, <1>3, OneMoves DEF Only, l

LEMMA ReadIs ==
  ASSUME StepsType, NEW t \in Threads, Read(t)
  PROVE  Only(t) /\ Reading(th[t], cur, th'[t], cur')
<1> DEFINE l == th[t]
           a == Reads[l.pc][1]
           n == Reads[l.pc][2]
<1>1. Shaped(l) /\ DOMAIN cur = Coords /\ l.pc \in DOMAIN Reads /\ cur' = cur
  BY DEF StepsType, Read
<1>2. th' = [th EXCEPT ![t] = [l EXCEPT !.reg[a] = cur[a], !.pc = n]]
  BY DEF StepsType, Read
<1> DEFINE m == [l EXCEPT !.reg[a] = cur[a], !.pc = n]
<1>3. Only(t) /\ th'[t] = m
  <2>1. Shaped(m)
    BY <1>1 DEF Shaped
  <2> HIDE DEF m
  <2> QED  BY <1>1, <1>2, <2>1, OneMoves DEF Only, m
<1> HIDE DEF l
<1>4. ASSUME a = "x"  PROVE \A d : d = cur => ReadX(l, cur, m, d, n)
  BY <1>1, <1>4 DEF Shaped, Coords, ReadX, Kept
<1>5. ASSUME a = "y"  PROVE \A d : d = cur => ReadY(l, cur, m, d, n)
  BY <1>1, <1>5 DEF Shaped, Coords, ReadY, Kept
<1> HIDE DEF m
<1>6. CASE l.pc = "getY"
  <2>1. a = "y" /\ n = "getX"
    BY <1>6 DEF Reads
  <2> HIDE DEF a, n
  <2>2. ReadY(l, cur, m, cur', "getX")
    BY <1>1, <1>5, <2>1
  <2> QED  BY <1>3, <1>6, <2>2 DEF Reading, l
<1>7. CASE l.pc = "getX"
  <2>1. a = "x" /\ n = "setX"
    BY <1>7 DEF Reads
  <2> HIDE DEF a, n
  <2>2. ReadX(l, cur, m, cur', "setX")
    BY <1>1, <1>4, <2>1
  <2> QED  BY <1>3, <1>7, <2>2 DEF Reading, l
<1>8. CASE l.pc = "atY"
  <2>1. a = "y" /\ n = "atX"
    BY <1>8 DEF Reads
  <2> HIDE DEF a, n
  <2>2. ReadY(l, cur, m, cur', "atX")
    BY <1>1, <1>5, <2>1
  <2> QED  BY <1>3, <1>8, <2>2 DEF Reading, l
<1>9. CASE l.pc = "atX"
  <2>1. a = "x" /\ n = "store"
    BY <1>9 DEF Reads
  <2> HIDE DEF a, n
  <2>2. ReadX(l, cur, m, cur', "store")
    BY <1>1, <1>4, <2>1
  <2> QED  BY <1>3, <1>9, <2>2 DEF Reading, l
<1>10. CASE l.pc = "readX"
  <2>1. a = "x" /\ n = "addX"
    BY <1>10 DEF Reads
  <2> HIDE DEF a, n
  <2>2. ReadX(l, cur, m, cur', "addX")
    BY <1>1, <1>4, <2>1
  <2> QED  BY <1>3, <1>10, <2>2 DEF Reading, l
<1>11. CASE l.pc = "readY"
  <2>1. a = "y" /\ n = "addY"
    BY <1>11 DEF Reads
  <2> HIDE DEF a, n
  <2>2. ReadY(l, cur, m, cur', "addY")
    BY <1>1, <1>5, <2>1
  <2> QED  BY <1>3, <1>11, <2>2 DEF Reading, l
<1>12. CASE l.pc = "modX"
  <2>1. a = "x" /\ n = "putModX"
    BY <1>12 DEF Reads
  <2> HIDE DEF a, n
  <2>2. ReadX(l, cur, m, cur', "putModX")
    BY <1>1, <1>4, <2>1
  <2> QED  BY <1>3, <1>12, <2>2 DEF Reading, l
<1>13. CASE l.pc = "sumY"
  <2>1. a = "y" /\ n = "sumX"
    BY <1>13 DEF Reads
  <2> HIDE DEF a, n
  <2>2. ReadY(l, cur, m, cur', "sumX")
    BY <1>1, <1>5, <2>1
  <2> QED  BY <1>3, <1>13, <2>2 DEF Reading, l
<1>14. CASE l.pc = "sumX"
  <2>1. a = "x" /\ n = "putY"
    BY <1>14 DEF Reads
  <2> HIDE DEF a, n
  <2>2. ReadX(l, cur, m, cur', "putY")
    BY <1>1, <1>4, <2>1
  <2> QED  BY <1>3, <1>14, <2>2 DEF Reading, l
<1>15. CASE l.pc = "decX"
  <2>1. a = "x" /\ n = "left"
    BY <1>15 DEF Reads
  <2> HIDE DEF a, n
  <2>2. ReadX(l, cur, m, cur', "left")
    BY <1>1, <1>4, <2>1
  <2> QED  BY <1>3, <1>15, <2>2 DEF Reading, l
<1>16. CASE l.pc = "readUp"
  <2>1. a = "y" /\ n = "up"
    BY <1>16 DEF Reads
  <2> HIDE DEF a, n
  <2>2. ReadY(l, cur, m, cur', "up")
    BY <1>1, <1>5, <2>1
  <2> QED  BY <1>3, <1>16, <2>2 DEF Reading, l
<1> QED
  BY <1>1, <1>6, <1>7, <1>8, <1>9, <1>10, <1>11, <1>12, <1>13, <1>14, <1>15, <1>16 DEF Reads

LEMMA WriteIs ==
  ASSUME StepsType, NEW t \in Threads, Write(t)
  PROVE  Only(t) /\ Writing(th[t], cur, th'[t], cur')
<1> DEFINE l == th[t]
           w == Writes(l)[l.pc]
           m == th'[t]
<1>1. DOMAIN cur = Coords /\ l.pc \in DOMAIN Writes(l)
  BY DEF StepsType, Write
<1>2. cur' = [cur EXCEPT ![w[1]] = w[2]] /\ Goto(t, w[3])
  BY DEF Write
<1>3. Only(t) /\ Moved(l, m, w[3])
  BY <1>1, <1>2, GotoIs
<1> HIDE DEF l, m
<1>4. ASSUME w[1] = "x"  PROVE WriteX(l, cur, m, cur', w[2], w[3])
  BY <1>1, <1>2, <1>3, <1>4 DEF Coords, WriteX
<1>5. ASSUME w[1] = "y"  PROVE WriteY(l, cur, m, cur', w[2], w[3])
  BY <1>1, <1>2, <1>3, <1>5 DEF Coords, WriteY
<1>6. CASE l.pc = "setX"
  <2>1. w = <<"x", l.reg.x, "setY">>
    BY <1>6 DEF Writes
  <2>2. WriteX(l, cur, m, cur', l.reg.x, "setY")
    BY <1>4, <2>1
  <2> QED  BY <1>3, <1>6, <2>2 DEF Writing, l, m
<1>7. CASE l.pc = "setY"
  <2>1. w = <<"y", l.reg.y, l.key>>
    BY <1>7 DEF Writes
  <2>2. WriteY(l, cur, m, cur', l.reg.y, l.key)
    BY <1>5, <2>1
  <2> QED  BY <1>3, <1>7, <2>2 DEF Writing, l, m
<1>8. CASE l.pc = "addX"
  <2>1. w = <<"x", l.reg.x + 1, "testX">>
    BY <1>8 DEF Writes
  <2>2. WriteX(l, cur, m, cur', l.reg.x + 1, "testX")
    BY <1>4, <2>1
  <2> QED  BY <1>3, <1>8, <2>2 DEF Writing, l, m
<1>9. CASE l.pc = "addY"
  <2>1. w = <<"y", l.reg.y + 1, "testY">>
    BY <1>9 DEF Writes
  <2>2. WriteY(l, cur, m, cur', l.reg.y + 1, "testY")
    BY <1>5, <2>1
  <2> QED  BY <1>3, <1>9, <2>2 DEF Writing, l, m
<1>10. CASE l.pc = "putModX"
  <2>1. w = <<"x", l.reg.x % Cols, "lastTest">>
    BY <1>10 DEF Writes
  <2>2. WriteX(l, cur, m, cur', l.reg.x % Cols, "lastTest")
    BY <1>4, <2>1
  <2> QED  BY <1>3, <1>10, <2>2 DEF Writing, l, m
<1>11. CASE l.pc = "putY"
  <2>1. w = <<"y", (l.reg.y + (l.reg.x \div Cols)) % Rows, "idle">>
    BY <1>11 DEF Writes
  <2>2. WriteY(l, cur, m, cur', (l.reg.y + (l.reg.x \div Cols)) % Rows, "idle")
    BY <1>5, <2>1
  <2> QED  BY <1>3, <1>11, <2>2 DEF Writing, l, m
<1>12. CASE l.pc = "zeroX"
  <2>1. w = <<"x", 0, IF l.item[2] = NewLine THEN "idle" ELSE "lastTest">>
    BY <1>12 DEF Writes
  <2>2. WriteX(l, cur, m, cur', 0, IF l.item[2] = NewLine THEN "idle" ELSE "lastTest")
    BY <1>4, <2>1
  <2> QED  BY <1>3, <1>12, <2>2 DEF Writing, l, m
<1>13. CASE l.pc = "lastRow"
  <2>1. w = <<"y", Rows - 1, "firstCol">>
    BY <1>13 DEF Writes
  <2>2. WriteY(l, cur, m, cur', Rows - 1, "firstCol")
    BY <1>5, <2>1
  <2> QED  BY <1>3, <1>13, <2>2 DEF Writing, l, m
<1>14. CASE l.pc = "firstCol"
  <2>1. w = <<"x", 0, l.back>>
    BY <1>14 DEF Writes
  <2>2. WriteX(l, cur, m, cur', 0, l.back)
    BY <1>4, <2>1
  <2> QED  BY <1>3, <1>14, <2>2 DEF Writing, l, m
<1>15. CASE l.pc = "left"
  <2>1. w = <<"x", l.reg.x - 1, "atY">>
    BY <1>15 DEF Writes
  <2>2. WriteX(l, cur, m, cur', l.reg.x - 1, "atY")
    BY <1>4, <2>1
  <2> QED  BY <1>3, <1>15, <2>2 DEF Writing, l, m
<1>16. CASE l.pc = "up"
  <2>1. w = <<"y", l.reg.y - 1, "endCol">>
    BY <1>16 DEF Writes
  <2>2. WriteY(l, cur, m, cur', l.reg.y - 1, "endCol")
    BY <1>5, <2>1
  <2> QED  BY <1>3, <1>16, <2>2 DEF Writing, l, m
<1>17. CASE l.pc = "endCol"
  <2>1. w = <<"x", Cols - 1, "atY">>
    BY <1>17 DEF Writes
  <2>2. WriteX(l, cur, m, cur', Cols - 1, "atY")
    BY <1>4, <2>1
  <2> QED  BY <1>3, <1>17, <2>2 DEF Writing, l, m
<1>18. CASE l.pc = "homeX"
  <2>1. w = <<"x", 0, "homeY">>
    BY <1>18 DEF Writes
  <2>2. WriteX(l, cur, m, cur', 0, "homeY")
    BY <1>4, <2>1
  <2> QED  BY <1>3, <1>18, <2>2 DEF Writing, l, m
<1>19. CASE l.pc = "homeY"
  <2>1. w = <<"y", 0, "idle">>
    BY <1>19 DEF Writes
  <2>2. WriteY(l, cur, m, cur', 0, "idle")
    BY <1>5, <2>1
  <2> QED  BY <1>3, <1>19, <2>2 DEF Writing, l, m
<1> QED
  BY <1>1, <1>6, <1>7, <1>8, <1>9, <1>10, <1>11, <1>12, <1>13, <1>14, <1>15, <1>16, <1>17, <1>18, <1>19 DEF Writes

LEMMA TestIs ==
  ASSUME StepsType, NEW t \in Threads, Test(t)
  PROVE  Only(t) /\ Testing(th[t], cur, th'[t], cur')
<1> DEFINE l == th[t]
           n == Tests[l.pc]
           b == IF n = "scroll" THEN AfterScroll(l) ELSE l.back
           m == [l EXCEPT !.pc = n, !.back = b]
<1>1. Shaped(l) /\ DOMAIN cur = Coords /\ l.pc \in DOMAIN Tests /\ cur' = cur
  BY DEF StepsType, Test
<1>2. th' = [th EXCEPT ![t] = m]
  BY DEF StepsType, Test
<1>3. Only(t) /\ th'[t] = m
  <2>1. Shaped(m)
    BY <1>1 DEF Shaped
  <2> HIDE DEF m
  <2> QED  BY <1>1, <1>2, <2>1, OneMoves DEF Only
<1> HIDE DEF l
<1>4. Tested(l, cur, m, cur', n)
  BY <1>1 DEF Shaped, Tested, Kept
<1> HIDE DEF m
<1>5. CASE l.pc = "testX"
  <2>1. n = IF cur.x < Cols THEN "modX" ELSE "readY"
    BY <1>5 DEF Tests, ColumnTest, RowTest, TopTest
  <2> QED  BY <1>2, <1>3, <1>4, <1>5, <2>1 DEF Testing, l
<1>6. CASE l.pc = "testY"
  <2>1. n = IF cur.y < Rows THEN "zeroX" ELSE "scroll"
    BY <1>6 DEF Tests, ColumnTest, RowTest, TopTest
  <2> QED  BY <1>2, <1>3, <1>4, <1>6, <2>1 DEF Testing, l
<1>7. CASE l.pc = "lastTest"
  <2>1. n = IF cur.y < Rows THEN "sumY" ELSE "scroll"
    BY <1>7 DEF Tests, ColumnTest, RowTest, TopTest
  <2> QED  BY <1>2, <1>3, <1>4, <1>7, <2>1 DEF Testing, l
<1>8. CASE l.pc = "backX"
  <2>1. n = IF cur.x - 1 < 0 THEN "backY" ELSE "decX"
    BY <1>8 DEF Tests, ColumnTest, RowTest, TopTest
  <2> QED  BY <1>2, <1>3, <1>4, <1>8, <2>1 DEF Testing, l
<1>9. CASE l.pc = "backY"
  <2>1. n = IF cur.y # 0 THEN "readUp" ELSE "atY"
    BY <1>9 DEF Tests, ColumnTest, RowTest, TopTest
  <2> QED  BY <1>2, <1>3, <1>4, <1>9, <2>1 DEF Testing, l
<1> QED
  BY <1>1, <1>5, <1>6, <1>7, <1>8, <1>9 DEF Tests

LEMMA StepIs ==
  ASSUME StepsType, NEW t \in Threads, Step(t)
  PROVE  Only(t) /\ StepOf(th[t], cur, th'[t], cur')
<1>1. CASE Store(t) \/ ScrollRows(t) \/ Clear(t)
  <2>1. PICK pc : /\ Goto(t, pc) /\ cur' = cur
                  /\ \/ th[t].pc = "store" /\ pc = IF th[t].item = Blank THEN "idle" ELSE "readX"
                     \/ th[t].pc = "scroll" /\ pc = "lastRow"
                     \/ th[t].pc = "clear" /\ pc = "homeX"
    BY <1>1 DEF Store, ScrollRows, Clear
  <2>2. Only(t) /\ Moved(th[t], th'[t], pc)
    BY <2>1, GotoIs DEF StepsType
  <2> QED  BY <2>1, <2>2 DEF StepOf, Storing
<1> QED  BY <1>1, ReadIs, WriteIs, TestIs DEF Step, StepOf

LEMMA Remainders ==
  /\ Rows \in Nat /\ Rows > 0 /\ Cols \in Nat /\ Cols > 0
  /\ \A v \in Nat : v % Cols \in Nat /\ v % Cols < Cols
  /\ \A v, u \in Nat : (v + (u \div Cols)) % Rows \in Nat /\ (v + (u \div Cols)) % Rows < Rows
<1>1. Rows \in Nat /\ Rows > 0 /\ Cols \in Nat /\ Cols > 0
  BY Bounds
<1>2. \A v \in Int : v % Cols \in Nat /\ v % Cols < Cols
  BY <1>1
<1>3. \A v \in Int : v % Rows \in Nat /\ v % Rows < Rows
  BY <1>1
<1>4. \A u \in Nat : u \div Cols \in Int
  BY <1>1
<1> QED  BY <1>1, <1>2, <1>3, <1>4

\* The handler: wherever the program stands, it leaves the cursor as near to the
\* screen as it found it.
LEMMA KeyGoes ==
  ASSUME NEW pc, NEW l, NEW c, NEW m, NEW d, KeyAt(pc, l, c), StepOf(l, c, m, d)
  PROVE  KeyAt(pc, m, d)
<1> USE Bounds DEF KeyAt, KeyPc, KeepsX, KeepsY, ProgPc, WideX, Backs
<1>1. CASE Reading(l, c, m, d)
  BY <1>1 DEF Reading, ReadX, ReadY, Kept, NearX, NearY
<1>2. CASE Writing(l, c, m, d)
  <2>1. CASE l.pc = "setX"
    BY <1>2, <2>1 DEF Writing, WriteX, WriteY, Moved, Kept, Idle, NearX, NearY
  <2>2. CASE l.pc = "setY"
    BY <1>2, <2>2 DEF Writing, WriteX, WriteY, Moved, Kept, Idle, NearX, NearY
  <2>3. CASE l.pc = "addX"
    BY <1>2, <2>3 DEF Writing, WriteX, WriteY, Moved, Kept, Idle, NearX, NearY
  <2>4. CASE l.pc = "addY"
    BY <1>2, <2>4 DEF Writing, WriteX, WriteY, Moved, Kept, Idle, NearX, NearY
  <2>5. CASE l.pc = "putModX"
    BY <1>2, <2>5, Remainders DEF Writing, WriteX, WriteY, Moved, Kept, Idle, NearX, NearY
  <2>6. CASE l.pc = "putY"
    BY <1>2, <2>6, Remainders DEF Writing, WriteX, WriteY, Moved, Kept, Idle, NearX, NearY
  <2>7. CASE l.pc = "zeroX"
    BY <1>2, <2>7 DEF Writing, WriteX, WriteY, Moved, Kept, Idle, NearX, NearY
  <2>8. CASE l.pc = "lastRow"
    BY <1>2, <2>8 DEF Writing, WriteX, WriteY, Moved, Kept, Idle, NearX, NearY
  <2>9. CASE l.pc = "firstCol"
    BY <1>2, <2>9 DEF Writing, WriteX, WriteY, Moved, Kept, Idle, NearX, NearY
  <2>10. CASE l.pc = "left"
    BY <1>2, <2>10 DEF Writing, WriteX, WriteY, Moved, Kept, Idle, NearX, NearY
  <2>11. CASE l.pc = "up"
    BY <1>2, <2>11 DEF Writing, WriteX, WriteY, Moved, Kept, Idle, NearX, NearY
  <2>12. CASE l.pc = "endCol"
    BY <1>2, <2>12 DEF Writing, WriteX, WriteY, Moved, Kept, Idle, NearX, NearY
  <2>13. CASE l.pc = "homeX"
    BY <1>2, <2>13 DEF Writing, WriteX, WriteY, Moved, Kept, Idle, NearX, NearY
  <2>14. CASE l.pc = "homeY"
    BY <1>2, <2>14 DEF Writing, WriteX, WriteY, Moved, Kept, Idle, NearX, NearY
  <2> QED
    BY <1>2, <2>1, <2>2, <2>3, <2>4, <2>5, <2>6, <2>7, <2>8, <2>9, <2>10, <2>11, <2>12, <2>13, <2>14 DEF Writing
<1>3. CASE Testing(l, c, m, d)
  BY <1>3 DEF Testing, Tested, Kept, AfterScroll, NearX, NearY
<1>4. CASE Storing(l, c, m, d)
  BY <1>4 DEF Storing, Moved, Kept, Idle
<1> QED  BY <1>1, <1>2, <1>3, <1>4 DEF StepOf

\* The program, while the handler is not running.
LEMMA ProgGoes ==
  ASSUME NEW k, NEW l, NEW c, NEW m, NEW d,
         ProgAt(l), KeyAt(l.pc, k, c), k.pc = "idle", StepOf(l, c, m, d)
  PROVE  ProgAt(m) /\ KeyAt(m.pc, k, d)
<1> USE Bounds DEF ProgAt, KeyAt, KeyPc, KeepsX, KeepsY, ProgPc, WideX, WideY, Backs
<1>1. CASE Reading(l, c, m, d)
  BY <1>1 DEF Reading, ReadX, ReadY, Kept, NearX, NearY
<1>2. CASE Writing(l, c, m, d)
  <2>1. CASE l.pc = "addX"
    <3>1. /\ m.pc = "testX" /\ m.reg = l.reg /\ d.y = c.y /\ d.x = l.reg.x + 1
      BY <1>2, <2>1 DEF Writing, WriteX, WriteY, Moved, Kept, Idle
    <3>2. d.x \in Nat /\ (d.x < Cols \/ d.x = Cols)
      BY <2>1, <3>1
    <3> QED  BY <2>1, <3>1, <3>2 DEF NearX, NearY
  <2>2. CASE l.pc = "addY"
    BY <1>2, <2>2 DEF Writing, WriteX, WriteY, Moved, Kept, Idle, NearX, NearY
  <2>3. CASE l.pc = "putModX"
    BY <1>2, <2>3, Remainders DEF Writing, WriteX, WriteY, Moved, Kept, Idle, NearX, NearY
  <2>4. CASE l.pc = "putY"
    BY <1>2, <2>4, Remainders DEF Writing, WriteX, WriteY, Moved, Kept, Idle, NearX, NearY
  <2>5. CASE l.pc = "zeroX"
    BY <1>2, <2>5 DEF Writing, WriteX, WriteY, Moved, Kept, Idle, NearX, NearY
  <2>6. CASE l.pc = "lastRow"
    BY <1>2, <2>6 DEF Writing, WriteX, WriteY, Moved, Kept, Idle, NearX, NearY
  <2>7. CASE l.pc = "firstCol"
    BY <1>2, <2>7 DEF Writing, WriteX, WriteY, Moved, Kept, Idle, NearX, NearY
  <2> QED
    BY <1>2, <2>1, <2>2, <2>3, <2>4, <2>5, <2>6, <2>7 DEF Writing
<1>3. CASE Testing(l, c, m, d)
  BY <1>3 DEF Testing, Tested, Kept, AfterScroll, NearX, NearY
<1>4. CASE Storing(l, c, m, d)
  BY <1>4 DEF Storing, Moved, Kept, Idle, NearX, NearY
<1> QED  BY <1>1, <1>2, <1>3, <1>4 DEF StepOf


\* A call begins.
Begun(m, pc, key, item) ==
  /\ m.pc = pc /\ m.key = key /\ m.item = item /\ m.back = "idle"
  /\ m.reg = [x |-> 0, y |-> 0]

LEMMA BeginIs ==
  ASSUME StepsType, NEW t \in Threads, NEW pc, NEW key, NEW item,
         th' = [th EXCEPT ![t] = [Idle EXCEPT !.pc = pc, !.key = key, !.item = item]],
         cur' = cur
  PROVE  Only(t) /\ Begun(th'[t], pc, key, item)
<1> DEFINE m == [Idle EXCEPT !.pc = pc, !.key = key, !.item = item]
<1>1. Shaped(m) /\ Begun(m, pc, key, item)
  BY DEF Idle, Shaped, Coords, Begun
<1>2. DOMAIN cur' = Coords
  BY DEF StepsType
<1> HIDE DEF m
<1>3. th' = [th EXCEPT ![t] = m]
  BY DEF m
<1> QED  BY <1>1, <1>2, <1>3, OneMoves DEF Only

KeyBegun(key, item) ==
  /\ key \in {"idle", "atY", "readY", "backX", "clear"}
  /\ th["keyboard"].pc = "idle" /\ cur' = cur
  /\ th' = [th EXCEPT !["keyboard"] = [Idle EXCEPT !.pc = "getY", !.key = key, !.item = item]]

LEMMA KeyBegins ==
  ASSUME BeginKey
  PROVE  \E key, item : KeyBegun(key, item)
<1>1. ASSUME NEW c \in Chars, BeginChar(c)  PROVE KeyBegun("atY", <<"typed", c>>)
  BY <1>1 DEF BeginChar, Begin, KeyBegun
<1>2. BeginEnter => KeyBegun("readY", <<"typed", NewLine>>)
  BY DEF BeginEnter, Begin, KeyBegun
<1>3. BeginBackspace => KeyBegun("backX", Blank)
  BY DEF BeginBackspace, Begin, KeyBegun
<1>4. BeginClear => KeyBegun("clear", Blank)
  BY DEF BeginClear, Begin, KeyBegun
<1>5. BeginOther => KeyBegun("idle", Blank)
  BY DEF BeginOther, Begin, KeyBegun
<1> QED  BY <1>1, <1>2, <1>3, <1>4, <1>5 DEF BeginKey

LEMMA StepsStart == StepsInit => StepsInv
<1> SUFFICES ASSUME StepsInit  PROVE StepsInv
  OBVIOUS
<1>1. th = [t \in Threads |-> Idle] /\ cur = [x |-> 0, y |-> 0]
  BY DEF StepsInit
<1>2. StepsType
  BY <1>1, IdleShape DEF StepsType, Coords
<1>3. th["program"] = Idle /\ th["keyboard"] = Idle
  BY <1>1 DEF Threads
<1>4. ProgAt(Idle) /\ KeyAt(Idle.pc, Idle, cur)
  BY <1>1, Bounds DEF ProgAt, ProgPc, WideX, KeyAt, KeyPc, KeepsX, KeepsY, NearX, NearY, Idle
<1> QED  BY <1>2, <1>3, <1>4 DEF StepsInv

LEMMA StepsKeep ==
  ASSUME StepsInv, ~Preempt, [StepsNext]_allvars
  PROVE  StepsInv'
<1> DEFINE P == th["program"]
           K == th["keyboard"]
<1>1. StepsType /\ ProgAt(P) /\ KeyAt(P.pc, K, cur) /\ "program" \in Threads /\ "keyboard" \in Threads
  BY DEF StepsInv, Threads
<1>2. ASSUME NEW item \in Items("output"), Scheduled("program"), BeginOutput(item)
      PROVE  StepsInv'
  <2>1. /\ P.pc = "idle" /\ K.pc = "idle" /\ cur' = cur
        /\ th' = [th EXCEPT !["program"] =
                    [Idle EXCEPT !.pc = PutStart(item), !.key = "idle", !.item = item]]
    BY <1>2 DEF Scheduled, BeginOutput, Begin
  <2>2. Only("program") /\ Begun(P', PutStart(item), "idle", item)
    BY <1>1, <2>1, BeginIs
  <2>3. K' = K
    BY <1>1, <2>2 DEF Only
  <2>4. P'.pc \in {"readY", "atY"} /\ P'.reg.x = 0 /\ P'.reg.y = 0
    BY <2>2 DEF Begun, PutStart
  <2> HIDE DEF P, K
  <2>5. ProgAt(P')
    BY <1>1, <2>4 DEF ProgAt, ProgPc, WideX
  <2>6. KeyAt(P'.pc, K, cur)
    BY <1>1, <2>1, <2>4 DEF KeyAt, KeepsX, KeepsY, NearX, NearY, WideX, WideY
  <2> QED  BY <2>1, <2>2, <2>3, <2>5, <2>6 DEF StepsInv, Only, P, K
<1>3. CASE BeginKey
  <2>1. PICK key, item : KeyBegun(key, item)
    BY <1>3, KeyBegins
  <2>2. K.pc = "idle" /\ cur' = cur /\ key \in {"idle", "atY", "readY", "backX", "clear"}
    BY <2>1 DEF KeyBegun
  <2>3. Only("keyboard") /\ Begun(K', "getY", key, item)
    BY <1>1, <2>1, BeginIs DEF KeyBegun
  <2>4. P' = P
    BY <1>1, <2>3 DEF Only
  <2>5. K'.pc = "getY" /\ K'.key = key /\ K'.reg.x = 0 /\ K'.reg.y = 0
    BY <2>3 DEF Begun
  <2> HIDE DEF P, K
  <2>6. KeyAt(P.pc, K', cur)
    BY <1>1, <2>2, <2>5 DEF KeyAt, KeyPc, KeepsX, KeepsY
  <2> QED  BY <1>1, <2>2, <2>3, <2>4, <2>6 DEF StepsInv, Only, P, K
<1>4. CASE Scheduled("program") /\ Step("program")
  <2>1. K.pc = "idle"
    BY <1>4 DEF Scheduled
  <2>2. Only("program") /\ StepOf(P, cur, P', cur')
    BY <1>1, <1>4, StepIs
  <2>3. K' = K
    BY <1>1, <2>2 DEF Only
  <2> HIDE DEF P, K
  <2>4. ProgAt(P') /\ KeyAt(P'.pc, K, cur')
    BY <1>1, <2>1, <2>2, ProgGoes
  <2> QED  BY <2>2, <2>3, <2>4 DEF StepsInv, Only, P, K
<1>5. CASE Step("keyboard")
  <2>1. Only("keyboard") /\ StepOf(K, cur, K', cur')
    BY <1>1, <1>5, StepIs
  <2>2. P' = P
    BY <1>1, <2>1 DEF Only
  <2> HIDE DEF P, K
  <2>3. KeyAt(P.pc, K', cur')
    BY <1>1, <2>1, KeyGoes
  <2> QED  BY <1>1, <2>1, <2>2, <2>3 DEF StepsInv, Only, P, K
<1>6. CASE UNCHANGED allvars
  BY <1>1, <1>6 DEF StepsInv, StepsType, allvars, steps
<1> QED
  BY <1>2, <1>3, <1>4, <1>5, <1>6 DEF StepsNext, Threads

\* The handler, wherever it comes into putc_modified, and putc_modified after it
\* keep cursor and local variables in their bounds.
THEOREM StepsInvariant == ~Preempt => (StepsSpec => []StepsInv)
<1> SUFFICES ASSUME ~Preempt PROVE StepsSpec => []StepsInv
  OBVIOUS
<1>1. StepsInv /\ [StepsNext]_allvars => StepsInv'
  BY StepsKeep
<1> QED  BY <1>1, StepsStart, PTL DEF StepsSpec

\* Wherever the handler comes into a program's output, the cursor is on the screen
\* once both calls are over (putc, putc_modified and handlebackspace of lib.c).
THEOREM CursorAlwaysReturns == ~Preempt => (StepsSpec => []CursorReturns)
<1> SUFFICES ASSUME ~Preempt PROVE StepsSpec => []CursorReturns
  OBVIOUS
<1>1. StepsInv => CursorReturns
  <2> SUFFICES ASSUME StepsInv, AtRest  PROVE <<cur.y, cur.x>> \in Positions
    BY DEF CursorReturns
  <2>1. th["program"].pc = "idle" /\ th["keyboard"].pc = "idle"
    BY DEF AtRest, Threads
  <2>2. cur.x \in Nat /\ cur.y \in Nat /\ cur.x < Cols /\ cur.y < Rows
    BY <2>1 DEF StepsInv, KeyAt, KeepsX, KeepsY, NearX, NearY, WideX, WideY
  <2> QED  BY <2>2, Bounds DEF Positions
<1> QED  BY <1>1, StepsInvariant, PTL

\* No character is stored before the screen or further than the first place behind
\* the row below it (lib.c:347, 390, 112), wherever the handler comes in.
THEOREM StoresAreNear == ~Preempt => (StepsSpec => []StoresNear)
<1> SUFFICES ASSUME ~Preempt PROVE StepsSpec => []StoresNear
  OBVIOUS
<1>1. StepsInv => StoresNear
  <2> SUFFICES ASSUME StepsInv, NEW t \in Threads, th[t].pc = "store"
               PROVE  Place(th[t].reg) \in 0 .. (Rows + 1) * Cols
    BY DEF StoresNear
  <2> DEFINE rx == th[t].reg.x
             ry == th[t].reg.y
  <2>1. rx \in Nat /\ ry \in Nat /\ rx <= Cols /\ ry <= Rows
    <3>1. CASE t = "program"
      BY <3>1, Bounds DEF StepsInv, ProgAt
    <3>2. CASE t = "keyboard"
      BY <3>2, Bounds DEF StepsInv, KeyAt
    <3> QED  BY <3>1, <3>2 DEF Threads
  <2>2. Place(th[t].reg) = Cols * ry + rx
    BY DEF Place
  <2> HIDE DEF rx, ry
  <2>3. ry * Cols <= Rows * Cols /\ (Rows + 1) * Cols = Rows * Cols + Cols
    BY <2>1, Bounds, Monotone, LinFacts
  <2>4. ry * Cols \in Nat /\ Rows * Cols \in Nat /\ Cols * ry = ry * Cols
    <3>1. \A a, b \in Nat : a * b \in Nat /\ a * b = b * a
      OBVIOUS
    <3> QED  BY <2>1, <3>1, Bounds
  <2> QED  BY <2>1, <2>2, <2>3, <2>4, Bounds
<1> QED  BY <1>1, StepsInvariant, PTL

(***************************************************************************)
(* The steps add up to the actions of Screen.  While calls do not overlap, *)
(* what is left of the call in progress, from its local variables l, the   *)
(* cursor c and the memory m, leads to the text T and the cursor Y, X that *)
(* Screen had at once.                                                     *)
(***************************************************************************)
Rolled(m) == [p \in Positions |-> IF p[1] = Rows-1 THEN Blank ELSE m[<<p[1] + 1, p[2]>>]]
Placed(m, cy, cx, i) == [m EXCEPT ![<<cy, cx>>] = i]

RowAfter(m, cy, T, Y, X) ==
  IF cy + 1 < Rows THEN T = m /\ Y = cy + 1 /\ X = 0
                   ELSE T = Rolled(m) /\ Y = Rows-1 /\ X = 0

CharAfter(m, cy, cx, T, Y, X) ==
  IF cx + 1 < Cols THEN T = m /\ Y = cy /\ X = cx + 1 ELSE RowAfter(m, cy, T, Y, X)

\* The character, or the blank of handlebackspace.
StoreAfter(i, m, cy, cx, T, Y, X) ==
  IF i = Blank THEN T = Placed(m, cy, cx, i) /\ Y = cy /\ X = cx
               ELSE CharAfter(Placed(m, cy, cx, i), cy, cx, T, Y, X)

BackAfter(m, cy, cx, T, Y, X) ==
  /\ Y = IF cx > 0 \/ cy = 0 THEN cy ELSE cy - 1
  /\ X = IF cx > 0 THEN cx - 1 ELSE IF cy = 0 THEN 0 ELSE Cols - 1
  /\ T = Placed(m, Y, X, Blank)

KeyAfter(key, i, m, cy, cx, T, Y, X) ==
  /\ key \in {"idle", "atY", "readY", "backX", "clear"}
  /\ key = "idle" => T = m /\ Y = cy /\ X = cx
  /\ key = "atY" => StoreAfter(i, m, cy, cx, T, Y, X)
  /\ key = "readY" => RowAfter(m, cy, T, Y, X)
  /\ key = "backX" => i = Blank /\ BackAfter(m, cy, cx, T, Y, X)
  /\ key = "clear" => T = Empty /\ Y = 0 /\ X = 0

\* What the registers hold.
RegsAt(l, c) ==
  /\ l.pc \in {"getX", "setX", "setY", "atX", "store", "addY", "sumX", "putY", "up"}
       => l.reg.y = c.y
  /\ l.pc \in {"setX", "store", "addX", "putModX", "putY", "left"} => l.reg.x = c.x
  /\ l.pc \in {"scroll", "lastRow", "firstCol"} => l.back \in Backs

Leads(l, c, m, T, Y, X) ==
  /\ l.pc = "idle" => T = m /\ Y = c.y /\ X = c.x
  /\ l.pc \in {"getY", "getX", "setX", "setY"} => KeyAfter(l.key, l.item, m, c.y, c.x, T, Y, X)
  /\ l.pc \in {"atY", "atX", "store"} => StoreAfter(l.item, m, c.y, c.x, T, Y, X)
  /\ l.pc \in {"readX", "addX"} => CharAfter(m, c.y, c.x, T, Y, X)
  /\ l.pc = "testX" => IF c.x < Cols THEN T = m /\ Y = c.y /\ X = c.x
                                     ELSE RowAfter(m, c.y, T, Y, X)
  /\ l.pc \in {"modX", "putModX", "lastTest", "sumY", "sumX", "putY"} =>
       T = m /\ Y = c.y /\ X = c.x
  /\ l.pc \in {"readY", "addY"} => RowAfter(m, c.y, T, Y, X)
  /\ l.pc = "testY" => IF c.y < Rows THEN T = m /\ Y = c.y /\ X = 0
                                     ELSE T = Rolled(m) /\ Y = Rows-1 /\ X = 0
  /\ l.pc = "zeroX" => T = m /\ Y = c.y /\ X = 0
  /\ l.pc = "scroll" => T = Rolled(m) /\ Y = Rows-1 /\ X = 0
  /\ l.pc \in {"lastRow", "firstCol"} => T = m /\ Y = Rows-1 /\ X = 0
  /\ l.pc = "firstCol" => c.y = Rows-1
  /\ l.pc \in {"backX", "backY", "decX", "left", "readUp", "up"} =>
       l.item = Blank /\ BackAfter(m, c.y, c.x, T, Y, X)
  /\ l.pc \in {"decX", "left"} => c.x > 0
  /\ l.pc \in {"backY", "readUp", "up"} => c.x = 0
  /\ l.pc \in {"readUp", "up"} => c.y > 0
  /\ l.pc = "endCol" => /\ l.item = Blank
                        /\ T = Placed(m, c.y, Cols-1, Blank) /\ Y = c.y /\ X = Cols-1
  /\ l.pc = "clear" => T = Empty /\ Y = 0 /\ X = 0
  /\ l.pc \in {"homeX", "homeY"} => T = m /\ Y = 0 /\ X = 0
  /\ l.pc = "homeY" => c.x = 0

Follows(l, c, m, T, Y, X) ==
  /\ c.x \in Nat /\ c.y \in Nat /\ NearX(l.pc, c.x) /\ NearY(l.pc, c.y)
  /\ RegsAt(l, c)
  /\ Leads(l, c, m, T, Y, X)

\* What a step does to the memory.
MemAfter(l, m, n) ==
  /\ l.pc = "store" => n = Placed(m, l.reg.y, l.reg.x, l.item)
  /\ l.pc = "scroll" => n = Rolled(m)
  /\ l.pc = "clear" => n = Empty
  /\ l.pc \notin {"store", "scroll", "clear"} => n = m

LEMMA Arithmetic ==
  /\ \A v \in Nat : v < Cols => v % Cols = v /\ v \div Cols = 0
  /\ \A v \in Nat : v < Rows => v % Rows = v
<1>1. ASSUME NEW n \in Nat, NEW v \in Nat, v < n
      PROVE  v % n = v /\ v \div n = 0
  <2>1. v = n * (v \div n) + (v % n) /\ v \div n \in Int /\ v % n \in 0 .. n-1
    BY <1>1
  <2>2. v \div n = 0
    BY <1>1
  <2> QED  BY <1>1, <2>1, <2>2
<1> QED  BY <1>1, Bounds

LEMMA FollowsOn ==
  ASSUME NEW l, NEW c, NEW k, NEW d, NEW m, NEW n, NEW T, NEW Y, NEW X,
         Follows(l, c, m, T, Y, X), StepOf(l, c, k, d), MemAfter(l, m, n)
  PROVE  Follows(k, d, n, T, Y, X)
<1> USE Bounds DEF Follows, RegsAt, Leads, MemAfter, NearX, NearY, WideX, WideY, Backs
<1>1. CASE Reading(l, c, k, d)
  BY <1>1 DEF Reading, ReadX, ReadY, Kept
<1>2. CASE Writing(l, c, k, d)
  <2>1. CASE l.pc = "setX"
    BY <1>2, <2>1 DEF Writing, WriteX, Moved, Kept, Idle
  <2>2. CASE l.pc = "setY"
    BY <1>2, <2>2 DEF Writing, WriteY, Moved, Kept, Idle, KeyAfter
  <2>3. CASE l.pc = "addX"
    BY <1>2, <2>3 DEF Writing, WriteX, Moved, Kept, Idle, CharAfter
  <2>4. CASE l.pc = "addY"
    BY <1>2, <2>4 DEF Writing, WriteY, Moved, Kept, Idle, RowAfter
  <2>5. CASE l.pc = "putModX"
    BY <1>2, <2>5, Arithmetic DEF Writing, WriteX, Moved, Kept, Idle
  <2>6. CASE l.pc = "putY"
    <3>1. c.x < Cols /\ c.y < Rows /\ l.reg.x = c.x /\ l.reg.y = c.y
      BY <2>6
    <3>2. c.x \div Cols = 0 /\ c.y % Rows = c.y /\ c.y + 0 = c.y
      BY <3>1, Arithmetic
    <3>3. (l.reg.y + (l.reg.x \div Cols)) % Rows = c.y
      BY <3>1, <3>2
    <3>4. k.pc = "idle" /\ d.x = c.x /\ d.y = c.y
      BY <1>2, <2>6, <3>3 DEF Writing, WriteY, Moved, Idle
    <3> QED  BY <2>6, <3>1, <3>4
  <2>7. CASE l.pc = "zeroX"
    BY <1>2, <2>7 DEF Writing, WriteX, Moved, Kept, Idle
  <2>8. CASE l.pc = "lastRow"
    BY <1>2, <2>8 DEF Writing, WriteY, Moved, Kept, Idle
  <2>9. CASE l.pc = "firstCol"
    BY <1>2, <2>9 DEF Writing, WriteX, Moved, Kept, Idle
  <2>10. CASE l.pc = "left"
    BY <1>2, <2>10 DEF Writing, WriteX, Moved, Kept, Idle, BackAfter, StoreAfter
  <2>11. CASE l.pc = "up"
    BY <1>2, <2>11 DEF Writing, WriteY, Moved, Kept, Idle, BackAfter
  <2>12. CASE l.pc = "endCol"
    BY <1>2, <2>12 DEF Writing, WriteX, Moved, Kept, Idle, StoreAfter
  <2>13. CASE l.pc = "homeX"
    BY <1>2, <2>13 DEF Writing, WriteX, Moved, Kept, Idle
  <2>14. CASE l.pc = "homeY"
    BY <1>2, <2>14 DEF Writing, WriteY, Moved, Kept, Idle
  <2> QED
    BY <1>2, <2>1, <2>2, <2>3, <2>4, <2>5, <2>6, <2>7, <2>8, <2>9, <2>10, <2>11, <2>12, <2>13, <2>14 DEF Writing
<1>3. CASE Testing(l, c, k, d)
  <2>1. CASE l.pc = "testX"
    BY <1>3, <2>1 DEF Testing, Tested, Kept, AfterScroll
  <2>2. CASE l.pc = "testY"
    BY <1>3, <2>2 DEF Testing, Tested, Kept, AfterScroll
  <2>3. CASE l.pc = "lastTest"
    BY <1>3, <2>3 DEF Testing, Tested, Kept, AfterScroll
  <2>4. CASE l.pc = "backX"
    BY <1>3, <2>4 DEF Testing, Tested, Kept, AfterScroll, BackAfter
  <2>5. CASE l.pc = "backY"
    BY <1>3, <2>5 DEF Testing, Tested, Kept, AfterScroll, BackAfter, StoreAfter
  <2> QED
    BY <1>3, <2>1, <2>2, <2>3, <2>4, <2>5 DEF Testing
<1>4. CASE Storing(l, c, k, d)
  BY <1>4 DEF Storing, Moved, Kept, Idle, StoreAfter
<1> QED  BY <1>1, <1>2, <1>3, <1>4 DEF StepOf


IsText(m) == m = [p \in Positions |-> m[p]]

\* The call in progress, of thread t.
Followed(t) ==
  /\ Follows(th[t], cur, mem, text, y, x)
  /\ \A u \in Threads \ {t} : th[u].pc = "idle"

FollowInv ==
  /\ StepsType
  /\ ~overlap => IsText(mem) /\ \E t \in Threads : Followed(t)

LEMMA IdleFollows ==
  ASSUME NEW l, NEW k, NEW c, NEW m, NEW T, NEW Y, NEW X,
         Follows(l, c, m, T, Y, X), l.pc = "idle", k.pc = "idle"
  PROVE  Follows(k, c, m, T, Y, X)
BY DEF Follows, RegsAt, Leads

\* While nothing overlaps, whoever runs is the one that is followed.
LEMMA Turn ==
  ASSUME FollowInv, NEW t \in Threads, ~Overlaps(t)
  PROVE  IsText(mem) /\ Followed(t)
<1>1. ~overlap /\ \A u \in Threads \ {t} : th[u].pc = "idle"
  BY DEF Overlaps
<1>2. PICK s \in Threads : Followed(s)
  BY <1>1 DEF FollowInv
<1>3. CASE s # t
  <2>1. th[s].pc = "idle" /\ th[t].pc = "idle"
    BY <1>1, <1>2, <1>3 DEF Followed
  <2>2. Follows(th[t], cur, mem, text, y, x)
    BY <1>2, <2>1, IdleFollows DEF Followed
  <2> QED  BY <1>1, <2>2 DEF FollowInv, Followed
<1> QED  BY <1>1, <1>2, <1>3 DEF FollowInv

LEMMA PutLeads ==
  ASSUME NEW item, item # Blank, Put(item)
  PROVE  IF item[2] = NewLine THEN RowAfter(text, y, text', y', x')
                              ELSE StoreAfter(item, text, y, x, text', y', x')
<1> DEFINE s == [text EXCEPT ![Cursor] = item]
<1>1. \A m : Advance(m) => RowAfter(m, y, text', y', x')
  BY DEF Advance, Scroll, RowAfter, Rolled
<1>2. s = Placed(text, y, x, item)
  BY DEF Placed, Cursor
<1>3. IF item[2] = NewLine THEN Advance(text)
      ELSE IF x + 1 < Cols THEN text' = s /\ x' = x + 1 /\ y' = y ELSE Advance(s)
  BY DEF Put
<1> HIDE DEF s
<1> QED  BY <1>1, <1>2, <1>3 DEF StoreAfter, CharAfter

LEMMA BackLeads ==
  ASSUME KeyBackspace, x \in Nat, y \in Nat
  PROVE  BackAfter(text, y, x, text', y', x')
<1>1. Retreat = << IF x > 0 \/ y = 0 THEN y ELSE y - 1,
                   IF x > 0 THEN x - 1 ELSE IF y = 0 THEN 0 ELSE Cols - 1 >>
  BY DEF Retreat, Cursor
<1>2. y' = Retreat[1] /\ x' = Retreat[2] /\ text' = [text EXCEPT ![Retreat] = Blank]
  BY DEF KeyBackspace
<1>3. Retreat = <<y', x'>>
  BY <1>1, <1>2
<1> QED  BY <1>1, <1>2, <1>3 DEF BackAfter, Placed

\* What a call does is what is left of it when it begins.
Starts(pc, key, item, m, cy, cx, T, Y, X) ==
  \/ pc = "readY" /\ RowAfter(m, cy, T, Y, X)
  \/ pc = "atY" /\ StoreAfter(item, m, cy, cx, T, Y, X)
  \/ pc = "getY" /\ KeyAfter(key, item, m, cy, cx, T, Y, X)

LEMMA BeginFollows ==
  ASSUME FollowInv, NEW t \in Threads, NEW pc, NEW key, NEW item, NEW ACTION act, NEW STATE count,
         Begin(t, pc, key, item, act, count),
         act /\ x \in Nat /\ y \in Nat => Starts(pc, key, item, text, y, x, text', y', x')
  PROVE  FollowInv'
<1>1. /\ th[t].pc = "idle" /\ cur' = cur /\ overlap' = Overlaps(t)
      /\ th' = [th EXCEPT ![t] = [Idle EXCEPT !.pc = pc, !.key = key, !.item = item]]
  BY DEF Begin
<1>2. Only(t) /\ Begun(th'[t], pc, key, item)
  BY <1>1, BeginIs DEF FollowInv
<1>3. ASSUME ~Overlaps(t)  PROVE IsText(mem') /\ Followed(t)'
  <2>1. act /\ mem' = mem
    BY <1>1, <1>3 DEF Begin
  <2>2. IsText(mem) /\ Followed(t)
    BY <1>3, Turn
  <2>3. /\ text = mem /\ y = cur.y /\ x = cur.x
        /\ cur.x \in Nat /\ cur.y \in Nat /\ cur.x < Cols /\ cur.y < Rows
    BY <1>1, <2>2 DEF Followed, Follows, Leads, NearX, NearY, WideX, WideY
  <2>4. Starts(pc, key, item, mem, cur.y, cur.x, text', y', x')
    BY <2>1, <2>3
  <2>5. /\ th'[t].pc = pc /\ th'[t].key = key /\ th'[t].item = item
        /\ pc \in {"readY", "atY", "getY"}
    BY <1>2, <2>4 DEF Begun, Starts
  <2> DEFINE k == th'[t]
  <2>6. k.pc = pc /\ k.key = key /\ k.item = item
    BY <2>5
  <2> HIDE DEF k
  <2>7. RegsAt(k, cur) /\ NearX(k.pc, cur.x) /\ NearY(k.pc, cur.y)
    BY <2>3, <2>5, <2>6 DEF RegsAt, NearX, NearY
  <2>8. Leads(k, cur, mem, text', y', x')
    BY <2>4, <2>5, <2>6 DEF Leads, Starts
  <2>9. Follows(k, cur, mem, text', y', x')
    BY <2>3, <2>7, <2>8 DEF Follows
  <2>10. \A u \in Threads \ {t} : th'[u].pc = "idle"
    BY <1>2, <2>2 DEF Only, Followed
  <2> QED  BY <1>1, <2>1, <2>2, <2>9, <2>10 DEF IsText, Followed, k
<1> QED  BY <1>1, <1>2, <1>3 DEF FollowInv, Only

LEMMA StoreMem ==
  ASSUME IsText(mem), NEW r, NEW i, r.y \in 0 .. Rows-1, r.x \in 0 .. Cols-1
  PROVE  [p \in Positions |-> IF Cols * p[1] + p[2] = Place(r) THEN i ELSE mem[p]]
           = Placed(mem, r.y, r.x, i)
<1> DEFINE q == <<r.y, r.x>>
<1>1. q \in Positions /\ q[1] = r.y /\ q[2] = r.x
  BY DEF Positions
<1>2. \A a, b \in Nat : a * b = b * a
  OBVIOUS
<1>3. \A p \in Positions : p[1] \in Nat /\ Cols * p[1] + p[2] = Lin(p)
  <2>1. \A p \in Positions : p[1] \in Nat /\ Cols * p[1] = p[1] * Cols
    BY <1>2, Bounds DEF Positions
  <2> QED  BY <2>1 DEF Lin
<1>4. Place(r) = Lin(q)
  BY <1>1, <1>3 DEF Place
<1>5. \A p \in Positions : Cols * p[1] + p[2] = Place(r) <=> p = q
  BY <1>1, <1>3, <1>4, LinFacts
<1> DEFINE f == [p \in Positions |-> IF Cols * p[1] + p[2] = Place(r) THEN i ELSE mem[p]]
           g == [p \in Positions |-> IF p = q THEN i ELSE mem[p]]
<1>6. f = g
  BY <1>5
<1>7. g = [mem EXCEPT ![q] = i]
  <2> HIDE DEF q
  <2>1. mem = [p \in Positions |-> mem[p]]
    BY DEF IsText
  <2> QED  BY <2>1, <1>1
<1> QED  BY <1>6, <1>7 DEF Placed

LEMMA StepMem ==
  ASSUME NEW t \in Threads, Step(t), ~Overlaps(t), IsText(mem), Followed(t)
  PROVE  MemAfter(th[t], mem, mem') /\ IsText(mem') /\ text' = text /\ y' = y /\ x' = x
<1> DEFINE pc == th[t].pc
<1>1. ASSUME NEW m, Go(t, m)
      PROVE  mem' = m /\ text' = text /\ y' = y /\ x' = x
  BY <1>1 DEF Go, vars
<1>2. ASSUME Go(t, mem), pc \notin {"store", "scroll", "clear"}
      PROVE  MemAfter(th[t], mem, mem') /\ IsText(mem') /\ text' = text /\ y' = y /\ x' = x
  BY <1>1, <1>2 DEF MemAfter
<1>3. CASE Read(t)
  <2>1. pc \notin {"store", "scroll", "clear"} /\ Go(t, mem)
    BY <1>3 DEF Read, Reads
  <2> QED  BY <1>2, <2>1
<1>4. CASE Write(t)
  <2>1. pc \notin {"store", "scroll", "clear"} /\ Go(t, mem)
    BY <1>4 DEF Write, Writes
  <2> QED  BY <1>2, <2>1
<1>5. CASE Test(t)
  <2>1. pc \notin {"store", "scroll", "clear"} /\ Go(t, mem)
    BY <1>5 DEF Test, Tests
  <2> QED  BY <1>2, <2>1
<1>6. CASE Store(t)
  <2> DEFINE l == th[t]
             m == [p \in Positions |-> IF Cols * p[1] + p[2] = Place(l.reg) THEN l.item ELSE mem[p]]
  <2>1. l.pc = "store" /\ Go(t, m)
    BY <1>6 DEF Store
  <2>2. l.reg.y \in 0 .. Rows-1 /\ l.reg.x \in 0 .. Cols-1
    BY <2>1, Bounds DEF Followed, Follows, RegsAt, NearX, NearY, WideX, WideY
  <2>3. m = Placed(mem, l.reg.y, l.reg.x, l.item)
    BY <2>2, StoreMem
  <2>4. mem' = m /\ text' = text /\ y' = y /\ x' = x
    BY <1>1, <2>1
  <2>5. IsText(m)
    BY DEF IsText
  <2> HIDE DEF m
  <2> QED  BY <2>1, <2>3, <2>4, <2>5 DEF MemAfter
<1>7. CASE ScrollRows(t)
  <2>1. pc = "scroll" /\ Go(t, Rolled(mem))
    BY <1>7 DEF ScrollRows, Rolled
  <2>2. IsText(Rolled(mem))
    BY DEF IsText, Rolled
  <2> QED  BY <1>1, <2>1, <2>2 DEF MemAfter
<1>8. CASE Clear(t)
  <2>1. pc = "clear" /\ Go(t, Empty)
    BY <1>8 DEF Clear
  <2>2. IsText(Empty)
    BY DEF IsText, Empty
  <2> QED  BY <1>1, <2>1, <2>2 DEF MemAfter
<1> QED  BY <1>3, <1>4, <1>5, <1>6, <1>7, <1>8 DEF Step

LEMMA StepFollows ==
  ASSUME FollowInv, NEW t \in Threads, Step(t)
  PROVE  FollowInv'
<1>1. Only(t) /\ StepOf(th[t], cur, th'[t], cur')
  BY StepIs DEF FollowInv
<1>2. overlap' = Overlaps(t)
  BY DEF Step, Read, Write, Test, Store, ScrollRows, Clear, Go
<1>3. ASSUME ~Overlaps(t)  PROVE IsText(mem') /\ Followed(t)'
  <2>1. IsText(mem) /\ Followed(t)
    BY <1>3, Turn
  <2>2. MemAfter(th[t], mem, mem') /\ IsText(mem') /\ text' = text /\ y' = y /\ x' = x
    BY <1>3, <2>1, StepMem
  <2>3. Follows(th'[t], cur', mem', text, y, x)
    BY <1>1, <2>1, <2>2, FollowsOn DEF Followed
  <2>4. \A u \in Threads \ {t} : th'[u].pc = "idle"
    BY <1>1, <2>1 DEF Only, Followed
  <2> QED  BY <2>2, <2>3, <2>4 DEF Followed
<1> QED  BY <1>1, <1>2, <1>3 DEF FollowInv, Only

LEMMA FollowStart == StepsInit => FollowInv
<1> SUFFICES ASSUME StepsInit  PROVE FollowInv
  OBVIOUS
<1>1. /\ th = [t \in Threads |-> Idle] /\ cur = [x |-> 0, y |-> 0]
      /\ mem = Empty /\ text = Empty /\ y = 0 /\ x = 0
  BY DEF StepsInit, Init
<1>2. StepsType
  BY <1>1, IdleShape DEF StepsType, Coords
<1>3. "program" \in Threads /\ th["program"] = Idle /\ \A u \in Threads : th[u].pc = "idle"
  BY <1>1 DEF Threads, Idle
<1>4. Follows(Idle, cur, mem, text, y, x)
  BY <1>1, Bounds DEF Follows, RegsAt, Leads, NearX, NearY, Idle
<1>5. IsText(mem)
  BY <1>1 DEF IsText, Empty
<1> QED  BY <1>2, <1>3, <1>4, <1>5 DEF FollowInv, Followed

LEMMA FollowKeep ==
  ASSUME FollowInv, [StepsNext]_allvars
  PROVE  FollowInv'
<1>0. "program" \in Threads /\ "keyboard" \in Threads
  BY DEF Threads
<1>1. ASSUME NEW item \in Items("output"), BeginOutput(item)  PROVE FollowInv'
  <2>1. item # Blank
    <3>1. item[1] = "output" /\ Blank[1] = "blank"
      BY DEF Items, Blank
    <3> QED  BY <3>1
  <2>2. Output(item) => Starts(PutStart(item), "idle", item, text, y, x, text', y', x')
    BY <2>1, PutLeads DEF Output, PutStart, Starts
  <2> QED  BY <1>0, <1>1, <2>2, BeginFollows DEF BeginOutput
<1>2. ASSUME NEW c \in Chars, BeginChar(c)  PROVE FollowInv'
  <2> DEFINE item == <<"typed", c>>
  <2>1. item # Blank /\ item[2] # NewLine
    BY ScreenAssumption DEF Blank
  <2>2. KeyChar(c) => Starts("getY", "atY", item, text, y, x, text', y', x')
    <3>1. KeyChar(c) => Put(item)
      BY DEF KeyChar
    <3> HIDE DEF item
    <3> QED  BY <2>1, <3>1, PutLeads DEF Starts, KeyAfter
  <2> QED  BY <1>0, <1>2, <2>2, BeginFollows DEF BeginChar
<1>3. CASE BeginEnter
  <2> DEFINE item == <<"typed", NewLine>>
  <2>1. item # Blank /\ item[2] = NewLine
    BY DEF Blank
  <2>2. KeyEnter => Starts("getY", "readY", item, text, y, x, text', y', x')
    <3>1. KeyEnter => Put(item)
      BY DEF KeyEnter
    <3> HIDE DEF item
    <3> QED  BY <2>1, <3>1, PutLeads DEF Starts, KeyAfter
  <2> QED  BY <1>0, <1>3, <2>2, BeginFollows DEF BeginEnter
<1>4. CASE BeginBackspace
  <2>1. KeyBackspace /\ x \in Nat /\ y \in Nat
          => Starts("getY", "backX", Blank, text, y, x, text', y', x')
    BY BackLeads DEF Starts, KeyAfter
  <2> QED  BY <1>0, <1>4, <2>1, BeginFollows DEF BeginBackspace
<1>5. CASE BeginClear
  <2>1. KeyClear => Starts("getY", "clear", Blank, text, y, x, text', y', x')
    BY DEF KeyClear, Starts, KeyAfter
  <2> QED  BY <1>0, <1>5, <2>1, BeginFollows DEF BeginClear
<1>6. CASE BeginOther
  <2>1. UNCHANGED vars => Starts("getY", "idle", Blank, text, y, x, text', y', x')
    BY DEF vars, Starts, KeyAfter
  <2> QED  BY <1>0, <1>6, <2>1, BeginFollows DEF BeginOther
<1>7. ASSUME NEW t \in Threads, Step(t)  PROVE FollowInv'
  BY <1>7, StepFollows
<1>8. CASE UNCHANGED allvars
  BY <1>8 DEF FollowInv, StepsType, Followed, IsText, allvars, steps, vars
<1> QED
  BY <1>1, <1>2, <1>3, <1>4, <1>5, <1>6, <1>7, <1>8 DEF StepsNext, BeginKey

\* Calls that have not overlapped leave cursor and text as the actions of Screen
\* have them, whatever order the reads, tests and remainders of putc,
\* putc_modified, scroll and handlebackspace (lib.c) come in.
THEOREM CallsDoAddUp == StepsSpec => []CallsAddUp
<1>1. FollowInv /\ [StepsNext]_allvars => FollowInv'
  BY FollowKeep
<1>2. FollowInv => CallsAddUp
  <2> SUFFICES ASSUME FollowInv, AtRest, ~overlap
               PROVE  mem = text /\ <<cur.y, cur.x>> = Cursor
    BY DEF CallsAddUp
  <2>1. PICK t \in Threads : Followed(t)
    BY DEF FollowInv
  <2> QED  BY <2>1 DEF AtRest, Followed, Follows, Leads, Cursor
<1> QED  BY <1>1, <1>2, FollowStart, PTL DEF StepsSpec
(***************************************************************************)
(* The same of the steps: until calls overlap each begins with an action   *)
(* of Screen, and from then on mixed holds.                                *)
(***************************************************************************)
Astray == overlap' /\ mixed'

LEMMA BeginAlone ==
  ASSUME NEW t, NEW pc, NEW key, NEW item, NEW ACTION act, NEW STATE count,
         Begin(t, pc, key, item, act, count)
  PROVE  (~overlap /\ ~overlap' /\ act) \/ Astray
<1>1. overlap' = Overlaps(t) /\ IF overlap' THEN Forget /\ noc' = count /\ mem' = Empty
                                            ELSE act /\ UNCHANGED mem
  BY DEF Begin
<1>2. overlap => overlap'
  BY <1>1 DEF Overlaps
<1>3. overlap' => mixed'
  BY <1>1 DEF Forget
<1> QED  BY <1>1, <1>2, <1>3, Zenon DEF Astray

LEMMA GoAlone ==
  ASSUME NEW t, NEW m, Go(t, m)
  PROVE  (~overlap /\ ~overlap' /\ UNCHANGED vars) \/ Astray
<1>1. overlap' = Overlaps(t) /\ IF overlap' THEN Forget /\ UNCHANGED noc ELSE UNCHANGED vars
  BY DEF Go
<1>2. overlap => overlap'
  BY <1>1 DEF Overlaps
<1>3. overlap' => mixed'
  BY <1>1 DEF Forget
<1> QED  BY <1>1, <1>2, <1>3, Zenon DEF Astray

LEMMA StepsAlone ==
  ASSUME [StepsNext]_allvars
  PROVE  (~overlap /\ ~overlap' /\ [Next]_vars) \/ Astray \/ UNCHANGED allvars
<1>1. ASSUME NEW item \in Items("output"), BeginOutput(item)
      PROVE  (~overlap /\ ~overlap' /\ Output(item)) \/ Astray
  BY <1>1, BeginAlone DEF BeginOutput
<1>2. ASSUME NEW c \in Chars, BeginChar(c)
      PROVE  (~overlap /\ ~overlap' /\ KeyChar(c)) \/ Astray
  BY <1>2, BeginAlone DEF BeginChar
<1>3. BeginEnter => (~overlap /\ ~overlap' /\ KeyEnter) \/ Astray
  BY BeginAlone DEF BeginEnter
<1>4. BeginBackspace => (~overlap /\ ~overlap' /\ KeyBackspace) \/ Astray
  BY BeginAlone DEF BeginBackspace
<1>5. BeginClear => (~overlap /\ ~overlap' /\ KeyClear) \/ Astray
  BY BeginAlone DEF BeginClear
<1>6. BeginOther => (~overlap /\ ~overlap' /\ UNCHANGED vars) \/ Astray
  BY BeginAlone DEF BeginOther
<1>7. ASSUME NEW t \in Threads, Step(t)
      PROVE  (~overlap /\ ~overlap' /\ UNCHANGED vars) \/ Astray
  BY <1>7, GoAlone DEF Step, Read, Write, Test, Store, ScrollRows, Clear
<1> QED
  BY <1>1, <1>2, <1>3, <1>4, <1>5, <1>6, <1>7 DEF StepsNext, BeginKey, Next

AloneInv ==
  /\ overlap => mixed
  /\ ~overlap => TypeOK /\ TypedInv /\ ShowInv

LEMMA AloneAlways == StepsSpec => []AloneInv
<1>1. StepsInit => AloneInv
  <2> SUFFICES ASSUME StepsInit  PROVE AloneInv
    OBVIOUS
  <2>1. Init /\ ~overlap
    BY DEF StepsInit
  <2> QED  BY <2>1, InitType, TypedInit, ShowInit DEF AloneInv
<1>2. AloneInv /\ [StepsNext]_allvars => AloneInv'
  <2> SUFFICES ASSUME AloneInv, [StepsNext]_allvars  PROVE AloneInv'
    OBVIOUS
  <2>1. CASE ~overlap /\ ~overlap' /\ [Next]_vars
    <3>1. TypeOK /\ TypedInv /\ ShowInv
      BY <2>1 DEF AloneInv
    <3>2. TypeOK' /\ TypedInv' /\ ShowInv'
      BY <2>1, <3>1, ScreenAssumption, StepType, TypedNext, ShowNext
    <3> QED  BY <2>1, <3>2 DEF AloneInv
  <2>2. CASE Astray
    BY <2>2 DEF Astray, AloneInv
  <2>3. CASE UNCHANGED allvars
    BY <2>3 DEF allvars, steps, vars, AloneInv, TypeOK, TypedInv, ShowInv, Cursor
  <2> QED  BY <2>1, <2>2, <2>3, StepsAlone
<1> QED  BY <1>1, <1>2, PTL DEF StepsSpec

\* Whatever program and keyboard handler do to the shared cursor, the screen
\* shows what was written and typed until their calls overlap or a program writes
\* into a line being typed (putc, putc_modified, scroll, handlebackspace).
THEOREM StepsShowText == StepsSpec => []ShowsText
<1>1. AloneInv => ShowsText
  <2> SUFFICES ASSUME AloneInv, ~mixed  PROVE ShowsText
    BY DEF ShowsText
  <2>1. TypeOK /\ ShowInv
    BY DEF AloneInv
  <2> QED  BY <2>1, ShowsIs DEF ShowInv
<1> QED  BY <1>1, AloneAlways, PTL

\* In the steps too a backspace takes back typed characters only (check_input's
\* numberofchars, handlebackspace).
THEOREM StepsEraseTyped == StepsSpec => ErasesTyped
<1>1. AloneInv => [KeyBackspace => mixed \/ text[Retreat][1] = "typed"]_vars
  BY BackTyped DEF AloneInv
<1>2. AloneInv /\ [StepsNext]_allvars => [KeyBackspace => mixed \/ text[Retreat][1] = "typed"]_vars
  BY <1>1
<1> QED  BY <1>2, AloneAlways, PTL DEF StepsSpec, ErasesTyped
=============================================================================
