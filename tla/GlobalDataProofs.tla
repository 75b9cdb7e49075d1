-------------------------- MODULE GlobalDataProofs --------------------------
(***************************************************************************)
(* What GlobalData guarantees for every width of words, every program and  *)
(* whatever memory holds: initialisers arrive, folding follows the text,   *)
(* and what the compiler may die of.                                       *)
(***************************************************************************)
EXTENDS GlobalData, Stepwise, SequenceTheorems

-----------------------------------------------------------------------------
(***************************************************************************)
(* One token, with folding as it is (isText = FALSE) and with the meaning  *)
(* of the text (TRUE).                                                     *)
(***************************************************************************)
Kinds == Leaves \cup Unary \cup Binary
Lexemes == [k : Kinds, v : Int]
Tokens(n) ==
  {t \in Lexemes : (t.k = "const" => t.v \in Word) /\ (t.k = "id" => t.v \in 1 .. n)}
Envs(n) == [1 .. n -> Int]

FoldLeaf(t, v) == CASE t.k = "const" -> t.v [] t.k = "id" -> v[t.v] [] t.k = "call" -> -1

LeafOf(isText, t, v) == IF isText THEN TextLeaf(t, v) ELSE FoldLeaf(t, v)
SignOf(isText, op, a) == IF isText THEN TextSign(op, a) ELSE UnaryValue(op, a)
ApplyOf(isText, op, a, b, zero) == IF isText THEN TextApply(op, a, b, zero) ELSE BinaryValue(op, a, b)

Step(isText, old, t, v, zero) ==
  IF t.k \in Leaves THEN Append(old, LeafOf(isText, t, v))
  ELSE IF t.k \in Unary THEN Append(Front(old), SignOf(isText, t.k, Last(old)))
  ELSE Append(Front(Front(old)), ApplyOf(isText, t.k, Last(Front(old)), Last(old), zero))

Needs(t) == IF t.k \in Leaves THEN 0 ELSE IF t.k \in Unary THEN 1 ELSE 2

\* f[i] is the stack after i tokens.
Stacks(isText, exp, v, zero, f) ==
  /\ f \in [0 .. Len(exp) -> Seq(Int)] /\ f[0] = <<>>
  /\ \A i \in 1 .. Len(exp) : f[i] = Step(isText, f[i - 1], exp[i], v, zero)

\* Where the text determines a value, folding has it.
Agree(f, h) ==
  /\ Len(f) = Len(h)
  /\ \A i \in 1 .. Len(f) : h[i] = Unknown \/ f[i] = h[i]

LEMMA WordFacts ==
  /\ Half \in Nat /\ Unknown \in Int /\ Trap \in Int
  /\ Unknown # Trap /\ Unknown # 0 /\ Trap # 0 /\ Unknown \notin Word /\ Trap \notin Word
  /\ 0 \in Word /\ Word \subseteq Int
  /\ \A n \in Int : Wrap(n) \in Word
<1>1. Half \in Nat \ {0}
  BY WordAssumption
<1>2. ASSUME NEW n \in Int PROVE Wrap(n) \in Word
  <2> DEFINE m == 2 * Half
  <2>1. m \in Nat \ {0} /\ n + Half \in Int
    BY <1>1
  <2>2. (n + Half) % m \in 0 .. m - 1
    <3> HIDE DEF m
    <3> QED BY <2>1
  <2> QED BY <1>1, <2>2 DEF Wrap, Word
<1> QED BY <1>1, <1>2 DEF Unknown, Trap, Word

LEMMA HostTypes ==
  ASSUME NEW a \in Int, NEW b \in Int, NEW op \in Binary
  PROVE  BinaryValue(op, a, b) \in Int /\ \A zero \in Int : TextApply(op, a, b, zero) \in Int
<1>1. op \in {"add", "sub", "mul", "div", "mod"}
  BY WordAssumption
<1>2. ASSUME op \in {"div", "mod"} => b # 0 PROVE Compute(op, a, b) \in Int
  <2>1. CASE Trap \in {a, b} \/ Unknown \in {a, b}
    BY <2>1, WordFacts DEF Compute
  <2>2. CASE Trap \notin {a, b} /\ Unknown \notin {a, b}
    <3>1. Compute(op, a, b) =
            CASE op = "add" -> Wrap(a + b)
              [] op = "sub" -> Wrap(a - b)
              [] op = "mul" -> Wrap(a * b)
              [] op = "div" -> IF a = -Half /\ b = -1 THEN Trap ELSE Truncated(a, b)
              [] op = "mod" -> IF a = -Half /\ b = -1 THEN Trap ELSE a - b * Truncated(a, b)
      BY <2>2 DEF Compute
    <3>2. CASE op = "add"
      BY <3>1, <3>2, WordFacts
    <3>3. CASE op = "sub"
      BY <3>1, <3>3, WordFacts
    <3>4. CASE op = "mul"
      <4>1. a * b \in Int
        OBVIOUS
      <4> QED BY <3>1, <3>4, <4>1, WordFacts
    <3>5. CASE op \in {"div", "mod"}
      <4>1. Truncated(a, b) \in Int
        <5> DEFINE x == IF a < 0 THEN -a ELSE a
                   y == IF b < 0 THEN -b ELSE b
        <5>1. x \in Nat /\ y \in Nat \ {0}
          BY <1>2, <3>5
        <5>2. x \div y \in Int
          <6> HIDE DEF x, y
          <6> QED BY <5>1
        <5> QED BY <5>2 DEF Truncated
      <4>2. b * Truncated(a, b) \in Int
        BY <4>1
      <4>3. CASE op = "div"
        BY <3>1, <4>1, <4>3, WordFacts
      <4>4. CASE op = "mod"
        <5>1. a - b * Truncated(a, b) \in Int
          BY <4>2
        <5> QED BY <3>1, <4>4, <5>1, WordFacts
      <4> QED BY <3>5, <4>3, <4>4
    <3> QED BY <1>1, <3>2, <3>3, <3>4, <3>5
  <2> QED BY <2>1, <2>2
<1>3. BinaryValue(op, a, b) \in Int
  BY <1>2, WordFacts DEF BinaryValue
<1>4. ASSUME NEW zero \in Int PROVE TextApply(op, a, b, zero) \in Int
  BY <1>2, WordFacts DEF TextApply
<1> QED BY <1>3, <1>4

LEMMA SignTypes ==
  ASSUME NEW a \in Int, NEW op \in Unary, NEW isText \in BOOLEAN
  PROVE  SignOf(isText, op, a) \in Int
<1>1. PICK b \in Int : b = -a
  OBVIOUS
<1>2. Wrap(-a) \in Int
  BY <1>1, WordFacts
<1> QED BY <1>2, WordFacts DEF SignOf, TextSign, UnaryValue, Unary

LEMMA LeafTypes ==
  ASSUME NEW n \in Nat, NEW t \in Tokens(n), t.k \in Leaves, NEW v \in Envs(n), NEW isText \in BOOLEAN
  PROVE  LeafOf(isText, t, v) \in Int
<1>1. /\ t.k = "const" => t.v \in Int
      /\ t.k = "id" => t.v \in 1 .. n /\ v[t.v] \in Int
  BY WordFacts DEF Tokens, Envs
<1>2. -1 \in Int /\ Unknown \in Int
  BY WordFacts
<1>3. TextLeaf(t, v) \in Int
  BY <1>1, <1>2 DEF TextLeaf, Leaves
<1>4. FoldLeaf(t, v) \in Int
  BY <1>1, <1>2 DEF FoldLeaf, Leaves
<1> QED BY <1>3, <1>4 DEF LeafOf

\* s is u and then a.
Split(s, u, a) ==
  /\ u \in Seq(Int) /\ a \in Int /\ u = Front(s) /\ a = Last(s)
  /\ Len(s) = Len(u) + 1 /\ Len(u) \in Nat
  /\ a = s[Len(u) + 1] /\ \A i \in 1 .. Len(u) : s[i] = u[i]

LEMMA FrontLast ==
  ASSUME NEW s \in Seq(Int), Len(s) >= 1
  PROVE  Split(s, Front(s), Last(s))
<1> DEFINE n == Len(s)
<1>1. n \in Nat /\ n >= 1 /\ \A i \in 1 .. n : s[i] \in Int
  OBVIOUS
<1>2. Front(s) = [i \in 1 .. n - 1 |-> s[i]]
  BY <1>1 DEF Front
<1>3. Front(s) \in Seq(Int) /\ Len(Front(s)) = n - 1 /\ \A i \in 1 .. n - 1 : Front(s)[i] = s[i]
  <2> HIDE DEF n
  <2>1. n - 1 \in Nat /\ \A i \in 1 .. n - 1 : s[i] \in Int
    BY <1>1
  <2> QED BY <1>2, <2>1
<1>4. Last(s) = s[n]
  BY <1>1 DEF Last
<1> QED BY <1>1, <1>3, <1>4 DEF Split

LEMMA StepTypes ==
  ASSUME NEW n \in Nat, NEW t \in Tokens(n), NEW v \in Envs(n), NEW zero \in Int,
         NEW isText \in BOOLEAN, NEW old \in Seq(Int), Len(old) >= Needs(t)
  PROVE  /\ Step(isText, old, t, v, zero) \in Seq(Int)
         /\ Len(Step(isText, old, t, v, zero)) = Len(old) - Needs(t) + 1
<1>1. t.k \in Kinds
  BY DEF Tokens, Lexemes
<1>2. CASE t.k \in Leaves
  <2>1. PICK x \in Int : x = LeafOf(isText, t, v)
    BY <1>2, LeafTypes
  <2> QED BY <1>2, <2>1 DEF Step, Needs
<1>3. CASE t.k \notin Leaves /\ t.k \in Unary
  <2>1. PICK s : Split(old, s, Last(old))
    BY <1>3, FrontLast DEF Needs
  <2>2. PICK x \in Int : x = SignOf(isText, t.k, Last(old))
    BY <1>3, <2>1, SignTypes DEF Split
  <2>3. Step(isText, old, t, v, zero) = Append(s, x)
    BY <1>3, <2>1, <2>2 DEF Step, Split
  <2> QED BY <1>3, <2>1, <2>3 DEF Needs, Split
<1>4. CASE t.k \notin Leaves /\ t.k \notin Unary
  <2>1. t.k \in Binary
    BY <1>1, <1>4 DEF Kinds
  <2>2. PICK s : Split(old, s, Last(old))
    BY <1>4, FrontLast DEF Needs
  <2>3. PICK u : Split(s, u, Last(s))
    <3>1. s \in Seq(Int) /\ Len(s) >= 1
      BY <1>4, <2>2 DEF Needs, Split
    <3> QED BY <3>1, FrontLast
  <2>4. PICK x \in Int : x = ApplyOf(isText, t.k, Last(s), Last(old), zero)
    BY <2>1, <2>2, <2>3, HostTypes DEF ApplyOf, Split
  <2>5. Step(isText, old, t, v, zero) = Append(u, x)
    BY <1>4, <2>2, <2>3, <2>4 DEF Step, Split
  <2> QED BY <1>4, <2>2, <2>3, <2>5 DEF Needs, Split
<1> QED BY <1>2, <1>3, <1>4

LEMMA ApplyAgrees ==
  ASSUME NEW op \in Binary, NEW zero \in {0, Unknown}
  PROVE  \A a, b, c, d \in Int : (c = Unknown \/ a = c) /\ (d = Unknown \/ b = d) =>
           TextApply(op, c, d, zero) = Unknown \/ BinaryValue(op, a, b) = TextApply(op, c, d, zero)
<1> SUFFICES ASSUME NEW a \in Int, NEW b \in Int, NEW c \in Int, NEW d \in Int,
                    c = Unknown \/ a = c, d = Unknown \/ b = d
             PROVE  TextApply(op, c, d, zero) = Unknown
                      \/ BinaryValue(op, a, b) = TextApply(op, c, d, zero)
  OBVIOUS
<1>1. CASE op \in {"div", "mod"} /\ d = 0
  BY <1>1, WordFacts DEF TextApply, BinaryValue
<1>2. CASE op \in {"div", "mod"} /\ d = Unknown
  BY <1>2, WordFacts DEF TextApply
<1>3. CASE op \notin {"div", "mod"} \/ d \notin {0, Unknown}
  <2>1. TextApply(op, c, d, zero) = Compute(op, c, d)
    BY <1>3, WordFacts DEF TextApply
  <2>2. CASE Trap \in {c, d}
    <3>1. Compute(op, c, d) = Trap
      BY <2>2 DEF Compute
    <3>2. Trap \in {a, b}
      BY <2>2, WordFacts
    <3>3. Compute(op, a, b) = Trap
      BY <3>2 DEF Compute
    <3>4. op \notin {"div", "mod"} \/ b # 0
      BY <1>3
    <3>5. BinaryValue(op, a, b) = Trap
      BY <3>3, <3>4 DEF BinaryValue
    <3> QED BY <2>1, <3>1, <3>5
  <2>3. CASE Trap \notin {c, d} /\ Unknown \in {c, d}
    <3>1. Compute(op, c, d) = Unknown
      BY <2>3 DEF Compute
    <3> QED BY <2>1, <3>1
  <2>4. CASE Trap \notin {c, d} /\ Unknown \notin {c, d}
    <3>1. a = c /\ b = d
      BY <2>4
    <3>2. BinaryValue(op, a, b) = Compute(op, a, b)
      BY <1>3, <3>1 DEF BinaryValue
    <3> QED BY <2>1, <3>1, <3>2
  <2> QED BY <2>2, <2>3, <2>4
<1> QED BY <1>1, <1>2, <1>3

LEMMA AgreeOnMore ==
  ASSUME NEW f \in Seq(Int), NEW h \in Seq(Int), Agree(f, h), NEW x \in Int, NEW y \in Int,
         y = Unknown \/ x = y
  PROVE  Agree(Append(f, x), Append(h, y))
<1>1. Len(f) = Len(h) /\ Len(f) \in Nat /\ \A i \in 1 .. Len(f) : h[i] = Unknown \/ f[i] = h[i]
  BY DEF Agree
<1>2. Len(Append(f, x)) = Len(f) + 1 /\ Len(Append(h, y)) = Len(f) + 1
  BY <1>1
<1>3. ASSUME NEW i \in 1 .. Len(f) + 1
      PROVE  Append(h, y)[i] = Unknown \/ Append(f, x)[i] = Append(h, y)[i]
  <2>1. CASE i = Len(f) + 1
    BY <1>1, <2>1
  <2>2. CASE i # Len(f) + 1
    <3>1. i \in 1 .. Len(f)
      BY <1>1, <2>2
    <3>2. Append(h, y)[i] = h[i] /\ Append(f, x)[i] = f[i]
      BY <1>1, <3>1
    <3> QED BY <1>1, <3>1, <3>2
  <2> QED BY <2>1, <2>2
<1> QED BY <1>2, <1>3 DEF Agree

LEMMA AgreeOnLess ==
  ASSUME NEW f, NEW h, Agree(f, h), NEW u, NEW a, Split(f, u, a), NEW w, NEW b, Split(h, w, b)
  PROVE  Agree(u, w) /\ (b = Unknown \/ a = b)
<1>1. /\ Len(f) = Len(h) /\ \A i \in 1 .. Len(f) : h[i] = Unknown \/ f[i] = h[i]
      /\ Len(u) \in Nat /\ Len(w) \in Nat /\ Len(f) = Len(u) + 1 /\ Len(h) = Len(w) + 1
      /\ a = f[Len(u) + 1] /\ b = h[Len(w) + 1]
      /\ \A i \in 1 .. Len(u) : f[i] = u[i]
      /\ \A i \in 1 .. Len(w) : h[i] = w[i]
  BY DEF Agree, Split
<1>2. Len(u) = Len(w)
  <2>1. \A i, j \in Nat : i + 1 = j + 1 => i = j
    OBVIOUS
  <2>2. Len(u) + 1 = Len(w) + 1
    BY <1>1
  <2> QED BY <1>1, <2>1, <2>2
<1>3. Len(u) + 1 \in 1 .. Len(f) /\ \A i \in 1 .. Len(u) : i \in 1 .. Len(f)
  BY <1>1
<1>4. b = Unknown \/ a = b
  BY <1>1, <1>2, <1>3
<1>5. \A i \in 1 .. Len(u) : w[i] = Unknown \/ u[i] = w[i]
  BY <1>1, <1>2, <1>3
<1> QED BY <1>2, <1>4, <1>5 DEF Agree

LEMMA StepAgrees ==
  ASSUME NEW n \in Nat, NEW t \in Tokens(n), t.k \notin {"pos", "neg"},
         NEW v \in Envs(n), NEW r \in Envs(n), NEW zero \in {0, Unknown},
         NEW f \in Seq(Int), NEW h \in Seq(Int), Agree(f, h), Len(f) >= Needs(t),
         t.k = "id" => r[t.v] = Unknown \/ v[t.v] = r[t.v]
  PROVE  Agree(Step(FALSE, f, t, v, zero), Step(TRUE, h, t, r, zero))
<1>1. t.k \in Kinds /\ Len(f) = Len(h) /\ Len(f) \in Nat /\ zero \in Int
      /\ \A i \in 1 .. Len(f) : h[i] = Unknown \/ f[i] = h[i]
  BY WordFacts DEF Tokens, Lexemes, Agree
<1>2. CASE t.k \in Leaves
  <2>1. PICK x \in Int, y \in Int : x = LeafOf(FALSE, t, v) /\ y = LeafOf(TRUE, t, r)
    BY <1>2, LeafTypes
  <2>2. y = Unknown \/ x = y
    BY <1>2, <2>1 DEF LeafOf, TextLeaf, FoldLeaf, Leaves
  <2>3. Step(FALSE, f, t, v, zero) = Append(f, x) /\ Step(TRUE, h, t, r, zero) = Append(h, y)
    BY <1>2, <2>1 DEF Step
  <2> QED BY <2>1, <2>2, <2>3, AgreeOnMore
<1>3. CASE t.k \notin Leaves /\ t.k \in Unary
  <2>1. Len(f) >= 1 /\ t.k = "not"
    BY <1>3 DEF Needs, Unary
  <2>2. PICK fs, a : Split(f, fs, a)
    BY <2>1, FrontLast
  <2>3. PICK hs, b : Split(h, hs, b)
    BY <1>1, <2>1, FrontLast
  <2>4. Agree(fs, hs) /\ (b = Unknown \/ a = b)
    BY <2>2, <2>3, AgreeOnLess
  <2>5. fs \in Seq(Int) /\ hs \in Seq(Int) /\ a \in Int /\ b \in Int
        /\ fs = Front(f) /\ a = Last(f) /\ hs = Front(h) /\ b = Last(h)
    BY <2>2, <2>3 DEF Split
  <2>6. PICK x \in Int, y \in Int : x = SignOf(FALSE, t.k, a) /\ y = SignOf(TRUE, t.k, b)
    BY <1>3, <2>5, SignTypes
  <2>7. y = Unknown \/ x = y
    BY <2>1, <2>4, <2>6, WordFacts DEF SignOf, TextSign, UnaryValue
  <2>8. Step(FALSE, f, t, v, zero) = Append(fs, x) /\ Step(TRUE, h, t, r, zero) = Append(hs, y)
    BY <1>3, <2>5, <2>6 DEF Step
  <2> QED BY <2>4, <2>5, <2>6, <2>7, <2>8, AgreeOnMore, ZenonT(40)
<1>4. CASE t.k \notin Leaves /\ t.k \notin Unary
  <2>1. Len(f) >= 2 /\ Len(f) >= 1 /\ Len(h) >= 1 /\ t.k \in Binary
    BY <1>1, <1>4 DEF Needs, Kinds
  <2>2. PICK fs, a : Split(f, fs, a)
    BY <1>1, <2>1, FrontLast
  <2>3. PICK hs, b : Split(h, hs, b)
    BY <1>1, <2>1, FrontLast
  <2>4. Agree(fs, hs) /\ (b = Unknown \/ a = b)
    BY <2>2, <2>3, AgreeOnLess
  <2>5. /\ fs \in Seq(Int) /\ hs \in Seq(Int) /\ a \in Int /\ b \in Int
        /\ fs = Front(f) /\ a = Last(f) /\ hs = Front(h) /\ b = Last(h)
        /\ Len(fs) >= 1 /\ Len(hs) >= 1
    <3>1. Len(f) = Len(fs) + 1 /\ Len(h) = Len(hs) + 1 /\ Len(fs) \in Nat /\ Len(hs) \in Nat
      BY <2>2, <2>3 DEF Split
    <3>2. Len(fs) >= 1 /\ Len(hs) >= 1
      <4>1. \A i, j \in Nat : i = j + 1 /\ i >= 2 => j >= 1
        OBVIOUS
      <4>2. Len(h) >= 2 /\ Len(f) \in Nat /\ Len(h) \in Nat
        BY <1>1, <2>1
      <4> QED BY <2>1, <3>1, <4>1, <4>2
    <3> QED BY <2>2, <2>3, <3>2 DEF Split
  <2>6. PICK fr, c : Split(fs, fr, c)
    BY <2>5, FrontLast
  <2>7. PICK hr, d : Split(hs, hr, d)
    BY <2>5, FrontLast
  <2>8. Agree(fr, hr) /\ (d = Unknown \/ c = d)
    BY <2>4, <2>5, <2>6, <2>7, AgreeOnLess
  <2>9. fr \in Seq(Int) /\ hr \in Seq(Int) /\ c \in Int /\ d \in Int
        /\ fr = Front(fs) /\ c = Last(fs) /\ hr = Front(hs) /\ d = Last(hs)
    BY <2>6, <2>7 DEF Split
  <2>10. PICK x \in Int, y \in Int :
           x = BinaryValue(t.k, c, a) /\ y = TextApply(t.k, d, b, zero)
    BY <1>1, <2>1, <2>5, <2>9, HostTypes
  <2>11. y = Unknown \/ x = y
    <3>1. PICK op \in Binary : op = t.k
      BY <2>1
    <3>2. (d = Unknown \/ c = d) /\ (b = Unknown \/ a = b)
      BY <2>4, <2>8
    <3>3. TextApply(op, d, b, zero) = Unknown \/ BinaryValue(op, c, a) = TextApply(op, d, b, zero)
      BY <2>5, <2>9, <3>2, ApplyAgrees
    <3> QED BY <2>10, <3>1, <3>3
  <2>12. Step(FALSE, f, t, v, zero) = Append(fr, x) /\ Step(TRUE, h, t, r, zero) = Append(hr, y)
    BY <1>4, <2>5, <2>9, <2>10 DEF Step, ApplyOf
  <2> QED BY <2>8, <2>9, <2>10, <2>11, <2>12, AgreeOnMore, ZenonT(40)
<1> QED BY <1>2, <1>3, <1>4

-----------------------------------------------------------------------------
\* After e the stack is s.
Ends(isText, e, v, zero, s) == \E f : Stacks(isText, e, v, zero, f) /\ f[Len(e)] = s

LEMMA EndsTypes ==
  ASSUME NEW T, NEW e \in Seq(T), NEW isText, NEW v, NEW zero, NEW s, Ends(isText, e, v, zero, s)
  PROVE  s \in Seq(Int)
<1>1. PICK f \in [0 .. Len(e) -> Seq(Int)] : f[Len(e)] = s
  BY DEF Ends, Stacks
<1>2. Len(e) \in 0 .. Len(e)
  OBVIOUS
<1> QED BY <1>1, <1>2

LEMMA EndsEmpty ==
  ASSUME NEW isText, NEW v, NEW zero
  PROVE  Ends(isText, <<>>, v, zero, <<>>)
<1> DEFINE f == [i \in 0 .. 0 |-> <<>>]
<1>1. Stacks(isText, <<>>, v, zero, f)
  BY DEF Stacks
<1>2. f[Len(<<>>)] = <<>>
  OBVIOUS
<1> HIDE DEF f
<1> QED BY <1>1, <1>2 DEF Ends

LEMMA EndsMore ==
  ASSUME NEW n \in Nat, NEW e \in Seq(Tokens(n)), NEW t \in Tokens(n), NEW v \in Envs(n),
         NEW zero \in Int, NEW isText \in BOOLEAN, NEW s, Ends(isText, e, v, zero, s),
         Len(s) >= Needs(t)
  PROVE  Ends(isText, Append(e, t), v, zero, Step(isText, s, t, v, zero))
<1> DEFINE T == Tokens(n)
           l == Len(e)
           next == Step(isText, s, t, v, zero)
<1>1. PICK f : Stacks(isText, e, v, zero, f) /\ f[l] = s
  BY DEF Ends
<1>2. l \in Nat /\ f \in [0 .. l -> Seq(Int)] /\ f[0] = <<>>
      /\ \A i \in 1 .. l : f[i] = Step(isText, f[i - 1], e[i], v, zero)
  BY <1>1 DEF Stacks
<1>3. next \in Seq(Int)
  <2>1. s \in Seq(Int)
    BY EndsTypes
  <2> QED BY <2>1, StepTypes
<1>4. Len(Append(e, t)) = l + 1 /\ Append(e, t)[l + 1] = t
      /\ \A i \in 1 .. l : Append(e, t)[i] = e[i]
  <2> HIDE DEF T
  <2>1. e \in Seq(T)
    BY DEF T
  <2> QED BY <2>1
<1> DEFINE g == [i \in 0 .. l + 1 |-> IF i = l + 1 THEN next ELSE f[i]]
<1> HIDE DEF next, l
<1>5. g \in [0 .. l + 1 -> Seq(Int)] /\ g[0] = <<>> /\ g[l + 1] = next
  BY <1>2, <1>3
<1>6. ASSUME NEW i \in 1 .. l + 1 PROVE g[i] = Step(isText, g[i - 1], Append(e, t)[i], v, zero)
  <2>1. CASE i = l + 1
    <3>1. g[i - 1] = s
      BY <1>1, <1>2, <2>1
    <3> QED BY <1>4, <1>5, <2>1, <3>1 DEF next
  <2>2. CASE i # l + 1
    <3>1. i \in 1 .. l /\ g[i] = f[i] /\ g[i - 1] = f[i - 1]
      BY <1>2, <2>2
    <3> HIDE DEF g
    <3> QED BY <1>2, <1>4, <3>1
  <2> QED BY <2>1, <2>2
<1> HIDE DEF g
<1>7. Stacks(isText, Append(e, t), v, zero, g)
  BY <1>4, <1>5, <1>6 DEF Stacks
<1> QED BY <1>4, <1>5, <1>7 DEF Ends, next

\* A literal at the end of an expression changes its sign.
Resigned(e) == Front(e) \o <<Negated(Last(e))>>

LEMMA LiteralNegated ==
  ASSUME NEW n \in Nat, NEW e \in Seq(Tokens(n)), e # <<>>, Last(e).k = "const", NEW l, l = Len(e)
  PROVE  /\ l \in Nat /\ l >= 1 /\ l \in 1 .. l
         /\ Last(e) = e[l] /\ e[l] \in Tokens(n) /\ e[l].k = "const" /\ e[l].v \in Word
         /\ Negated(e[l]) \in Tokens(n) /\ Negated(e[l]).k = "const"
         /\ Negated(e[l]).v = Wrap(-(e[l].v)) /\ Wrap(-(e[l].v)) \in Word
         /\ Resigned(e) \in Seq(Tokens(n)) /\ Len(Resigned(e)) = l
         /\ Resigned(e)[l] = Negated(e[l]) /\ \A i \in 1 .. l - 1 : Resigned(e)[i] = e[i]
<1> DEFINE T == Tokens(n)
           d == Resigned(e)
<1>2. l \in Nat /\ l >= 1 /\ l \in 1 .. l
  <2>1. l \in Nat /\ l >= 1
    <3> HIDE DEF T
    <3>1. e \in Seq(T)
      BY DEF T
    <3> QED BY <3>1
  <2> QED BY <2>1
<1>3. Last(e) = e[l] /\ e[l] \in Tokens(n) /\ e[l].k = "const" /\ e[l].v \in Word
  <2>1. Last(e) = e[l] /\ e[l] \in Tokens(n)
    BY <1>2 DEF Last
  <2> QED BY <2>1 DEF Tokens
<1>4. Negated(e[l]) \in Tokens(n) /\ Negated(e[l]).k = "const" /\ Negated(e[l]).v = Wrap(-(e[l].v))
      /\ Wrap(-(e[l].v)) \in Word
  <2>1. PICK c \in Int : c = e[l].v
    BY <1>3, WordFacts
  <2>2. Wrap(-(e[l].v)) \in Word /\ Wrap(-(e[l].v)) \in Int
    <3>1. PICK b \in Int : b = -c
      OBVIOUS
    <3> QED BY <2>1, <3>1, WordFacts
  <2>3. e[l] \in Lexemes
    BY <1>3 DEF Tokens
  <2> QED BY <1>3, <2>2, <2>3 DEF Negated, Tokens, Lexemes
<1>5. d \in Seq(T) /\ Len(d) = l /\ d[l] = Negated(e[l]) /\ \A i \in 1 .. l - 1 : d[i] = e[i]
  <2>1. e \in Seq(T) /\ Negated(e[l]) \in T
    BY <1>4
  <2> HIDE DEF T
  <2>2. Front(e) = [i \in 1 .. l - 1 |-> e[i]]
    BY <1>2, <2>1 DEF Front
  <2>3. PICK x \in T : x = Negated(Last(e))
    BY <1>3, <2>1
  <2>4. Front(e) \in Seq(T) /\ Len(Front(e)) = l - 1
    <3>1. l - 1 \in Nat /\ \A i \in 1 .. l - 1 : e[i] \in T
      BY <1>2, <2>1
    <3> QED BY <2>2, <3>1
  <2>5. d = Front(e) \o <<x>>
    BY <2>3 DEF Resigned
  <2> HIDE DEF d
  <2>6. d \in Seq(T) /\ Len(d) = l /\ d[l] = x
    <3>1. PICK q \in Seq(T) : q = Front(e) /\ Len(q) = l - 1
      BY <2>4
    <3>2. d = q \o <<x>> /\ l \in Nat
      BY <1>2, <2>5, <3>1
    <3>3. d \in Seq(T) /\ Len(d) = Len(q) + 1 /\ d[Len(q) + 1] = x
      BY <2>3, <3>2
    <3>4. Len(q) + 1 = l
      BY <3>1, <3>2
    <3> QED BY <3>3, <3>4
  <2>7. ASSUME NEW i \in 1 .. l - 1 PROVE d[i] = e[i]
    <3>1. d[i] = Front(e)[i]
      BY <1>2, <2>4, <2>5
    <3> QED BY <2>2, <3>1
  <2> QED BY <1>3, <2>3, <2>6, <2>7
<1> QED BY <1>2, <1>3, <1>4, <1>5

LEMMA EndsNegated ==
  ASSUME NEW n \in Nat, NEW e \in Seq(Tokens(n)), e # <<>>, Last(e).k = "const",
         NEW v \in Envs(n), NEW zero \in Int, NEW s, Ends(FALSE, e, v, zero, s)
  PROVE  /\ Len(s) >= 1 /\ Last(s) = Last(e).v
         /\ Ends(FALSE, Resigned(e), v, zero, Append(Front(s), Wrap(-Last(s))))
<1> DEFINE T == Tokens(n)
           l == Len(e)
           d == Resigned(e)
<1>1. PICK f : Stacks(FALSE, e, v, zero, f) /\ f[l] = s
  BY DEF Ends
<1>2. l \in Nat /\ l >= 1 /\ l \in 1 .. l
      /\ f \in [0 .. l -> Seq(Int)] /\ f[0] = <<>>
      /\ \A i \in 1 .. l : f[i] = Step(FALSE, f[i - 1], e[i], v, zero)
  <2>1. l \in Nat /\ l >= 1
    <3> HIDE DEF T
    <3>1. e \in Seq(T)
      BY DEF T
    <3> QED BY <3>1
  <2>2. /\ f \in [0 .. l -> Seq(Int)] /\ f[0] = <<>>
        /\ \A i \in 1 .. l : f[i] = Step(FALSE, f[i - 1], e[i], v, zero)
    BY <1>1 DEF Stacks
  <2>3. l \in 1 .. l
    <3> HIDE DEF l
    <3> QED BY <2>1
  <2> QED BY <2>1, <2>2, <2>3
<1>3. Last(e) = e[l] /\ e[l] \in Tokens(n) /\ e[l].k = "const" /\ e[l].v \in Word
  BY LiteralNegated
<1>4. Negated(e[l]) \in Tokens(n) /\ Negated(e[l]).k = "const" /\ Negated(e[l]).v = Wrap(-(e[l].v))
  BY LiteralNegated
<1>5. d \in Seq(T) /\ Len(d) = l /\ d[l] = Negated(e[l]) /\ \A i \in 1 .. l - 1 : d[i] = e[i]
  BY LiteralNegated
<1>6. l - 1 \in 0 .. l /\ f[l - 1] \in Seq(Int) /\ s = Append(f[l - 1], e[l].v)
  <2>1. l - 1 \in 0 .. l /\ f[l - 1] \in Seq(Int)
    <3> HIDE DEF l
    <3> QED BY <1>2
  <2>2. s = Step(FALSE, f[l - 1], e[l], v, zero)
    <3> HIDE DEF l
    <3> QED BY <1>1, <1>2
  <2>3. Step(FALSE, f[l - 1], e[l], v, zero) = Append(f[l - 1], e[l].v)
    BY <1>3 DEF Step, LeafOf, FoldLeaf, Leaves
  <2> QED BY <2>1, <2>2, <2>3
<1>7. Len(s) >= 1 /\ Last(s) = e[l].v /\ Front(s) = f[l - 1]
  <2>1. PICK q \in Seq(Int), x \in Int : q = f[l - 1] /\ x = e[l].v
    BY <1>3, <1>6, WordFacts
  <2>2. s = Append(q, x)
    BY <1>6, <2>1
  <2>3. Len(s) = Len(q) + 1 /\ s \in Seq(Int) /\ s[Len(q) + 1] = x
        /\ \A i \in 1 .. Len(q) : s[i] = q[i]
    BY <2>2
  <2>4. Last(s) = x
    BY <2>3 DEF Last
  <2>5. Front(s) = q
    <3>1. Front(s) = [i \in 1 .. Len(q) |-> s[i]]
      BY <2>3 DEF Front
    <3>2. q = [i \in 1 .. Len(q) |-> q[i]]
      OBVIOUS
    <3> QED BY <2>3, <3>1, <3>2
  <2> QED BY <2>1, <2>3, <2>4, <2>5
<1> DEFINE next == Append(f[l - 1], Wrap(-(e[l].v)))
           g == [i \in 0 .. l |-> IF i = l THEN next ELSE f[i]]
<1>8. next \in Seq(Int)
  <2>1. Wrap(-(e[l].v)) \in Int
    <3>1. Negated(e[l]).v \in Int
      BY <1>4 DEF Tokens, Lexemes
    <3> QED BY <1>4, <3>1
  <2> QED BY <1>6, <2>1
<1> HIDE DEF next, l, d
<1>9. g \in [0 .. l -> Seq(Int)] /\ g[0] = <<>> /\ g[l] = next
  BY <1>2, <1>8
<1>10. ASSUME NEW i \in 1 .. l PROVE g[i] = Step(FALSE, g[i - 1], d[i], v, zero)
  <2>1. CASE i = l
    <3>1. g[i - 1] = f[l - 1]
      BY <1>2, <2>1
    <3>2. Step(FALSE, f[l - 1], Negated(e[l]), v, zero) = next
      BY <1>4 DEF Step, LeafOf, FoldLeaf, Leaves, next
    <3> QED BY <1>5, <1>9, <2>1, <3>1, <3>2
  <2>2. CASE i # l
    <3>1. i \in 1 .. l - 1 /\ g[i] = f[i] /\ g[i - 1] = f[i - 1]
      BY <1>2, <2>2
    <3> HIDE DEF g
    <3> QED BY <1>2, <1>5, <3>1
  <2> QED BY <2>1, <2>2
<1> HIDE DEF g
<1>11. Stacks(FALSE, d, v, zero, g)
  BY <1>5, <1>9, <1>10 DEF Stacks
<1>12. Ends(FALSE, d, v, zero, next)
  BY <1>5, <1>9, <1>11 DEF Ends
<1> QED BY <1>3, <1>4, <1>5, <1>7, <1>12 DEF d, next

-----------------------------------------------------------------------------
\* The stack of Evaluate is the stack of Stacks.
Evaluation(isText, exp, v, zero, g) ==
  g = [n \in 0 .. Len(exp) |-> IF n = 0 THEN <<>> ELSE Step(isText, g[n - 1], exp[n], v, zero)]

LEMMA EvaluationEnds ==
  ASSUME NEW T, NEW e \in Seq(T), NEW isText, NEW v, NEW zero, NEW s, Ends(isText, e, v, zero, s),
         NEW g, Evaluation(isText, e, v, zero, g)
  PROVE  g[Len(e)] = s
<1> DEFINE l == Len(e)
<1>1. PICK f : Stacks(isText, e, v, zero, f) /\ f[l] = s
  BY DEF Ends
<1>2. l \in Nat /\ f[0] = <<>> /\ \A i \in 1 .. l : f[i] = Step(isText, f[i - 1], e[i], v, zero)
  BY <1>1 DEF Stacks
<1>3. g[0] = <<>> /\ \A i \in 1 .. l : g[i] = Step(isText, g[i - 1], e[i], v, zero)
  BY <1>2 DEF Evaluation
<1> HIDE DEF l
<1> DEFINE S == {i \in 0 .. l : g[i] = f[i]}
<1>4. 0 \in S
  BY <1>2, <1>3
<1>5. ASSUME NEW i \in 0 .. l, i < l, i \in S PROVE i + 1 \in S
  <2>1. i + 1 \in 1 .. l /\ i + 1 \in 0 .. l /\ (i + 1) - 1 = i
    BY <1>2, <1>5
  <2>2. g[i + 1] = Step(isText, g[i], e[i + 1], v, zero)
    BY <1>3, <2>1
  <2>3. f[i + 1] = Step(isText, f[i], e[i + 1], v, zero)
    BY <1>2, <2>1
  <2> QED BY <1>5, <2>1, <2>2, <2>3
<1>6. l \in S
  <2>1. \A i \in 0 .. l : i < l /\ i \in S => i + 1 \in S
    BY <1>5
  <2>2. l \in 0 .. l
    BY <1>2
  <2> HIDE DEF S
  <2> QED BY <1>2, <1>4, <2>1, <2>2, CountingUp
<1> QED BY <1>1, <1>6 DEF l

LEMMA EvaluationExists ==
  ASSUME NEW T, NEW e \in Seq(T), NEW isText, NEW v, NEW zero, NEW s, Ends(isText, e, v, zero, s)
  PROVE  \E g : Evaluation(isText, e, v, zero, g)
<1>1. PICK f : Stacks(isText, e, v, zero, f)
  BY DEF Ends
<1>2. Evaluation(isText, e, v, zero, f)
  <2>1. Len(e) \in Nat
    OBVIOUS
  <2>2. f = [n \in 0 .. Len(e) |-> f[n]] /\ f[0] = <<>>
        /\ \A i \in 1 .. Len(e) : f[i] = Step(isText, f[i - 1], e[i], v, zero)
    BY <1>1 DEF Stacks
  <2>3. \A n \in 0 .. Len(e) : f[n] = IF n = 0 THEN <<>> ELSE Step(isText, f[n - 1], e[n], v, zero)
    <3>1. \A n \in 0 .. Len(e) : n # 0 => n \in 1 .. Len(e)
      BY <2>1
    <3> QED BY <2>2, <3>1
  <2> QED BY <2>2, <2>3 DEF Evaluation
<1> QED BY <1>2

LEMMA FoldEvaluated ==
  ASSUME NEW T, NEW e \in Seq(T), NEW zero, NEW s, Ends(FALSE, e, value, zero, s)
  PROVE  GetValue(e) = Last(s)
<1> DEFINE next(old, t) ==
             CASE t.k \in Leaves -> Append(old, LeafValue(t))
               [] t.k \in Unary -> Append(Front(old), UnaryValue(t.k, Last(old)))
               [] OTHER -> Append(Front(Front(old)), BinaryValue(t.k, Last(Front(old)), Last(old)))
           Path(g) == g = [n \in 0 .. Len(e) |-> IF n = 0 THEN <<>> ELSE next(g[n - 1], e[n])]
           stack == CHOOSE g : Path(g)
<1>1. \A old, t : next(old, t) = Step(FALSE, old, t, value, zero)
  BY DEF Step, LeafOf, SignOf, ApplyOf, LeafValue, FoldLeaf, Leaves, Unary
<1>2. GetValue(e) = Last(stack[Len(e)])
  BY DEF GetValue, Evaluate
<1> HIDE DEF next
<1>3. \A g : Path(g) <=> Evaluation(FALSE, e, value, zero, g)
  BY <1>1 DEF Evaluation
<1>4. Path(stack)
  <2>1. \E g : Path(g)
    BY <1>3, EvaluationExists
  <2> HIDE DEF Path
  <2> QED BY <2>1
<1> HIDE DEF Path, stack
<1>5. stack[Len(e)] = s
  BY <1>3, <1>4, EvaluationEnds
<1> QED BY <1>2, <1>5

LEMMA TextEvaluated ==
  ASSUME NEW T, NEW e \in Seq(T), NEW v, NEW zero, NEW s, Ends(TRUE, e, v, zero, s)
  PROVE  TextValue(e, v, zero) = Last(s)
<1> DEFINE next(old, t) ==
             CASE t.k \in Leaves -> Append(old, TextLeaf(t, v))
               [] t.k \in Unary -> Append(Front(old), TextSign(t.k, Last(old)))
               [] OTHER -> Append(Front(Front(old)), TextApply(t.k, Last(Front(old)), Last(old), zero))
           Path(g) == g = [n \in 0 .. Len(e) |-> IF n = 0 THEN <<>> ELSE next(g[n - 1], e[n])]
           stack == CHOOSE g : Path(g)
<1>1. \A old, t : next(old, t) = Step(TRUE, old, t, v, zero)
  BY DEF Step, LeafOf, SignOf, ApplyOf, Leaves, Unary
<1>2. TextValue(e, v, zero) = Last(stack[Len(e)])
  BY DEF TextValue, Evaluate
<1> HIDE DEF next
<1>3. \A g : Path(g) <=> Evaluation(TRUE, e, v, zero, g)
  BY <1>1 DEF Evaluation
<1>4. Path(stack)
  <2>1. \E g : Path(g)
    BY <1>3, EvaluationExists
  <2> HIDE DEF Path
  <2> QED BY <2>1
<1> HIDE DEF Path, stack
<1>5. stack[Len(e)] = s
  BY <1>3, <1>4, EvaluationEnds
<1> QED BY <1>2, <1>5

-----------------------------------------------------------------------------
(***************************************************************************)
(* Counting the operands on the stack.                                     *)
(***************************************************************************)
At(e, S) == {i \in DOMAIN e : e[i] \in S}
Depth(e) ==
  Cardinality({i \in DOMAIN e : e[i].k \in Leaves})
    - Cardinality({i \in DOMAIN e : e[i].k \notin Leaves \cup Unary})

LEMMA CountMore ==
  ASSUME NEW T, NEW e \in Seq(T), NEW t \in T, NEW S
  PROVE  /\ IsFiniteSet(At(e, S)) /\ Cardinality(At(e, S)) \in Nat
         /\ t \in S => Cardinality(At(Append(e, t), S)) = Cardinality(At(e, S)) + 1
         /\ t \notin S => Cardinality(At(Append(e, t), S)) = Cardinality(At(e, S))
<1> DEFINE l == Len(e)
<1>1. l \in Nat /\ DOMAIN e = 1 .. l /\ DOMAIN Append(e, t) = 1 .. l + 1
      /\ Append(e, t)[l + 1] = t /\ \A i \in 1 .. l : Append(e, t)[i] = e[i]
  OBVIOUS
<1> HIDE DEF l
<1>2. IsFiniteSet(At(e, S))
  <2>1. 1 \in Int /\ l \in Int
    BY <1>1
  <2>2. IsFiniteSet(1 .. l)
    BY ONLY <2>1, FS_Interval, Zenon
  <2>3. At(e, S) \subseteq 1 .. l
    BY <1>1 DEF At
  <2> QED BY <2>2, <2>3, FS_Subset
<1>3. Cardinality(At(e, S)) \in Nat
  BY <1>2, FS_CardinalityType
<1>4. CASE t \in S
  <2>1. At(Append(e, t), S) = At(e, S) \cup {l + 1} /\ l + 1 \notin At(e, S)
    BY <1>1, <1>4 DEF At
  <2> QED BY <1>2, <1>3, <1>4, <2>1, FS_AddElement
<1>5. CASE t \notin S
  <2>1. At(Append(e, t), S) = At(e, S)
    BY <1>1, <1>5 DEF At
  <2> QED BY <1>2, <1>3, <1>5, <2>1
<1> QED BY <1>4, <1>5

LEMMA DepthMore ==
  ASSUME NEW e \in Seq(Lexemes), NEW t \in Lexemes
  PROVE  Depth(e) \in Int /\ Depth(Append(e, t)) = Depth(e) + 1 - Needs(t)
<1> DEFINE A == {x \in Lexemes : x.k \in Leaves}
           B == {x \in Lexemes : x.k \notin Leaves \cup Unary}
           T == Lexemes
<1>1. \A x \in Seq(Lexemes) : Depth(x) = Cardinality(At(x, A)) - Cardinality(At(x, B))
  <2> SUFFICES ASSUME NEW x \in Seq(T) PROVE Depth(x) = Cardinality(At(x, A)) - Cardinality(At(x, B))
    OBVIOUS
  <2>1. \A i \in DOMAIN x : x[i] \in Lexemes
    <3> HIDE DEF T
    <3>1. \A i \in DOMAIN x : x[i] \in T
      OBVIOUS
    <3> QED BY <3>1 DEF T
  <2>2. At(x, A) = {i \in DOMAIN x : x[i].k \in Leaves}
    BY <2>1 DEF At
  <2>3. At(x, B) = {i \in DOMAIN x : x[i].k \notin Leaves \cup Unary}
    BY <2>1 DEF At
  <2> HIDE DEF A, B
  <2> QED BY <2>2, <2>3 DEF Depth
<1>2. Append(e, t) \in Seq(Lexemes)
  <2> HIDE DEF T
  <2>1. e \in Seq(T) /\ t \in T
    BY DEF T
  <2>2. Append(e, t) \in Seq(T)
    BY <2>1
  <2> QED BY <2>2 DEF T
<1>3. (t \in A <=> t.k \in Leaves) /\ (t \in B <=> t.k \notin Leaves \cup Unary)
  OBVIOUS
<1> DEFINE a == Cardinality(At(e, A))
           b == Cardinality(At(e, B))
           c == Cardinality(At(Append(e, t), A))
           d == Cardinality(At(Append(e, t), B))
<1> HIDE DEF A, B
<1>4. a \in Nat /\ (t \in A => c = a + 1) /\ (t \notin A => c = a)
  BY CountMore
<1>5. b \in Nat /\ (t \in B => d = b + 1) /\ (t \notin B => d = b)
  BY CountMore
<1>6. Depth(e) = a - b /\ Depth(Append(e, t)) = c - d
  BY <1>1, <1>2
<1> HIDE DEF a, b, c, d
<1>7. c - d = (a - b) + 1 - Needs(t)
  <2>1. CASE t.k \in Leaves
    BY <1>3, <1>4, <1>5, <2>1 DEF Needs
  <2>2. CASE t.k \notin Leaves /\ t.k \in Unary
    BY <1>3, <1>4, <1>5, <2>2 DEF Needs
  <2>3. CASE t.k \notin Leaves /\ t.k \notin Unary
    BY <1>3, <1>4, <1>5, <2>3 DEF Needs
  <2> QED BY <2>1, <2>2, <2>3
<1>8. a - b \in Int
  BY <1>4, <1>5
<1> QED BY <1>6, <1>7, <1>8

-----------------------------------------------------------------------------
(***************************************************************************)
(* The expression of the compiler and the text of the program.             *)
(***************************************************************************)
Literal(e) == Len(e) = 1 /\ e[1].k = "const"

Follows(v, r, m) == \A i \in 1 .. m : r[i] = Unknown \/ v[i] = r[i]

\* s and w: the stacks after e as folded and after its text.
Related(e, s, w, agree) ==
  /\ s \in Seq(Int) /\ w \in Seq(Int) /\ Len(s) = Len(w) /\ Len(s) = Depth(e)
  /\ Literal(e) => s = <<e[1].v>> /\ w = s
  /\ agree => Agree(s, w)

\* Of n variables, or more: those that t names are among the first n.
FoldsIn(e, t, m, free, v, r, zero) ==
  \E s, w : /\ Ends(FALSE, e, v, zero, s) /\ Ends(TRUE, t, r, zero, w)
            /\ Related(e, s, w, free /\ Follows(v, r, m))
Folds(e, t, n, free) ==
  \A m \in Nat : m >= n =>
    \A v, r \in Envs(m) : \A zero \in {0, Unknown} : FoldsIn(e, t, m, free, v, r, zero)

LEMMA TokensGrow ==
  ASSUME NEW n \in Nat, NEW m \in Nat, m >= n
  PROVE  Tokens(n) \subseteq Tokens(m) /\ Tokens(n) \subseteq Lexemes
         /\ \A e \in Seq(Tokens(n)) : e \in Seq(Tokens(m)) /\ e \in Seq(Lexemes)
<1>1. Tokens(n) \subseteq Tokens(m)
  <2>1. 1 .. n \subseteq 1 .. m
    OBVIOUS
  <2> QED BY <2>1 DEF Tokens
<1>2. Tokens(n) \subseteq Lexemes
  BY DEF Tokens
<1>3. \A e : \A S, T : S \subseteq T /\ e \in Seq(S) => e \in Seq(T)
  OBVIOUS
<1> QED BY <1>1, <1>2, <1>3

LEMMA FoldsEmpty ==
  ASSUME NEW n \in Nat, NEW free
  PROVE  Folds(<<>>, <<>>, n, free)
<1>1. Depth(<<>>) = 0
  <2>1. {i \in DOMAIN <<>> : <<>>[i].k \in Leaves} = {}
        /\ {i \in DOMAIN <<>> : <<>>[i].k \notin Leaves \cup Unary} = {}
    OBVIOUS
  <2> QED BY <2>1, FS_EmptySet DEF Depth
<1>2. <<>> \in Seq(Int) /\ Len(<<>>) = 0
  OBVIOUS
<1>3. ASSUME NEW agree PROVE Related(<<>>, <<>>, <<>>, agree)
  <2>1. Agree(<<>>, <<>>)
    BY DEF Agree
  <2> QED BY <1>1, <1>2, <2>1 DEF Related, Literal
<1> QED BY <1>3, EndsEmpty DEF Folds, FoldsIn

LEMMA StepLeaf ==
  ASSUME NEW isText \in BOOLEAN, NEW t, t.k = "const", NEW v, NEW zero
  PROVE  Step(isText, <<>>, t, v, zero) = <<t.v>>
BY DEF Step, LeafOf, FoldLeaf, TextLeaf, Leaves

LEMMA FoldsMore ==
  ASSUME NEW n \in Nat, NEW e \in Seq(Tokens(n)), NEW x \in Seq(Tokens(n)), NEW t \in Tokens(n),
         NEW free \in BOOLEAN, Folds(e, x, n, free), Depth(e) >= Needs(t),
         e # <<>> \/ t.k \in Leaves,
         NEW still \in BOOLEAN, still => free /\ t.k \notin {"pos", "neg"}
  PROVE  Folds(Append(e, t), Append(x, t), n, still)
<1> SUFFICES ASSUME NEW m \in Nat, m >= n, NEW v \in Envs(m), NEW r \in Envs(m), NEW zero \in {0, Unknown}
             PROVE  FoldsIn(Append(e, t), Append(x, t), m, still, v, r, zero)
  BY DEF Folds
<1>1. t \in Tokens(m) /\ e \in Seq(Tokens(m)) /\ x \in Seq(Tokens(m)) /\ zero \in Int
      /\ e \in Seq(Lexemes) /\ t \in Lexemes
  BY TokensGrow, WordFacts
<1>2. PICK s, w : /\ Ends(FALSE, e, v, zero, s) /\ Ends(TRUE, x, r, zero, w)
                  /\ Related(e, s, w, free /\ Follows(v, r, m))
  BY ZenonT(40) DEF Folds, FoldsIn
<1>3. /\ s \in Seq(Int) /\ w \in Seq(Int) /\ Len(s) = Len(w) /\ Len(s) = Depth(e)
      /\ free /\ Follows(v, r, m) => Agree(s, w)
  BY <1>2 DEF Related
<1>4. Len(s) >= Needs(t) /\ Len(w) >= Needs(t) /\ Len(s) \in Nat
  BY <1>3
<1> DEFINE p == Step(FALSE, s, t, v, zero)
           q == Step(TRUE, w, t, r, zero)
<1>5. Ends(FALSE, Append(e, t), v, zero, p) /\ Ends(TRUE, Append(x, t), r, zero, q)
  BY <1>1, <1>2, <1>4, EndsMore
<1>6. /\ p \in Seq(Int) /\ q \in Seq(Int)
      /\ Len(p) = Len(s) - Needs(t) + 1 /\ Len(q) = Len(w) - Needs(t) + 1
  <2>1. p \in Seq(Int) /\ Len(p) = Len(s) - Needs(t) + 1
    BY <1>1, <1>3, <1>4, StepTypes, ZenonT(40)
  <2>2. q \in Seq(Int) /\ Len(q) = Len(w) - Needs(t) + 1
    BY <1>1, <1>3, <1>4, StepTypes, ZenonT(40)
  <2> HIDE DEF p, q
  <2> QED BY <2>1, <2>2
<1>7. Len(p) = Len(q) /\ Len(p) = Depth(Append(e, t))
  <2>1. Depth(e) \in Int /\ Depth(Append(e, t)) = Depth(e) + 1 - Needs(t)
    BY <1>1, DepthMore
  <2>2. PICK k \in Nat : k = Needs(t)
    BY DEF Needs
  <2>3. PICK d \in Int : d = Depth(e)
    BY <2>1
  <2> HIDE DEF p, q
  <2>4. Len(p) = d - k + 1 /\ Len(q) = d - k + 1 /\ Depth(Append(e, t)) = d + 1 - k
    BY <1>3, <1>6, <2>1, <2>2, <2>3
  <2>5. d - k + 1 = d + 1 - k
    OBVIOUS
  <2> QED BY <2>4, <2>5
<1>8. ASSUME Literal(Append(e, t)) PROVE p = <<Append(e, t)[1].v>> /\ q = p
  <2> DEFINE T == Lexemes
  <2>1. e = <<>> /\ Append(e, t)[1] = t
    <3> HIDE DEF T
    <3>1. e \in Seq(T) /\ t \in T
      BY <1>1 DEF T
    <3>2. Len(Append(e, t)) = Len(e) + 1 /\ Len(e) \in Nat
      BY <3>1
    <3>3. Len(e) = 0
      BY <1>8, <3>2 DEF Literal
    <3> QED BY <3>1, <3>3
  <2>2. t.k = "const"
    BY <1>8, <2>1 DEF Literal
  <2>3. s = <<>> /\ w = <<>>
    <3>1. Depth(<<>>) = 0
      <4>1. {i \in DOMAIN <<>> : <<>>[i].k \in Leaves} = {}
            /\ {i \in DOMAIN <<>> : <<>>[i].k \notin Leaves \cup Unary} = {}
        OBVIOUS
      <4> QED BY <4>1, FS_EmptySet DEF Depth
    <3>2. Depth(e) = 0
      BY <2>1, <3>1
    <3>3. Len(s) = 0 /\ Len(w) = 0
      BY <1>3, <3>2
    <3>4. \A f \in Seq(Int) : Len(f) = 0 => f = <<>>
      OBVIOUS
    <3> QED BY <1>3, <3>3, <3>4
  <2>4. p = <<t.v>> /\ q = <<t.v>>
    BY <2>2, <2>3, StepLeaf
  <2> QED BY <2>1, <2>4
<1>9. ASSUME still, Follows(v, r, m) PROVE Agree(p, q)
  <2>1. Agree(s, w) /\ t.k \notin {"pos", "neg"}
    BY <1>3, <1>9
  <2>2. t.k = "id" => r[t.v] = Unknown \/ v[t.v] = r[t.v]
    <3>1. t.k = "id" => t.v \in 1 .. m
      BY <1>1 DEF Tokens
    <3> QED BY <1>9, <3>1 DEF Follows
  <2> QED BY <1>1, <1>3, <1>4, <2>1, <2>2, StepAgrees
<1> HIDE DEF p, q
<1>10. Related(Append(e, t), p, q, still /\ Follows(v, r, m))
  BY <1>6, <1>7, <1>8, <1>9 DEF Related
<1> QED BY <1>5, <1>10 DEF FoldsIn

\* The signs of the text that leave the expression alone.
SignToken(op) == Token(op, 0)

LEMMA SignTokens ==
  ASSUME NEW n \in Nat, NEW op \in Unary
  PROVE  SignToken(op) \in Tokens(n) /\ Needs(SignToken(op)) = 1 /\ SignToken(op).k = op
<1>1. op \in Kinds /\ op \notin Leaves /\ op # "const" /\ op # "id"
  BY DEF Kinds, Unary, Leaves
<1>2. SignToken(op).k = op
  BY DEF SignToken, Token
<1>3. SignToken(op) \in Tokens(n)
  BY <1>1 DEF Tokens, Lexemes, SignToken, Token
<1> QED BY <1>1, <1>2, <1>3 DEF Needs

LEMMA SignStep ==
  ASSUME NEW isText, NEW t, t.k \in Unary, NEW s, NEW v, NEW zero
  PROVE  Step(isText, s, t, v, zero) = Append(Front(s), SignOf(isText, t.k, Last(s)))
BY DEF Step, Leaves, Unary

LEMMA FoldsSign ==
  ASSUME NEW n \in Nat, NEW e \in Seq(Tokens(n)), NEW x \in Seq(Tokens(n)), NEW free,
         Folds(e, x, n, free), Depth(e) >= 1, ~Literal(e), NEW op \in Unary
  PROVE  Folds(e, Append(x, SignToken(op)), n, FALSE)
<1> SUFFICES ASSUME NEW m \in Nat, m >= n, NEW v \in Envs(m), NEW r \in Envs(m), NEW zero \in {0, Unknown}
             PROVE  FoldsIn(e, Append(x, SignToken(op)), m, FALSE, v, r, zero)
  BY DEF Folds
<1>1. PICK s, w : /\ Ends(FALSE, e, v, zero, s) /\ Ends(TRUE, x, r, zero, w)
                  /\ Related(e, s, w, free /\ Follows(v, r, m))
  BY ZenonT(40) DEF Folds, FoldsIn
<1>2. s \in Seq(Int) /\ w \in Seq(Int) /\ Len(s) = Len(w) /\ Len(s) = Depth(e)
  BY <1>1 DEF Related
<1>3. PICK t \in Tokens(m) : t = SignToken(op) /\ Needs(t) = 1
  BY SignTokens
<1>4. x \in Seq(Tokens(m)) /\ zero \in Int
  BY TokensGrow, WordFacts
<1>5. Len(w) >= Needs(t)
  BY <1>2, <1>3
<1>6. PICK q : q = Step(TRUE, w, t, r, zero)
  OBVIOUS
<1>7. Ends(TRUE, Append(x, t), r, zero, q)
  BY <1>1, <1>4, <1>5, <1>6, EndsMore
<1>8. q \in Seq(Int) /\ Len(q) = Len(w)
  <2>1. q \in Seq(Int) /\ Len(q) = Len(w) - Needs(t) + 1
    BY <1>2, <1>4, <1>5, <1>6, StepTypes
  <2>2. Len(w) - 1 + 1 = Len(w)
    BY <1>2
  <2> QED BY <1>3, <2>1, <2>2
<1>9. Related(e, s, q, FALSE /\ Follows(v, r, m))
  BY <1>2, <1>8 DEF Related
<1> QED BY <1>1, <1>3, <1>7, <1>9 DEF FoldsIn

LEMMA AgreeOnSigned ==
  ASSUME NEW s \in Seq(Int), NEW w \in Seq(Int), Len(s) >= 1, Len(w) >= 1,
         Last(s) \in Word, Agree(s, w)
  PROVE  /\ Agree(s, Append(Front(w), TextSign("pos", Last(w))))
         /\ Agree(Append(Front(s), Wrap(-Last(s))), Append(Front(w), TextSign("neg", Last(w))))
<1>1. PICK u, a : Split(s, u, a)
  BY FrontLast
<1>2. PICK z, b : Split(w, z, b)
  BY FrontLast
<1>3. u \in Seq(Int) /\ z \in Seq(Int) /\ a \in Int /\ b \in Int
      /\ u = Front(s) /\ a = Last(s) /\ z = Front(w) /\ b = Last(w)
  BY <1>1, <1>2 DEF Split
<1>4. Agree(u, z) /\ (b = Unknown \/ a = b)
  BY <1>1, <1>2, AgreeOnLess
<1>5. s = Append(u, a)
  <2>1. Len(s) = Len(u) + 1 /\ Len(u) \in Nat /\ a = s[Len(u) + 1] /\ \A i \in 1 .. Len(u) : s[i] = u[i]
    BY <1>1 DEF Split
  <2>2. PICK t : t = Append(u, a)
    OBVIOUS
  <2>3. /\ t \in Seq(Int) /\ Len(t) = Len(u) + 1 /\ t[Len(u) + 1] = a
        /\ \A i \in 1 .. Len(u) : t[i] = u[i]
    BY <1>3, <2>2
  <2>4. \A i \in 1 .. Len(s) : i \in 1 .. Len(u) \/ i = Len(u) + 1
    BY <2>1
  <2>5. \A i \in 1 .. Len(s) : s[i] = t[i]
    BY <2>1, <2>3, <2>4
  <2>6. Len(s) = Len(t)
    BY <2>1, <2>3
  <2>7. s = t
    BY <2>3, <2>5, <2>6, SeqEqual
  <2> QED BY <2>2, <2>7
<1>6. a \notin {Trap, Unknown} /\ TextSign("pos", b) \in Int /\ TextSign("neg", b) \in Int /\ Wrap(-a) \in Int
  <2>1. a \notin {Trap, Unknown}
    BY <1>3, WordFacts
  <2>2. "pos" \in Unary /\ "neg" \in Unary
    BY DEF Unary
  <2>3. SignOf(TRUE, "pos", b) \in Int /\ SignOf(TRUE, "neg", b) \in Int /\ SignOf(FALSE, "neg", a) \in Int
    BY <1>3, <2>2, SignTypes
  <2> QED BY <2>1, <2>3 DEF SignOf, UnaryValue
<1>7. TextSign("pos", b) = Unknown \/ a = TextSign("pos", b)
  BY <1>4, <1>6 DEF TextSign
<1>8. TextSign("neg", b) = Unknown \/ Wrap(-a) = TextSign("neg", b)
  BY <1>4, <1>6 DEF TextSign
<1>9. Agree(Append(u, a), Append(z, TextSign("pos", b)))
  BY <1>3, <1>4, <1>6, <1>7, AgreeOnMore
<1>10. Agree(Append(u, Wrap(-a)), Append(z, TextSign("neg", b)))
  BY <1>3, <1>4, <1>6, <1>8, AgreeOnMore
<1> QED BY <1>3, <1>5, <1>9, <1>10

LEMMA DepthResigned ==
  ASSUME NEW n \in Nat, NEW e \in Seq(Tokens(n)), e # <<>>, Last(e).k = "const"
  PROVE  /\ Depth(Resigned(e)) = Depth(e) /\ (Literal(Resigned(e)) <=> Literal(e))
         /\ Literal(e) => e[1] = Last(e) /\ Resigned(e)[1].v = Wrap(-(e[1].v))
<1> DEFINE l == Len(e)
           d == Resigned(e)
<1>1. l \in Nat /\ l >= 1 /\ Len(d) = l /\ Last(e) = e[l] /\ e[l].k = "const"
      /\ d[l].k = "const" /\ d[l].v = Wrap(-(e[l].v)) /\ \A i \in 1 .. l - 1 : d[i] = e[i]
  BY LiteralNegated
<1>2. DOMAIN e = 1 .. l /\ DOMAIN d = 1 .. l
  BY <1>1, LiteralNegated
<1> HIDE DEF l, d
<1>3. \A i \in 1 .. l : d[i].k = e[i].k
  <2>1. \A i \in 1 .. l : i # l => i \in 1 .. l - 1
    BY <1>1
  <2> QED BY <1>1, <2>1
<1>4. {i \in DOMAIN d : d[i].k \in Leaves} = {i \in DOMAIN e : e[i].k \in Leaves}
      /\ {i \in DOMAIN d : d[i].k \notin Leaves \cup Unary}
           = {i \in DOMAIN e : e[i].k \notin Leaves \cup Unary}
  BY <1>2, <1>3
<1>5. Depth(d) = Depth(e)
  BY <1>4 DEF Depth
<1>6. Literal(d) <=> Literal(e)
  <2>1. 1 \in 1 .. l
    BY <1>1
  <2> QED BY <1>1, <1>3, <2>1 DEF Literal, l
<1>7. Literal(e) => e[1] = Last(e) /\ d[1].v = Wrap(-(e[1].v))
  BY <1>1 DEF Literal, l
<1> QED BY <1>5, <1>6, <1>7 DEF d

LEMMA FoldsLiteral ==
  ASSUME NEW n \in Nat, NEW e \in Seq(Tokens(n)), e # <<>>, Last(e).k = "const",
         NEW x \in Seq(Tokens(n)), NEW free, Folds(e, x, n, free)
  PROVE  /\ Folds(e, Append(x, SignToken("pos")), n, free)
         /\ Folds(Resigned(e), Append(x, SignToken("neg")), n, free)
<1> SUFFICES ASSUME NEW m \in Nat, m >= n, NEW v \in Envs(m), NEW r \in Envs(m), NEW zero \in {0, Unknown}
             PROVE  /\ FoldsIn(e, Append(x, SignToken("pos")), m, free, v, r, zero)
                    /\ FoldsIn(Resigned(e), Append(x, SignToken("neg")), m, free, v, r, zero)
  BY DEF Folds
<1>0. FoldsIn(e, x, m, free, v, r, zero)
  BY DEF Folds
<1>1. PICK s, w : /\ Ends(FALSE, e, v, zero, s) /\ Ends(TRUE, x, r, zero, w)
                  /\ Related(e, s, w, free /\ Follows(v, r, m))
  BY <1>0 DEF FoldsIn
<1>2. /\ s \in Seq(Int) /\ w \in Seq(Int) /\ Len(s) = Len(w) /\ Len(s) = Depth(e)
      /\ Literal(e) => s = <<e[1].v>> /\ w = s
      /\ free /\ Follows(v, r, m) => Agree(s, w)
  BY <1>1 DEF Related
<1>3. e \in Seq(Tokens(m)) /\ x \in Seq(Tokens(m)) /\ zero \in Int
  BY TokensGrow, WordFacts
<1> DEFINE p == Append(Front(s), Wrap(-Last(s)))
           low(op) == Append(Front(w), TextSign(op, Last(w)))
<1>4. Len(s) >= 1 /\ Last(s) = Last(e).v /\ Ends(FALSE, Resigned(e), v, zero, p) /\ Last(s) \in Word
  <2>1. Last(e).v \in Word
    BY LiteralNegated
  <2>2. Len(s) >= 1 /\ Last(s) = Last(e).v /\ Ends(FALSE, Resigned(e), v, zero, p)
    BY <1>1, <1>3, EndsNegated
  <2> QED BY <2>1, <2>2
<1>5. ASSUME NEW op \in {"pos", "neg"}
      PROVE  /\ Ends(TRUE, Append(x, SignToken(op)), r, zero, low(op))
             /\ low(op) \in Seq(Int) /\ Len(low(op)) = Len(w)
  <2>1. op \in Unary
    BY DEF Unary
  <2>2. PICK t \in Tokens(m) : t = SignToken(op) /\ Needs(t) = 1
    BY <2>1, SignTokens
  <2>3. Len(w) >= Needs(t)
    BY <1>2, <1>4, <2>2
  <2>4. Step(TRUE, w, t, r, zero) = low(op)
    <3>1. t.k = op
      BY <2>1, <2>2, SignTokens
    <3>2. Step(TRUE, w, t, r, zero) = Append(Front(w), SignOf(TRUE, op, Last(w)))
      BY <2>1, <3>1, SignStep
    <3> QED BY <3>2 DEF SignOf
  <2>5. Ends(TRUE, Append(x, t), r, zero, low(op))
    BY <1>1, <1>3, <2>3, <2>4, EndsMore
  <2>6. low(op) \in Seq(Int) /\ Len(low(op)) = Len(w) - Needs(t) + 1
    <3>1. /\ Step(TRUE, w, t, r, zero) \in Seq(Int)
          /\ Len(Step(TRUE, w, t, r, zero)) = Len(w) - Needs(t) + 1
      BY <1>2, <1>3, <2>3, StepTypes
    <3> HIDE DEF low
    <3> QED BY <2>4, <3>1
  <2>7. Len(w) - 1 + 1 = Len(w)
    BY <1>2
  <2> QED BY <2>2, <2>5, <2>6, <2>7
<1>6. p \in Seq(Int) /\ Len(p) = Len(s)
  <2>1. p \in Seq(Int)
    <3>1. Resigned(e) \in Seq(Tokens(n))
      BY LiteralNegated
    <3> QED BY <1>4, <3>1, EndsTypes
  <2>2. Split(s, Front(s), Last(s))
    BY <1>2, <1>4, FrontLast
  <2>3. Front(s) \in Seq(Int) /\ Len(s) = Len(Front(s)) + 1
    BY <2>2 DEF Split
  <2> QED BY <2>1, <2>3
<1>7. ASSUME Literal(e)
      PROVE  /\ low("pos") = s
             /\ p = <<Resigned(e)[1].v>> /\ low("neg") = p
  <2>1. e[1] = Last(e) /\ Resigned(e)[1].v = Wrap(-(e[1].v))
    BY <1>7, DepthResigned
  <2>2. PICK c \in Int : c = e[1].v /\ c \notin {Trap, Unknown} /\ s = <<c>> /\ w = <<c>>
    BY <1>2, <1>4, <1>7, <2>1, WordFacts
  <2>3. Front(<<c>>) = <<>> /\ Last(<<c>>) = c
    BY DEF Front, Last
  <2>4. TextSign("pos", c) = c /\ TextSign("neg", c) = Wrap(-c)
    BY <2>2 DEF TextSign
  <2> QED BY <2>1, <2>2, <2>3, <2>4
<1>8. ASSUME free, Follows(v, r, m)
      PROVE  Agree(s, low("pos")) /\ Agree(p, low("neg"))
  BY <1>2, <1>4, <1>8, AgreeOnSigned
<1> HIDE DEF p, low
<1>9. Related(e, s, low("pos"), free /\ Follows(v, r, m))
  BY <1>2, <1>5, <1>7, <1>8 DEF Related
<1>10. Related(Resigned(e), p, low("neg"), free /\ Follows(v, r, m))
  BY <1>2, <1>5, <1>6, <1>7, <1>8, DepthResigned DEF Related
<1> QED BY <1>1, <1>4, <1>5, <1>9, <1>10 DEF FoldsIn

-----------------------------------------------------------------------------
(***************************************************************************)
(* Each of n entries is declared once in d or generated once in g.         *)
(***************************************************************************)
Declared(d, s) == \E i \in 1 .. Len(d) : \E j \in 1 .. Len(d[i]) : d[i][j] = s
Generated(g, s) == \E i \in 1 .. Len(g) : g[i] = s

OneEach(d, g, n) ==
  /\ d \in Seq(Seq(Nat)) /\ g \in Seq(Nat)
  /\ \A i \in 1 .. Len(d) : Len(d[i]) >= 1
  /\ \A i \in 1 .. Len(d) : \A j \in 1 .. Len(d[i]) : d[i][j] \in 1 .. n
  /\ \A i \in 1 .. Len(g) : g[i] \in 1 .. n
  /\ \A s \in 1 .. n : Generated(g, s) \/ Declared(d, s)
  /\ \A i, k \in 1 .. Len(d) : \A j \in 1 .. Len(d[i]) : \A l \in 1 .. Len(d[k]) :
       d[i][j] = d[k][l] => i = k /\ j = l
  /\ \A i, k \in 1 .. Len(g) : g[i] = g[k] => i = k
  /\ \A i \in 1 .. Len(g) : ~Declared(d, g[i])

\* e is d with n + 1 at the end of chain m.
Declares(e, d, m, n) ==
  /\ e \in Seq(Seq(Nat)) /\ Len(e) \in {Len(d), Len(d) + 1} /\ m = Len(e) /\ m >= 1
  /\ \A i \in 1 .. m - 1 : e[i] = d[i]
  /\ \A j \in 1 .. Len(e[m]) - 1 : m = Len(d) /\ e[m][j] = d[m][j]
  /\ e[m][Len(e[m])] = n + 1 /\ Len(e[m]) >= 1
  /\ m = Len(d) => Len(e[m]) = Len(d[m]) + 1
  /\ m = Len(d) + 1 => Len(e[m]) = 1

LEMMA OneEachDeclares ==
  ASSUME NEW n \in Nat, NEW d, NEW e, NEW m, OneEach(d, <<>>, n), Declares(e, d, m, n)
  PROVE  OneEach(e, <<>>, n + 1)
<1> DEFINE S == Seq(Nat)
<1>1. /\ d \in Seq(S) /\ e \in Seq(S)
      /\ \A i \in 1 .. Len(d) : Len(d[i]) >= 1
      /\ \A i \in 1 .. Len(d) : \A j \in 1 .. Len(d[i]) : d[i][j] \in 1 .. n
      /\ \A i, k \in 1 .. Len(d) : \A j \in 1 .. Len(d[i]) : \A l \in 1 .. Len(d[k]) :
           d[i][j] = d[k][l] => i = k /\ j = l
  BY DEF OneEach, Declares
<1>2. /\ Len(e) \in {Len(d), Len(d) + 1} /\ m = Len(e) /\ m >= 1
      /\ \A i \in 1 .. m - 1 : e[i] = d[i]
      /\ \A j \in 1 .. Len(e[m]) - 1 : m = Len(d) /\ e[m][j] = d[m][j]
      /\ e[m][Len(e[m])] = n + 1 /\ Len(e[m]) >= 1
      /\ m = Len(d) => Len(e[m]) = Len(d[m]) + 1
      /\ m = Len(d) + 1 => Len(e[m]) = 1
  BY DEF Declares
<1>3. /\ Len(d) \in Nat /\ m \in Nat /\ m \in 1 .. m
      /\ \A i \in 1 .. Len(d) : Len(d[i]) \in Nat
      /\ \A i \in 1 .. m : Len(e[i]) \in Nat
  <2>1. \A q \in S : Len(q) \in Nat
    OBVIOUS
  <2> HIDE DEF S
  <2>2. (\A i \in 1 .. Len(d) : d[i] \in S) /\ (\A i \in 1 .. Len(e) : e[i] \in S)
        /\ Len(d) \in Nat /\ Len(e) \in Nat
    BY <1>1
  <2> QED BY <1>2, <2>1, <2>2
<1> DEFINE Old(i, j) == i \in 1 .. Len(d) /\ j \in 1 .. Len(d[i]) /\ e[i][j] = d[i][j]
           new(i, j) == i = m /\ j = Len(e[m])
<1>4. ASSUME NEW i \in 1 .. m, NEW j \in 1 .. Len(e[i]), ~new(i, j) PROVE Old(i, j)
  <2>1. CASE i = m
    <3>1. j \in 1 .. Len(e[m]) - 1
      BY <1>3, <1>4, <2>1
    <3>2. m = Len(d) /\ e[m][j] = d[m][j]
      BY <1>2, <3>1
    <3>3. Len(e[m]) = Len(d[m]) + 1 /\ Len(d[m]) \in Nat
      BY <1>2, <1>3, <3>2
    <3>4. j \in 1 .. Len(d[m])
      BY <3>1, <3>3
    <3> QED BY <1>3, <2>1, <3>2, <3>4
  <2>2. CASE i # m
    <3>1. i \in 1 .. m - 1
      BY <1>3, <2>2
    <3>2. e[i] = d[i] /\ i \in 1 .. Len(d)
      BY <1>2, <1>3, <3>1
    <3> QED BY <3>2
  <2> QED BY <2>1, <2>2
<1>5. ASSUME NEW i \in 1 .. m, NEW j \in 1 .. Len(e[i])
      PROVE  /\ new(i, j) => e[i][j] = n + 1
             /\ ~new(i, j) => e[i][j] \in 1 .. n /\ e[i][j] # n + 1
  <2>1. ASSUME ~new(i, j) PROVE e[i][j] \in 1 .. n
    <3>1. Old(i, j)
      BY <1>4, <2>1
    <3> QED BY <1>1, <3>1
  <2> QED BY <1>2, <2>1
<1>6. \A i \in 1 .. m : Len(e[i]) >= 1
  <2> SUFFICES ASSUME NEW i \in 1 .. m, i # m PROVE Len(e[i]) >= 1
    BY <1>2
  <2>1. i \in 1 .. m - 1 /\ i \in 1 .. Len(d)
    BY <1>2, <1>3
  <2> QED BY <1>1, <1>2, <2>1
<1>7. \A i \in 1 .. m : \A j \in 1 .. Len(e[i]) : e[i][j] \in 1 .. n + 1
  BY <1>5
<1>8. ASSUME NEW s \in 1 .. n + 1 PROVE Declared(e, s)
  <2>1. CASE s = n + 1
    <3>1. Len(e[m]) \in 1 .. Len(e[m])
      BY <1>2, <1>3
    <3> QED BY <1>2, <1>3, <2>1, <3>1 DEF Declared
  <2>2. CASE s # n + 1
    <3>1. s \in 1 .. n
      BY <2>2
    <3>2. PICK i \in 1 .. Len(d) : \E j \in 1 .. Len(d[i]) : d[i][j] = s
      <4>1. Generated(<<>>, s) \/ Declared(d, s)
        BY <3>1 DEF OneEach
      <4> QED BY <4>1 DEF Declared, Generated
    <3> PICK j \in 1 .. Len(d[i]) : d[i][j] = s
      BY <3>2
    <3>3. i \in 1 .. m /\ j \in 1 .. Len(e[i]) /\ e[i][j] = d[i][j]
      <4>1. CASE i = m
        <5>1. m = Len(d)
          BY <1>2, <1>3, <4>1
        <5>2. Len(e[m]) = Len(d[m]) + 1 /\ Len(d[m]) \in Nat
          BY <1>2, <1>3, <5>1
        <5>3. j \in 1 .. Len(e[m]) - 1
          BY <4>1, <5>2
        <5> QED BY <1>2, <1>3, <4>1, <5>2, <5>3
      <4>2. CASE i # m
        <5>1. i \in 1 .. m - 1
          BY <1>2, <1>3, <4>2
        <5> QED BY <1>2, <1>3, <5>1, SMTT(20)
      <4> QED BY <4>1, <4>2
    <3> QED BY <1>2, <3>2, <3>3 DEF Declared
  <2> QED BY <2>1, <2>2
<1>9. ASSUME NEW i \in 1 .. m, NEW k \in 1 .. m, NEW j \in 1 .. Len(e[i]), NEW l \in 1 .. Len(e[k]),
             e[i][j] = e[k][l]
      PROVE  i = k /\ j = l
  <2>1. CASE new(i, j)
    <3>1. new(k, l)
      BY <1>5, <1>9, <2>1
    <3> QED BY <2>1, <3>1
  <2>2. CASE ~new(i, j)
    <3>1. ~new(k, l)
      BY <1>5, <1>9, <2>2
    <3>2. Old(i, j) /\ Old(k, l)
      BY <1>4, <2>2, <3>1
    <3>3. \A a, b \in 1 .. Len(d) : \A u \in 1 .. Len(d[a]) : \A w \in 1 .. Len(d[b]) :
            d[a][u] = d[b][w] => a = b /\ u = w
      BY <1>1
    <3>4. d[i][j] = d[k][l] /\ i \in 1 .. Len(d) /\ k \in 1 .. Len(d)
          /\ j \in 1 .. Len(d[i]) /\ l \in 1 .. Len(d[k])
      BY <1>9, <3>2
    <3> QED BY ONLY <3>3, <3>4, Zenon
  <2> QED BY <2>1, <2>2
<1>10. <<>> \in Seq(Nat) /\ Len(<<>>) = 0
  OBVIOUS
<1>11. \A i \in 1 .. Len(<<>>) : FALSE
  BY <1>10
<1> QED BY <1>1, <1>2, <1>6, <1>7, <1>8, <1>9, <1>10, <1>11 DEF OneEach

LEMMA DeclaresNew ==
  ASSUME NEW n \in Nat, NEW d \in Seq(Seq(Nat))
  PROVE  Declares(Append(d, <<n + 1>>), d, Len(d) + 1, n)
<1> DEFINE S == Seq(Nat)
           q == <<n + 1>>
<1>1. q \in S /\ Len(q) = 1 /\ q[1] = n + 1
  OBVIOUS
<1> HIDE DEF S, q
<1>2. d \in Seq(S)
  BY DEF S
<1>3. Append(d, q) \in Seq(S) /\ Len(d) \in Nat /\ Len(Append(d, q)) = Len(d) + 1
      /\ Append(d, q)[Len(d) + 1] = q /\ \A i \in 1 .. Len(d) : Append(d, q)[i] = d[i]
  BY <1>1, <1>2
<1>4. (Len(d) + 1) - 1 = Len(d) /\ Len(d) # Len(d) + 1 /\ Len(d) + 1 >= 1
  BY <1>3
<1>5. Declares(Append(d, q), d, Len(d) + 1, n)
  <2>1. \A j \in 1 .. Len(q) - 1 : FALSE
    BY <1>1
  <2>2. PICK e : e = Append(d, q)
    OBVIOUS
  <2>3. PICK m : m = Len(d) + 1
    OBVIOUS
  <2>4. e \in Seq(Seq(Nat)) /\ Len(e) = m /\ m >= 1 /\ e[m] = q /\ m # Len(d)
    BY <1>3, <1>4, <2>2, <2>3 DEF S
  <2>5. \A i \in 1 .. m - 1 : e[i] = d[i]
    BY <1>3, <1>4, <2>2, <2>3
  <2>6. Declares(e, d, m, n)
    <3>1. Len(e[m]) = 1 /\ e[m][Len(e[m])] = n + 1 /\ Len(e[m]) >= 1
      <4>1. PICK c : c = e[m] /\ c = q
        BY <2>4
      <4>2. Len(c) = 1 /\ c[1] = n + 1
        BY <1>1, <4>1
      <4>3. Len(c) >= 1
        BY <4>2
      <4> QED BY <4>1, <4>2, <4>3
    <3>2. \A j \in 1 .. Len(e[m]) - 1 : FALSE
      BY <3>1
    <3>3. Len(e) \in {Len(d), Len(d) + 1}
      BY <2>3, <2>4
    <3> QED BY <2>4, <2>5, <3>1, <3>2, <3>3 DEF Declares
  <2> QED BY <2>2, <2>3, <2>6
<1> QED BY <1>5 DEF q

LEMMA DeclaresMore ==
  ASSUME NEW n \in Nat, NEW d \in Seq(Seq(Nat)), d # <<>>
  PROVE  Declares([d EXCEPT ![Len(d)] = Append(@, n + 1)], d, Len(d), n)
<1> DEFINE S == Seq(Nat)
           m == Len(d)
           q == Append(d[m], n + 1)
           e == [d EXCEPT ![m] = q]
<1>1. m \in Nat /\ m >= 1 /\ m \in 1 .. m /\ d \in Seq(S) /\ DOMAIN d = 1 .. m /\ d[m] \in S
  <2> HIDE DEF S
  <2>1. d \in Seq(S)
    BY DEF S
  <2> QED BY <2>1
<1>2. q \in S /\ Len(q) = Len(d[m]) + 1 /\ Len(d[m]) \in Nat /\ q[Len(q)] = n + 1
      /\ \A j \in 1 .. Len(q) - 1 : q[j] = d[m][j]
  <2>1. PICK c \in Seq(Nat) : c = d[m]
    BY <1>1
  <2> QED BY <2>1
<1> HIDE DEF S, q
<1>3. /\ e \in Seq(S) /\ Len(e) = m /\ e[m] = q
      /\ \A i \in 1 .. m - 1 : e[i] = d[i]
  <2> HIDE DEF m
  <2>1. DOMAIN e = 1 .. m /\ e[m] = q /\ \A i \in 1 .. m : i # m => e[i] = d[i]
    BY <1>1
  <2>2. \A i \in 1 .. m : d[i] \in S
    BY <1>1
  <2>3. e \in [1 .. m -> S]
    BY <1>1, <1>2, <2>1, <2>2
  <2> HIDE DEF e
  <2>4. e \in Seq(S) /\ Len(e) = m
    BY <1>1, <2>3
  <2>5. \A i \in 1 .. m - 1 : i \in 1 .. m /\ i # m
    BY <1>1
  <2> QED BY <2>1, <2>4, <2>5
<1>4. m # m + 1 /\ Len(q) >= 1
  <2>1. PICK k \in Nat : k = Len(d[m])
    BY <1>2
  <2>2. Len(q) = k + 1
    BY <1>2, <2>1
  <2> HIDE DEF m
  <2> QED BY <1>1, <2>1, <2>2
<1> HIDE DEF e
<1>5. Declares(e, d, m, n)
  BY <1>1, <1>2, <1>3, <1>4 DEF Declares, S
<1> QED BY <1>5 DEF e, q

\* p is g and then the elements of c, backwards.
Backwards(p, g, c) ==
  /\ p \in Seq(Nat) /\ Len(g) \in Nat /\ Len(c) \in Nat /\ Len(p) = Len(g) + Len(c)
  /\ \A i \in 1 .. Len(g) : p[i] = g[i]
  /\ \A j \in 1 .. Len(c) : p[Len(g) + (Len(c) - j + 1)] = c[j]
  /\ \A i \in 1 .. Len(p) : i \in 1 .. Len(g) \/ \E j \in 1 .. Len(c) : i = Len(g) + (Len(c) - j + 1)

LEMMA ReverseBackwards ==
  ASSUME NEW g \in Seq(Nat), NEW c \in Seq(Nat)
  PROVE  Backwards(g \o Reverse(c), g, c)
<1> DEFINE a == Len(g)
           b == Len(c)
<1>1. a \in Nat /\ b \in Nat /\ \A j \in 1 .. b : c[j] \in Nat
  OBVIOUS
<1>2. PICK r : r = Reverse(c)
  OBVIOUS
<1>3. r = [i \in 1 .. b |-> c[(b - i) + 1]]
  BY <1>2 DEF Reverse
<1> HIDE DEF a, b
<1>4. \A i \in 1 .. b : (b - i) + 1 \in 1 .. b /\ b - ((b - i) + 1) + 1 = i
  BY <1>1
<1>5. r \in [1 .. b -> Nat]
  BY <1>1, <1>3, <1>4
<1>6. r \in Seq(Nat) /\ Len(r) = b
  BY <1>1, <1>5
<1>7. PICK p : p = g \o r
  OBVIOUS
<1>8. /\ p \in Seq(Nat) /\ Len(p) = a + b
      /\ \A i \in 1 .. a : p[i] = g[i]
      /\ \A o \in 1 .. b : p[a + o] = r[o]
  <2>1. /\ p \in Seq(Nat) /\ Len(p) = Len(g) + Len(r)
        /\ \A i \in 1 .. Len(g) : p[i] = g[i]
        /\ \A o \in 1 .. Len(r) : p[Len(g) + o] = r[o]
    <3>1. \A x, y \in Seq(Nat) :
            /\ x \o y \in Seq(Nat) /\ Len(x \o y) = Len(x) + Len(y)
            /\ \A i \in 1 .. Len(x) : (x \o y)[i] = x[i]
            /\ \A o \in 1 .. Len(y) : (x \o y)[Len(x) + o] = y[o]
      OBVIOUS
    <3> QED BY <1>6, <1>7, <3>1
  <2> QED BY <1>6, <2>1 DEF a
<1>9. ASSUME NEW j \in 1 .. b PROVE p[a + (b - j + 1)] = c[j]
  <2>1. PICK o \in 1 .. b : o = b - j + 1
    BY <1>1
  <2>2. (b - o) + 1 = j
    BY <1>1, <2>1
  <2>3. r[o] = c[j]
    BY <1>3, <2>2
  <2> QED BY <1>8, <2>1, <2>3
<1>10. ASSUME NEW i \in 1 .. Len(p), i \notin 1 .. a PROVE \E j \in 1 .. b : i = a + (b - j + 1)
  <2>1. PICK o \in 1 .. b : o = i - a
    BY <1>1, <1>8, <1>10
  <2>2. PICK j \in 1 .. b : j = (b - o) + 1
    BY <1>4
  <2>3. i = a + (b - j + 1)
    BY <1>1, <2>1, <2>2
  <2> QED BY <2>3
<1>11. Backwards(p, g, c)
  BY <1>1, <1>8, <1>9, <1>10 DEF Backwards, a, b
<1> QED BY <1>2, <1>7, <1>11

Apart(g, c) == \A i \in 1 .. Len(g) : ~\E j \in 1 .. Len(c) : c[j] = g[i]

LEMMA OneEachGenerated ==
  ASSUME NEW n \in Nat, NEW d, NEW g, OneEach(d, g, n), d # <<>>,
         NEW c, c = Head(d), NEW rest, rest = Tail(d), NEW p, Backwards(p, g, c)
  PROVE  OneEach(rest, p, n) /\ Apart(g, c)
<1> DEFINE S == Seq(Nat)
           a == Len(g)
           b == Len(c)
           m == Len(d)
<1>1. /\ d \in Seq(S) /\ g \in S
      /\ \A i \in 1 .. m : Len(d[i]) >= 1
      /\ \A i \in 1 .. m : \A j \in 1 .. Len(d[i]) : d[i][j] \in 1 .. n
      /\ \A i \in 1 .. a : g[i] \in 1 .. n
  BY DEF OneEach
<1>2. \A s \in 1 .. n : Generated(g, s) \/ Declared(d, s)
  BY DEF OneEach
<1>3. \A i, k \in 1 .. m : \A j \in 1 .. Len(d[i]) : \A l \in 1 .. Len(d[k]) :
        d[i][j] = d[k][l] => i = k /\ j = l
  BY DEF OneEach
<1>4. (\A i, k \in 1 .. a : g[i] = g[k] => i = k) /\ \A i \in 1 .. a : ~Declared(d, g[i])
  BY DEF OneEach
<1>5. /\ p \in S /\ a \in Nat /\ b \in Nat /\ Len(p) = a + b
      /\ \A i \in 1 .. a : p[i] = g[i]
      /\ \A j \in 1 .. b : p[a + (b - j + 1)] = c[j]
      /\ \A i \in 1 .. Len(p) : i \in 1 .. a \/ \E j \in 1 .. b : i = a + (b - j + 1)
  BY DEF Backwards
<1>6. /\ m \in Nat /\ m >= 1 /\ 1 \in 1 .. m /\ c = d[1] /\ rest \in Seq(S)
      /\ Len(rest) = m - 1 /\ \A i \in 1 .. m - 1 : rest[i] = d[i + 1] /\ i + 1 \in 1 .. m
  <2> HIDE DEF S
  <2>1. d \in Seq(S)
    BY <1>1
  <2> QED BY <2>1
<1> HIDE DEF S, a, b, m
<1>7. ASSUME NEW s, Declared(rest, s) PROVE \E i \in 1 .. m : i # 1 /\ \E j \in 1 .. Len(d[i]) : d[i][j] = s
  <2>1. PICK i \in 1 .. m - 1 : \E j \in 1 .. Len(rest[i]) : rest[i][j] = s
    BY <1>6, <1>7 DEF Declared
  <2>2. i + 1 \in 1 .. m /\ i + 1 # 1 /\ rest[i] = d[i + 1]
    BY <1>6
  <2> QED BY <2>1, <2>2
<1>8. ASSUME NEW i \in 1 .. a PROVE ~\E j \in 1 .. b : c[j] = g[i]
  <2> SUFFICES ASSUME NEW j \in 1 .. b, c[j] = g[i] PROVE FALSE
    OBVIOUS
  <2>1. Declared(d, g[i])
    BY <1>6 DEF Declared, b, m
  <2> QED BY <1>4, <2>1
<1>9. \A j \in 1 .. b : c[j] \in 1 .. n
  BY <1>1, <1>6 DEF b
<1>10. \A i \in 1 .. m - 1 : Len(rest[i]) >= 1 /\ \A j \in 1 .. Len(rest[i]) : rest[i][j] \in 1 .. n
  BY <1>1, <1>6
<1>11. \A i \in 1 .. Len(p) : p[i] \in 1 .. n
  <2> SUFFICES ASSUME NEW i \in 1 .. Len(p) PROVE p[i] \in 1 .. n
    OBVIOUS
  <2>1. CASE i \in 1 .. a
    BY <1>1, <1>5, <2>1
  <2>2. CASE i \notin 1 .. a
    <3>1. PICK j \in 1 .. b : i = a + (b - j + 1)
      BY <1>5, <2>2
    <3>2. p[i] = c[j]
      BY <1>5, <3>1
    <3> QED BY <1>9, <3>2
  <2> QED BY <2>1, <2>2
<1>12. ASSUME NEW s \in 1 .. n PROVE Generated(p, s) \/ Declared(rest, s)
  <2>1. CASE Generated(g, s)
    <3>1. PICK i \in 1 .. a : g[i] = s
      BY <2>1 DEF Generated, a
    <3>2. i \in 1 .. Len(p) /\ p[i] = s
      BY <1>5, <3>1
    <3> QED BY <3>2 DEF Generated
  <2>2. CASE Declared(d, s)
    <3>1. PICK i \in 1 .. m : \E j \in 1 .. Len(d[i]) : d[i][j] = s
      BY <2>2 DEF Declared, m
    <3>2. CASE i = 1
      <4>1. PICK j \in 1 .. b : c[j] = s
        BY <1>6, <3>1, <3>2 DEF b
      <4>2. a + (b - j + 1) \in 1 .. Len(p) /\ p[a + (b - j + 1)] = s
        BY <1>5, <4>1
      <4> QED BY <4>2 DEF Generated
    <3>3. CASE i # 1
      <4>1. PICK k \in 1 .. m - 1 : k = i - 1
        BY <1>6, <3>3
      <4>2. rest[k] = d[i]
        <5>1. k + 1 = i
          BY <4>1
        <5> QED BY <1>6, <5>1
      <4> QED BY <1>6, <3>1, <4>2 DEF Declared
    <3> QED BY <3>2, <3>3
  <2> QED BY <1>2, <2>1, <2>2
<1>13. ASSUME NEW i \in 1 .. m - 1, NEW k \in 1 .. m - 1, NEW j \in 1 .. Len(rest[i]),
              NEW l \in 1 .. Len(rest[k]), rest[i][j] = rest[k][l]
       PROVE  i = k /\ j = l
  <2>1. PICK x \in 1 .. m : x = i + 1 /\ rest[i] = d[x]
    BY <1>6
  <2>2. PICK y \in 1 .. m : y = k + 1 /\ rest[k] = d[y]
    BY <1>6
  <2>3. j \in 1 .. Len(d[x]) /\ l \in 1 .. Len(d[y]) /\ d[x][j] = d[y][l]
    BY <1>13, <2>1, <2>2
  <2>4. x = y /\ j = l
    BY <1>3, <2>3, Zenon
  <2> QED BY <2>1, <2>2, <2>4
<1>14. ASSUME NEW i \in 1 .. Len(p), NEW k \in 1 .. Len(p), p[i] = p[k] PROVE i = k
  <2>1. CASE i \in 1 .. a /\ k \in 1 .. a
    BY <1>4, <1>5, <1>14, <2>1
  <2>2. CASE i \in 1 .. a /\ k \notin 1 .. a
    <3>1. PICK l \in 1 .. b : k = a + (b - l + 1)
      BY <1>5, <2>2
    <3>2. p[k] = c[l] /\ p[i] = g[i]
      BY <1>5, <2>2, <3>1
    <3> QED BY <1>8, <1>14, <2>2, <3>2
  <2>3. CASE i \notin 1 .. a /\ k \in 1 .. a
    <3>1. PICK l \in 1 .. b : i = a + (b - l + 1)
      BY <1>5, <2>3
    <3>2. p[i] = c[l] /\ p[k] = g[k]
      BY <1>5, <2>3, <3>1
    <3> QED BY <1>8, <1>14, <2>3, <3>2
  <2>4. CASE i \notin 1 .. a /\ k \notin 1 .. a
    <3>1. PICK j \in 1 .. b : i = a + (b - j + 1)
      BY <1>5, <2>4
    <3>2. PICK l \in 1 .. b : k = a + (b - l + 1)
      BY <1>5, <2>4
    <3>3. d[1][j] = d[1][l] /\ j \in 1 .. Len(d[1]) /\ l \in 1 .. Len(d[1])
      BY <1>5, <1>6, <1>14, <3>1, <3>2 DEF b
    <3>4. j = l
      BY <1>3, <1>6, <3>3
    <3> QED BY <3>1, <3>2, <3>4
  <2> QED BY <2>1, <2>2, <2>3, <2>4
<1>15. ASSUME NEW i \in 1 .. Len(p), Declared(rest, p[i]) PROVE FALSE
  <2>1. PICK k \in 1 .. m : k # 1 /\ \E l \in 1 .. Len(d[k]) : d[k][l] = p[i]
    BY <1>7, <1>15
  <2>2. PICK l \in 1 .. Len(d[k]) : d[k][l] = p[i]
    BY <2>1
  <2>3. CASE i \in 1 .. a
    <3>1. Declared(d, g[i])
      BY <1>5, <2>2, <2>3 DEF Declared, m
    <3> QED BY <1>4, <2>3, <3>1
  <2>4. CASE i \notin 1 .. a
    <3>1. PICK j \in 1 .. b : i = a + (b - j + 1)
      BY <1>5, <2>4
    <3>2. d[1][j] = d[k][l] /\ j \in 1 .. Len(d[1])
      BY <1>5, <1>6, <2>2, <3>1 DEF b
    <3>3. 1 = k
      BY <1>3, <1>6, <2>2, <3>2
    <3> QED BY <2>1, <3>3
  <2> QED BY <2>3, <2>4
<1>16. OneEach(rest, p, n)
  BY <1>5, <1>6, <1>10, <1>11, <1>12, <1>13, <1>14, <1>15, SMTT(20) DEF OneEach, S
<1> QED BY <1>8, <1>16 DEF a, b, Apart

-----------------------------------------------------------------------------
(***************************************************************************)
(* The inductive invariant.                                                *)
(***************************************************************************)
Declarations == [const : BOOLEAN, init : Seq(Lexemes), text : Seq(Lexemes)]

GlobalsTyped ==
  /\ entries \in Seq(Declarations)
  /\ value \in Envs(Len(entries)) /\ run \in Envs(Len(entries))
  /\ expr \in Seq(Tokens(Len(entries))) /\ text \in Seq(Tokens(Len(entries)))
  /\ signed \in BOOLEAN

\* What is being parsed means what its text means; something is on the stack.
ExpressionFolds ==
  /\ Folds(expr, text, Len(entries), ~signed)
  /\ expr # <<>> => Depth(expr) >= 1

\* A kept initialiser that is a literal means what its text means.
InitialisersFold ==
  \A s \in 1 .. Len(entries) : Folds(entries[s].init, entries[s].text, Len(entries), FALSE)

EachOnce == OneEach(decls, globalList, Len(entries))

Phases ==
  /\ phase \in {"globals", "functions"} => globalList = <<>>
  /\ phase = "globals" /\ comma => decls # <<>>
  /\ phase = "done" => decls = <<>>

\* Where a declaration has been generated its literal is in place.
LiteralsReached ==
  \A i \in 1 .. Len(globalList) : IsLiteral(globalList[i]) =>
    /\ value[globalList[i]] = entries[globalList[i]].init[1].v
    /\ irWord[globalList[i]] = entries[globalList[i]].init[1].v

GlobalDataInv ==
  /\ GlobalsTyped /\ ExpressionFolds /\ InitialisersFold
  /\ EachOnce /\ Phases /\ LiteralsReached /\ FoldsStraightLineText

LEMMA DepthEmpty == Depth(<<>>) = 0
<1>1. {i \in DOMAIN <<>> : <<>>[i].k \in Leaves} = {}
      /\ {i \in DOMAIN <<>> : <<>>[i].k \notin Leaves \cup Unary} = {}
  OBVIOUS
<1> QED BY <1>1, FS_EmptySet DEF Depth

LEMMA FoldsWeaker ==
  ASSUME NEW n \in Nat, NEW m \in Nat, m >= n, NEW e, NEW t, NEW free, Folds(e, t, n, free)
  PROVE  Folds(e, t, m, FALSE)
<1> SUFFICES ASSUME NEW k \in Nat, k >= m, NEW v \in Envs(k), NEW r \in Envs(k), NEW zero \in {0, Unknown}
             PROVE  FoldsIn(e, t, k, FALSE, v, r, zero)
  BY DEF Folds
<1>1. k >= n
  OBVIOUS
<1>2. FoldsIn(e, t, k, free, v, r, zero)
  BY <1>1 DEF Folds
<1> QED BY <1>2 DEF FoldsIn, Related

LEMMA InitGlobalData == Init => GlobalDataInv
<1> SUFFICES ASSUME Init PROVE GlobalDataInv
  OBVIOUS
<1> USE DEF Init
<1>1. Len(entries) = 0 /\ Len(globalList) = 0 /\ 0 \in Nat
  OBVIOUS
<1>2. GlobalsTyped
  <2>1. <<>> \in [1 .. 0 -> Int]
    OBVIOUS
  <2>2. \A T : <<>> \in Seq(T)
    OBVIOUS
  <2> QED BY <1>1, <2>1, <2>2 DEF GlobalsTyped, Envs
<1>3. ExpressionFolds
  BY <1>1, FoldsEmpty DEF ExpressionFolds
<1>4. InitialisersFold /\ LiteralsReached
  <2>1. \A i \in 1 .. 0 : FALSE
    OBVIOUS
  <2> QED BY <1>1, <2>1 DEF InitialisersFold, LiteralsReached
<1>5. EachOnce
  <2>1. Len(decls) = 0 /\ decls \in Seq(Seq(Nat)) /\ globalList \in Seq(Nat)
    OBVIOUS
  <2>2. \A i \in 1 .. 0 : FALSE
    OBVIOUS
  <2> QED BY <1>1, <2>1, <2>2 DEF EachOnce, OneEach
<1>6. Phases
  BY DEF Phases
<1>7. FoldsStraightLineText
  <2>1. DOMAIN run = {}
    OBVIOUS
  <2> QED BY <2>1 DEF FoldsStraightLineText
<1> QED BY <1>2, <1>3, <1>4, <1>5, <1>6, <1>7 DEF GlobalDataInv

-----------------------------------------------------------------------------
(***************************************************************************)
(* Parsing an expression.                                                  *)
(***************************************************************************)
LEMMA ExpressionFrame ==
  ASSUME GlobalDataInv, Parsing, UNCHANGED <<phase, entries, decls, comma, globalList>>,
         NEW n, n = Len(entries),
         value' \in Envs(n), run' \in Envs(n), signed' \in BOOLEAN,
         expr' \in Seq(Tokens(n)), text' \in Seq(Tokens(n)),
         Folds(expr', text', n, ~signed'), expr' # <<>> => Depth(expr') >= 1,
         FoldsStraightLineText'
  PROVE  GlobalDataInv'
<1>1. GlobalsTyped'
  BY DEF GlobalDataInv, GlobalsTyped
<1>2. ExpressionFolds'
  BY DEF ExpressionFolds
<1>3. InitialisersFold'
  BY DEF GlobalDataInv, InitialisersFold
<1>4. EachOnce' /\ Phases'
  BY DEF GlobalDataInv, EachOnce, Phases
<1>5. LiteralsReached'
  <2>1. globalList' = <<>>
    BY DEF GlobalDataInv, Phases, Parsing
  <2>2. \A i \in 1 .. Len(globalList') : FALSE
    BY <2>1
  <2> QED BY <2>2 DEF LiteralsReached
<1> QED BY <1>1, <1>2, <1>3, <1>4, <1>5 DEF GlobalDataInv

\* What the invariant says while an expression is parsed.
LEMMA ParsingFacts ==
  ASSUME GlobalDataInv, NEW n, n = Len(entries)
  PROVE  /\ n \in Nat /\ value \in Envs(n) /\ run \in Envs(n) /\ signed \in BOOLEAN
         /\ expr \in Seq(Tokens(n)) /\ text \in Seq(Tokens(n))
         /\ expr \in Seq(Lexemes) /\ text \in Seq(Lexemes)
         /\ Folds(expr, text, n, ~signed) /\ (expr # <<>> => Depth(expr) >= 1)
         /\ Operands = Depth(expr) /\ Depth(expr) \in Int
         /\ DOMAIN run = 1 .. n /\ DOMAIN entries = 1 .. n
         /\ Parsing /\ ~signed => Follows(value, run, n)
<1>1. n \in Nat /\ DOMAIN entries = 1 .. n
  <2> DEFINE T == Declarations
  <2> HIDE DEF T
  <2>1. entries \in Seq(T)
    BY DEF T, GlobalDataInv, GlobalsTyped
  <2> QED BY <2>1
<1>2. value \in Envs(n) /\ run \in Envs(n) /\ signed \in BOOLEAN
      /\ expr \in Seq(Tokens(n)) /\ text \in Seq(Tokens(n))
  BY DEF GlobalDataInv, GlobalsTyped
<1>3. Folds(expr, text, n, ~signed) /\ (expr # <<>> => Depth(expr) >= 1)
  BY DEF GlobalDataInv, ExpressionFolds
<1>4. expr \in Seq(Lexemes) /\ text \in Seq(Lexemes)
  BY <1>1, <1>2, TokensGrow
<1>5. Operands = Depth(expr)
  BY DEF Operands, Depth
<1>6. Depth(expr) \in Int
  <2>1. PICK t \in Tokens(n) : TRUE
    <3>1. "pos" \in Unary
      BY DEF Unary
    <3> QED BY <1>1, <3>1, SignTokens
  <2>2. t \in Lexemes
    BY DEF Tokens
  <2> QED BY <1>4, <2>2, DepthMore
<1>7. DOMAIN run = 1 .. n
  BY <1>2 DEF Envs
<1>8. Parsing /\ ~signed => Follows(value, run, n)
  BY <1>7 DEF GlobalDataInv, FoldsStraightLineText, Follows
<1> QED BY <1>1, <1>2, <1>3, <1>4, <1>5, <1>6, <1>7, <1>8

LEMMA AppendTyped ==
  ASSUME NEW T, NEW s \in Seq(T), NEW x \in T
  PROVE  Append(s, x) \in Seq(T)
OBVIOUS

LEMMA PrimaryKeeps ==
  ASSUME GlobalDataInv, NEW token \in Tokens(Len(entries)), token.k \in Leaves, Primary(token)
  PROVE  GlobalDataInv'
<1>1. PICK n : n = Len(entries)
  OBVIOUS
<1>2. n \in Nat /\ value \in Envs(n) /\ run \in Envs(n) /\ signed \in BOOLEAN
      /\ expr \in Seq(Tokens(n)) /\ text \in Seq(Tokens(n))
      /\ expr \in Seq(Lexemes) /\ Depth(expr) \in Int
      /\ Folds(expr, text, n, ~signed) /\ (expr # <<>> => Depth(expr) >= 1)
  BY <1>1, ParsingFacts
<1>3. Parsing /\ UNCHANGED <<phase, entries, decls, comma, globalList, value, run, signed, crashed>>
      /\ expr' = Append(expr, token) /\ text' = Append(text, token)
  BY DEF Primary, unchangedByExp
<1>4. token \in Tokens(n) /\ token \in Lexemes /\ Needs(token) = 0 /\ token.k \notin {"pos", "neg"}
  BY <1>1 DEF Tokens, Needs, Leaves
<1>5. Depth(expr) >= 0 /\ Depth(expr') = Depth(expr) + 1
  <2>1. Depth(expr) >= 0
    BY <1>2, DepthEmpty
  <2>2. Depth(Append(expr, token)) = Depth(expr) + 1 - 0
    BY <1>2, <1>4, DepthMore
  <2> QED BY <1>2, <1>3, <2>1, <2>2
<1>6. Folds(expr', text', n, ~signed')
  BY <1>2, <1>3, <1>4, <1>5, FoldsMore
<1>7. FoldsStraightLineText'
  BY <1>3 DEF GlobalDataInv, FoldsStraightLineText, Parsing
<1>8. expr' \in Seq(Tokens(n)) /\ text' \in Seq(Tokens(n))
  BY <1>2, <1>3, <1>4, AppendTyped
<1> QED BY <1>1, <1>2, <1>3, <1>5, <1>6, <1>7, <1>8, ExpressionFrame

LEMMA OperatorKeeps ==
  ASSUME GlobalDataInv, NEW op \in Binary, Operator(op)
  PROVE  GlobalDataInv'
<1>1. PICK n : n = Len(entries)
  OBVIOUS
<1>2. n \in Nat /\ value \in Envs(n) /\ run \in Envs(n) /\ signed \in BOOLEAN
      /\ expr \in Seq(Tokens(n)) /\ text \in Seq(Tokens(n))
      /\ expr \in Seq(Lexemes) /\ Depth(expr) \in Int /\ Operands = Depth(expr)
      /\ Folds(expr, text, n, ~signed)
  BY <1>1, ParsingFacts
<1>3. PICK token : token = Token(op, 0)
  OBVIOUS
<1>4. Parsing /\ UNCHANGED <<phase, entries, decls, comma, globalList, value, run, signed, crashed>>
      /\ expr' = Append(expr, token) /\ text' = Append(text, token) /\ Operands >= 2
  BY <1>3 DEF Operator, unchangedByExp
<1>5. token \in Tokens(n) /\ token \in Lexemes /\ Needs(token) = 2 /\ token.k \notin {"pos", "neg"}
  <2>1. op \in {"add", "sub", "mul", "div", "mod"} /\ op \in Kinds
    BY WordAssumption DEF Kinds
  <2>2. token.k = op /\ token.v = 0 /\ token \in Lexemes
    BY <1>3, <2>1 DEF Token, Lexemes
  <2> QED BY <2>1, <2>2 DEF Tokens, Needs, Leaves, Unary
<1>6. Depth(expr) >= 2 /\ expr # <<>>
  BY <1>2, <1>4, DepthEmpty
<1>7. Depth(expr') >= 1
  <2>1. Depth(Append(expr, token)) = Depth(expr) + 1 - 2
    BY <1>2, <1>5, DepthMore
  <2> QED BY <1>2, <1>4, <1>6, <2>1
<1>8. Folds(expr', text', n, ~signed')
  BY <1>2, <1>4, <1>5, <1>6, FoldsMore
<1>9. FoldsStraightLineText'
  BY <1>4 DEF GlobalDataInv, FoldsStraightLineText, Parsing
<1>10. expr' \in Seq(Tokens(n)) /\ text' \in Seq(Tokens(n))
  BY <1>2, <1>4, <1>5, AppendTyped
<1> QED BY <1>1, <1>2, <1>4, <1>7, <1>8, <1>9, <1>10, ExpressionFrame

LEMMA OtherUseKeeps ==
  ASSUME GlobalDataInv, OtherUse
  PROVE  GlobalDataInv'
<1>1. PICK n : n = Len(entries)
  OBVIOUS
<1>2. n \in Nat /\ value \in Envs(n) /\ run \in Envs(n) /\ signed \in BOOLEAN
  BY <1>1, ParsingFacts
<1>3. Parsing /\ UNCHANGED <<phase, entries, decls, comma, globalList, value, run, signed, crashed>>
      /\ expr' = <<>> /\ text' = <<>>
  BY DEF OtherUse, unchangedByExp
<1>4. Folds(expr', text', n, ~signed')
  BY <1>2, <1>3, FoldsEmpty
<1>5. FoldsStraightLineText'
  BY <1>3 DEF GlobalDataInv, FoldsStraightLineText, Parsing
<1>6. expr' \in Seq(Tokens(n)) /\ text' \in Seq(Tokens(n))
  BY <1>3
<1> QED BY <1>1, <1>2, <1>3, <1>4, <1>5, <1>6, ExpressionFrame

LEMMA SignedKeeps ==
  ASSUME GlobalDataInv, NEW op \in Unary, Signed(op)
  PROVE  GlobalDataInv'
<1> DEFINE top == Last(expr)
<1>1. PICK n : n = Len(entries)
  OBVIOUS
<1>2. n \in Nat /\ value \in Envs(n) /\ run \in Envs(n) /\ signed \in BOOLEAN
      /\ expr \in Seq(Tokens(n)) /\ text \in Seq(Tokens(n))
      /\ expr \in Seq(Lexemes) /\ Depth(expr) \in Int
      /\ Folds(expr, text, n, ~signed) /\ (expr # <<>> => Depth(expr) >= 1)
  BY <1>1, ParsingFacts
<1>3. PICK sign \in Tokens(n) : sign = SignToken(op) /\ Needs(sign) = 1 /\ sign.k = op
  BY <1>2, SignTokens
<1>4. /\ Parsing /\ UNCHANGED <<phase, entries, decls, comma, globalList, run, crashed>>
      /\ expr # <<>> /\ text' = Append(text, sign)
      /\ signed' = (signed \/ (op # "not" /\ top.k # "const"))
  BY <1>3 DEF Signed, unchangedByExp, SignToken
<1>5. \/ /\ op = "not" \/ top.k \notin {"const", "id"}
         /\ expr' = Append(expr, sign) /\ value' = value
      \/ /\ op # "not" /\ top.k \in {"const", "id"}
         /\ expr' = IF op = "neg" /\ top.k = "const" THEN Resigned(expr) ELSE expr
         /\ value' = IF op = "neg" /\ top.k = "id" THEN [value EXCEPT ![top.v] = Wrap(-@)] ELSE value
  BY <1>3 DEF Signed, SignToken, Resigned
<1>6. Depth(expr) >= 1 /\ signed' \in BOOLEAN /\ sign \in Lexemes
  BY <1>2, <1>4 DEF Tokens
<1>7. text' \in Seq(Tokens(n))
  BY <1>2, <1>3, <1>4, AppendTyped
<1>8. CASE op = "not" \/ top.k \notin {"const", "id"}
  <2>1. expr' = Append(expr, sign) /\ value' = value
    BY <1>5, <1>8
  <2>2. Depth(expr') >= 1
    <3>1. Depth(Append(expr, sign)) = Depth(expr) + 1 - 1
      BY <1>2, <1>3, <1>6, DepthMore
    <3> QED BY <1>2, <1>6, <2>1, <3>1
  <2>3. ~signed' => ~signed /\ op \notin {"pos", "neg"}
    BY <1>4, <1>8
  <2>4. Folds(expr', text', n, ~signed')
    <3>1. PICK still \in BOOLEAN : still = ~signed'
      BY <1>6
    <3>2. PICK free \in BOOLEAN : free = ~signed
      BY <1>2
    <3>3. still => free /\ sign.k \notin {"pos", "neg"}
      BY <1>3, <2>3, <3>1, <3>2
    <3>4. Depth(expr) >= Needs(sign)
      BY <1>3, <1>6
    <3>5. Folds(Append(expr, sign), Append(text, sign), n, still)
      BY <1>2, <1>4, <3>2, <3>3, <3>4, FoldsMore
    <3> QED BY <1>4, <2>1, <3>1, <3>5
  <2>5. FoldsStraightLineText'
    BY <1>4, <2>1, <2>3 DEF GlobalDataInv, FoldsStraightLineText, Parsing
  <2>6. expr' \in Seq(Tokens(n))
    BY <1>2, <1>3, <2>1, AppendTyped
  <2> QED BY <1>1, <1>2, <1>4, <1>6, <1>7, <2>1, <2>2, <2>4, <2>5, <2>6, ExpressionFrame
<1>9. CASE op # "not" /\ top.k = "const"
  <2>1. op \in {"pos", "neg"}
    BY <1>9 DEF Unary
  <2>2. expr' = (IF op = "neg" THEN Resigned(expr) ELSE expr) /\ value' = value
    BY <1>5, <1>9
  <2>3. (signed' <=> signed) /\ (~signed' <=> ~signed)
    BY <1>4, <1>9
  <2>4. PICK free : free = ~signed /\ free = ~signed'
    BY <1>2, <1>6, <2>3
  <2>5. /\ Folds(expr, Append(text, SignToken("pos")), n, free)
        /\ Folds(Resigned(expr), Append(text, SignToken("neg")), n, free)
    BY <1>2, <1>4, <1>9, <2>4, FoldsLiteral
  <2>6. Folds(expr', text', n, ~signed')
    BY <1>3, <1>4, <2>1, <2>2, <2>4, <2>5
  <2>7. Depth(expr') >= 1
    <3>1. Depth(Resigned(expr)) = Depth(expr)
      BY <1>2, <1>4, <1>9, DepthResigned
    <3> QED BY <1>6, <2>2, <3>1
  <2>8. expr' \in Seq(Tokens(n))
    <3>1. Resigned(expr) \in Seq(Tokens(n))
      BY <1>2, <1>4, <1>9, LiteralNegated
    <3> QED BY <1>2, <2>2, <3>1
  <2>9. FoldsStraightLineText'
    BY <1>4, <2>2, <2>3 DEF GlobalDataInv, FoldsStraightLineText, Parsing
  <2> QED BY <1>1, <1>2, <1>4, <1>6, <1>7, <2>2, <2>6, <2>7, <2>8, <2>9, ExpressionFrame
<1>10. CASE op # "not" /\ top.k = "id"
  <2>1. expr' = expr /\ signed' = TRUE
    BY <1>4, <1>5, <1>10
  <2>2. ~Literal(expr)
    <3>1. Len(expr) = 1 => Last(expr) = expr[1]
      BY DEF Last
    <3> QED BY <1>10, <3>1 DEF Literal
  <2>3. Folds(expr, Append(text, SignToken(op)), n, FALSE)
    BY <1>2, <1>6, <2>2, FoldsSign
  <2>4. Folds(expr', text', n, ~signed')
    <3>1. (~signed') = FALSE
      BY <2>1
    <3> QED BY <1>3, <1>4, <2>1, <2>3, <3>1
  <2>5. value' \in Envs(n)
    <3>1. CASE op = "neg"
      <4>1. PICK t \in Tokens(n) : t = top
        <5> DEFINE T == Tokens(n)
        <5> HIDE DEF T
        <5>1. expr \in Seq(T)
          BY <1>2 DEF T
        <5>2. Last(expr) \in T
          BY <1>4, <5>1 DEF Last
        <5> QED BY <5>2 DEF T
      <4>2. t.v \in 1 .. n
        BY <1>10, <4>1 DEF Tokens
      <4>3. PICK a \in Int : a = value[t.v]
        BY <1>2, <4>2 DEF Envs
      <4>4. Wrap(-a) \in Int
        <5>1. PICK b \in Int : b = -a
          OBVIOUS
        <5> QED BY <5>1, WordFacts
      <4>5. value' = [value EXCEPT ![t.v] = Wrap(-a)]
        BY <1>2, <1>5, <1>10, <3>1, <4>1, <4>2, <4>3 DEF Envs
      <4> QED BY <1>2, <4>2, <4>4, <4>5 DEF Envs
    <3>2. CASE op # "neg"
      BY <1>2, <1>5, <1>10, <3>2
    <3> QED BY <3>1, <3>2
  <2>6. FoldsStraightLineText'
    BY <2>1 DEF FoldsStraightLineText
  <2> QED BY <1>1, <1>2, <1>4, <1>6, <1>7, <2>1, <2>4, <2>5, <2>6, ExpressionFrame
<1> QED BY <1>8, <1>9, <1>10

-----------------------------------------------------------------------------
(***************************************************************************)
(* Assignments.                                                            *)
(***************************************************************************)
\* What folding and the text say where an expression is complete.
LEMMA Folded ==
  ASSUME GlobalDataInv, Parsing, Complete, NEW zero \in {0, Unknown}
  PROVE  /\ GetValue(expr) \in Int /\ TextValue(text, run, zero) \in Int
         /\ ~signed => TextValue(text, run, zero) = Unknown \/ GetValue(expr) = TextValue(text, run, zero)
<1>1. PICK n : n = Len(entries)
  OBVIOUS
<1>2. n \in Nat /\ value \in Envs(n) /\ run \in Envs(n)
      /\ expr \in Seq(Lexemes) /\ text \in Seq(Lexemes)
      /\ Folds(expr, text, n, ~signed) /\ Depth(expr) = 1
      /\ (~signed => Follows(value, run, n))
  BY <1>1, ParsingFacts DEF Complete
<1>3. FoldsIn(expr, text, n, ~signed, value, run, zero)
  <2>1. n >= n
    BY <1>2
  <2> QED BY <1>2, <2>1 DEF Folds
<1>4. PICK s, w : /\ Ends(FALSE, expr, value, zero, s) /\ Ends(TRUE, text, run, zero, w)
                  /\ Related(expr, s, w, ~signed /\ Follows(value, run, n))
  BY <1>3 DEF FoldsIn
<1>5. s \in Seq(Int) /\ w \in Seq(Int) /\ Len(s) = 1 /\ Len(w) = 1
  BY <1>2, <1>4 DEF Related
<1>6. GetValue(expr) = Last(s) /\ TextValue(text, run, zero) = Last(w)
  <2>1. GetValue(expr) = Last(s)
    BY <1>2, <1>4, FoldEvaluated
  <2>2. TextValue(text, run, zero) = Last(w)
    BY <1>2, <1>4, TextEvaluated
  <2> QED BY <2>1, <2>2
<1>7. Last(s) = s[1] /\ Last(w) = w[1] /\ s[1] \in Int /\ w[1] \in Int
  BY <1>5 DEF Last
<1>8. ASSUME ~signed PROVE w[1] = Unknown \/ s[1] = w[1]
  <2>1. Agree(s, w)
    BY <1>2, <1>4, <1>8 DEF Related
  <2> QED BY <1>5, <2>1 DEF Agree
<1> QED BY <1>6, <1>7, <1>8

LEMMA AssignStmtKeeps ==
  ASSUME GlobalDataInv, NEW s \in DOMAIN entries, AssignStmt(s)
  PROVE  GlobalDataInv'
<1>1. PICK n : n = Len(entries)
  OBVIOUS
<1>2. n \in Nat /\ value \in Envs(n) /\ run \in Envs(n) /\ signed \in BOOLEAN /\ s \in 1 .. n
  BY <1>1, ParsingFacts
<1>3. Parsing /\ Complete /\ UNCHANGED <<phase, entries, decls, comma, globalList, signed>>
      /\ expr' = <<>> /\ text' = <<>>
  BY DEF AssignStmt
<1>4. PICK a \in Int : a = GetValue(expr)
  BY <1>3, Folded
<1>5. PICK b \in Int : b = TextValue(text, run, Unknown)
  BY <1>3, Folded
<1>6. ~signed => b = Unknown \/ a = b
  BY <1>3, <1>4, <1>5, Folded
<1>7. \/ a = Trap /\ crashed' = "trap" /\ value' = value
      \/ value' = [value EXCEPT ![s] = a] /\ crashed' = crashed
  BY <1>4 DEF AssignStmt, Assigned
<1>8. run' = [run EXCEPT ![s] = b]
  BY <1>5 DEF AssignStmt
<1>9. value' \in Envs(n) /\ run' \in Envs(n)
  BY <1>2, <1>7, <1>8 DEF Envs
<1>10. Folds(expr', text', n, ~signed')
  BY <1>2, <1>3, FoldsEmpty
<1>11. FoldsStraightLineText'
  <2> SUFFICES ASSUME Parsing', ~signed', NEW i \in DOMAIN run', run'[i] # Unknown
               PROVE  value'[i] = run'[i]
    BY DEF FoldsStraightLineText
  <2>1. value' = [value EXCEPT ![s] = a] /\ ~signed
    BY <1>3, <1>7 DEF Parsing
  <2>2. i \in 1 .. n
    BY <1>9 DEF Envs
  <2>3. CASE i = s
    BY <1>2, <1>6, <1>8, <2>1, <2>3 DEF Envs
  <2>4. CASE i # s
    <3>1. run'[i] = run[i] /\ value'[i] = value[i]
      BY <1>2, <1>8, <2>1, <2>2, <2>4 DEF Envs
    <3>2. run[i] = Unknown \/ value[i] = run[i]
      <4>1. Follows(value, run, n)
        BY <1>1, <1>3, <2>1, ParsingFacts
      <4> QED BY <2>2, <4>1 DEF Follows
    <3> QED BY <3>1, <3>2
  <2> QED BY <2>3, <2>4
<1>12. expr' \in Seq(Tokens(n)) /\ text' \in Seq(Tokens(n))
  BY <1>3
<1> QED BY <1>1, <1>2, <1>3, <1>9, <1>10, <1>11, <1>12, ExpressionFrame

-----------------------------------------------------------------------------
(***************************************************************************)
(* Declarations and generation.                                            *)
(***************************************************************************)
LEMMA EnvsGrow ==
  ASSUME NEW n \in Nat, NEW v \in Envs(n), NEW g \in Int
  PROVE  /\ Append(v, g) \in Envs(n + 1) /\ Append(v, g)[n + 1] = g
         /\ \A i \in 1 .. n : Append(v, g)[i] = v[i]
<1>1. v \in [1 .. n -> Int]
  BY DEF Envs
<1>2. v \in Seq(Int) /\ Len(v) = n
  BY <1>1
<1>3. Append(v, g) \in Seq(Int) /\ Len(Append(v, g)) = n + 1 /\ Append(v, g)[n + 1] = g
      /\ \A i \in 1 .. n : Append(v, g)[i] = v[i]
  BY <1>2
<1>4. Append(v, g) \in [1 .. n + 1 -> Int]
  <2>1. \A s \in Seq(Int) : s \in [1 .. Len(s) -> Int]
    OBVIOUS
  <2> QED BY <1>3, <2>1
<1> QED BY <1>3, <1>4 DEF Envs

LEMMA DeclStmtNodeKeeps ==
  ASSUME GlobalDataInv, Parsing, phase = "globals",
         NEW isConst \in BOOLEAN, NEW chain, NEW m,
         Declares(chain, decls, m, Len(entries)), DeclStmtNode(isConst, chain)
  PROVE  GlobalDataInv'
<1> DEFINE T == Declarations
           new == [const |-> isConst, init |-> expr, text |-> text]
<1>1. PICK n : n = Len(entries)
  OBVIOUS
<1>2. n \in Nat /\ value \in Envs(n) /\ run \in Envs(n) /\ signed \in BOOLEAN
      /\ expr \in Seq(Lexemes) /\ text \in Seq(Lexemes) /\ Folds(expr, text, n, ~signed)
  BY <1>1, ParsingFacts
<1>3. PICK g \in Garbage : value' = Append(value, g)
  BY DEF DeclStmtNode
<1>4. /\ entries' = Append(entries, new) /\ decls' = chain /\ run' = Append(run, Unknown)
      /\ expr' = <<>> /\ text' = <<>>
      /\ UNCHANGED <<phase, signed, globalList, crashed>>
  BY DEF DeclStmtNode
<1>5. g \in Int /\ Unknown \in Int
  BY WordAssumption, WordFacts
<1>6. /\ entries' \in Seq(T) /\ Len(entries') = n + 1 /\ entries'[n + 1] = new
      /\ \A i \in 1 .. n : entries'[i] = entries[i]
  <2>1. PICK x \in T : x = new
    BY <1>2 DEF Declarations
  <2>2. entries \in Seq(T)
    BY DEF GlobalDataInv, GlobalsTyped
  <2> HIDE DEF T, new
  <2> QED BY <1>1, <1>4, <2>1, <2>2
<1>7. GlobalsTyped'
  <2>1. value' \in Envs(n + 1) /\ run' \in Envs(n + 1)
    BY <1>2, <1>3, <1>4, <1>5, EnvsGrow
  <2>2. expr' \in Seq(Tokens(n + 1)) /\ text' \in Seq(Tokens(n + 1))
    BY <1>4
  <2>3. signed' \in BOOLEAN
    BY <1>2, <1>4
  <2> QED BY <1>6, <2>1, <2>2, <2>3 DEF GlobalsTyped
<1>8. ExpressionFolds'
  <2>1. n + 1 \in Nat
    BY <1>2
  <2>2. Folds(<<>>, <<>>, n + 1, ~signed')
    BY <2>1, FoldsEmpty
  <2> QED BY <1>4, <1>6, <2>2 DEF ExpressionFolds
<1>9. InitialisersFold'
  <2> SUFFICES ASSUME NEW s \in 1 .. n + 1
               PROVE  Folds(entries'[s].init, entries'[s].text, n + 1, FALSE)
    BY <1>6 DEF InitialisersFold
  <2>1. n + 1 \in Nat /\ n + 1 >= n
    BY <1>2
  <2>2. CASE s = n + 1
    <3>1. Folds(expr, text, n + 1, FALSE)
      BY <1>2, <2>1, FoldsWeaker
    <3>2. new.init = expr /\ new.text = text
      OBVIOUS
    <3> HIDE DEF new
    <3> QED BY <1>6, <2>2, <3>1, <3>2
  <2>3. CASE s # n + 1
    <3>1. s \in 1 .. n
      BY <1>2, <2>3
    <3>2. Folds(entries[s].init, entries[s].text, n, FALSE)
      BY <1>1, <3>1 DEF GlobalDataInv, InitialisersFold
    <3>3. Folds(entries[s].init, entries[s].text, n + 1, FALSE)
      BY <1>2, <2>1, <3>2, FoldsWeaker
    <3> QED BY <1>6, <3>1, <3>3
  <2> QED BY <2>2, <2>3
<1>10. globalList = <<>> /\ globalList' = <<>>
  BY <1>4 DEF GlobalDataInv, Phases
<1>11. EachOnce'
  <2>1. OneEach(decls, <<>>, n)
    BY <1>1, <1>10 DEF GlobalDataInv, EachOnce
  <2>2. OneEach(chain, <<>>, n + 1)
    BY <1>1, <1>2, <2>1, OneEachDeclares
  <2> QED BY <1>4, <1>6, <1>10, <2>2 DEF EachOnce
<1>12. Phases'
  <2>1. chain # <<>>
    <3>1. Len(chain) >= 1
      BY DEF Declares
    <3> QED BY <3>1
  <2> QED BY <1>4, <1>10, <2>1 DEF Phases
<1>13. LiteralsReached'
  <2>1. \A i \in 1 .. Len(globalList') : FALSE
    BY <1>10
  <2> QED BY <2>1 DEF LiteralsReached
<1>14. FoldsStraightLineText'
  <2> SUFFICES ASSUME ~signed', NEW i \in DOMAIN run', run'[i] # Unknown
               PROVE  value'[i] = run'[i]
    BY DEF FoldsStraightLineText
  <2>1. ~signed /\ Follows(value, run, n)
    BY <1>1, <1>4, ParsingFacts
  <2>2. /\ run' \in Envs(n + 1) /\ run'[n + 1] = Unknown
        /\ \A j \in 1 .. n : run'[j] = run[j]
    BY <1>2, <1>4, <1>5, EnvsGrow
  <2>3. \A j \in 1 .. n : value'[j] = value[j]
    BY <1>2, <1>3, <1>5, EnvsGrow
  <2>4. i \in 1 .. n
    <3>1. i \in 1 .. n + 1
      BY <2>2 DEF Envs
    <3> QED BY <1>2, <2>2, <3>1
  <2> QED BY <2>1, <2>2, <2>3, <2>4 DEF Follows
<1> QED BY <1>7, <1>8, <1>9, <1>11, <1>12, <1>13, <1>14 DEF GlobalDataInv

LEMMA DeclarationKeeps ==
  ASSUME GlobalDataInv, (\E isConst \in BOOLEAN : DeclStmt(isConst)) \/ CommaDeclarator
  PROVE  GlobalDataInv'
<1>1. PICK n \in Nat : n = Len(entries)
  BY ParsingFacts
<1>2. decls \in Seq(Seq(Nat))
  BY DEF GlobalDataInv, EachOnce, OneEach
<1>3. CASE \E isConst \in BOOLEAN : DeclStmt(isConst)
  <2>1. PICK isConst \in BOOLEAN : DeclStmt(isConst)
    BY <1>3
  <2>2. Declares(Append(decls, <<n + 1>>), decls, Len(decls) + 1, n)
    BY <1>2, DeclaresNew
  <2>3. Parsing /\ phase = "globals" /\ DeclStmtNode(isConst, Append(decls, <<n + 1>>))
    BY <1>1, <2>1 DEF DeclStmt
  <2> QED BY <1>1, <2>2, <2>3, DeclStmtNodeKeeps
<1>4. CASE CommaDeclarator
  <2>1. Parsing /\ phase = "globals" /\ decls # <<>>
    BY <1>4 DEF CommaDeclarator, GlobalDataInv, Phases
  <2>2. PICK chain : chain = [decls EXCEPT ![Len(decls)] = Append(@, n + 1)]
    OBVIOUS
  <2>3. Declares(chain, decls, Len(decls), n)
    BY <1>2, <2>1, <2>2, DeclaresMore
  <2>4. PICK isConst : isConst = Last(entries).const
    OBVIOUS
  <2>5. DeclStmtNode(isConst, chain)
    BY <1>1, <1>4, <2>2, <2>4 DEF CommaDeclarator
  <2>6. isConst \in BOOLEAN
    <3> DEFINE T == Declarations
    <3>1. Len(entries) >= 1
      <4>1. PICK c \in 1 .. Len(decls) : Len(decls[c]) >= 1
        <5> DEFINE S == Seq(Nat)
        <5>1. Len(decls) >= 1 /\ Len(decls) \in Nat
          <6> HIDE DEF S
          <6>1. decls \in Seq(S)
            BY <1>2 DEF S
          <6> QED BY <2>1, <6>1
        <5>2. 1 \in 1 .. Len(decls)
          BY <5>1
        <5> QED BY <5>2 DEF GlobalDataInv, EachOnce, OneEach
      <4>2. 1 \in 1 .. Len(decls[c])
        <5>1. decls[c] \in Seq(Nat)
          BY <1>2
        <5> QED BY <4>1, <5>1
      <4>3. decls[c][1] \in 1 .. n
        BY <1>1, <4>1, <4>2 DEF GlobalDataInv, EachOnce, OneEach
      <4> QED BY <1>1, <4>3
    <3>2. entries[Len(entries)] \in T
      <4>1. entries \in Seq(T)
        BY DEF GlobalDataInv, GlobalsTyped
      <4>2. n \in 1 .. n
        BY <1>1, <3>1
      <4> HIDE DEF T
      <4> QED BY <1>1, <4>1, <4>2
    <3>3. Last(entries) = entries[Len(entries)]
      BY DEF Last
    <3> QED BY <2>4, <3>2, <3>3 DEF Declarations
  <2> QED BY <1>1, <2>1, <2>3, <2>5, <2>6, DeclStmtNodeKeeps
<1> QED BY <1>3, <1>4

LEMMA PhaseKeeps ==
  ASSUME GlobalDataInv, FuncDef \/ StartGenCode \/ GenFunctionDef \/ UNCHANGED vars
  PROVE  GlobalDataInv'
<1>1. UNCHANGED <<entries, decls, value, expr, text, run, signed, globalList, crashed>>
  BY DEF FuncDef, StartGenCode, GenFunctionDef, vars
<1>2. GlobalsTyped' /\ ExpressionFolds' /\ InitialisersFold' /\ EachOnce'
  BY <1>1 DEF GlobalDataInv, GlobalsTyped, ExpressionFolds, InitialisersFold, EachOnce
<1>3. Phases'
  BY <1>1 DEF GlobalDataInv, Phases, FuncDef, StartGenCode, GenFunctionDef, vars
<1>4. FoldsStraightLineText'
  <2>1. Parsing' => Parsing
    BY DEF FuncDef, StartGenCode, GenFunctionDef, vars, Parsing
  <2> QED BY <1>1, <2>1 DEF GlobalDataInv, FoldsStraightLineText
<1>5. LiteralsReached'
  <2>1. CASE StartGenCode
    <3>1. globalList' = <<>>
      BY <1>1, <2>1 DEF GlobalDataInv, Phases, StartGenCode
    <3>2. \A i \in 1 .. Len(globalList') : FALSE
      BY <3>1
    <3> QED BY <3>2 DEF LiteralsReached
  <2>2. CASE ~StartGenCode
    <3>1. irWord' = irWord
      BY <2>2 DEF FuncDef, GenFunctionDef, vars
    <3> QED BY <1>1, <3>1 DEF GlobalDataInv, LiteralsReached, IsLiteral
  <2> QED BY <2>1, <2>2
<1> QED BY <1>2, <1>3, <1>4, <1>5 DEF GlobalDataInv

LEMMA GenDeclStmtKeeps ==
  ASSUME GlobalDataInv, GenDeclStmt
  PROVE  GlobalDataInv'
<1>1. PICK n \in Nat : n = Len(entries) /\ DOMAIN entries = 1 .. n
  BY ParsingFacts
<1>2. phase = "genCode" /\ decls # <<>> /\ crashed = "no"
      /\ UNCHANGED <<phase, entries, comma, expr, text, run, signed>>
  BY DEF GenDeclStmt
<1>3. FoldsStraightLineText' /\ ExpressionFolds' /\ InitialisersFold' /\ Phases'
  BY <1>2 DEF GlobalDataInv, FoldsStraightLineText, Parsing, ExpressionFolds, InitialisersFold, Phases
<1>4. CASE insertBB = "wild"
  <2>1. UNCHANGED <<decls, value, irWord, globalList>>
    BY <1>4 DEF GenDeclStmt
  <2>2. GlobalsTyped' /\ EachOnce' /\ LiteralsReached'
    BY <1>2, <2>1 DEF GlobalDataInv, GlobalsTyped, EachOnce, LiteralsReached, IsLiteral
  <2> QED BY <1>3, <2>2 DEF GlobalDataInv
<1>5. CASE insertBB # "wild"
  <2> DEFINE S == Seq(Nat)
  <2>1. PICK chain : chain = Head(decls)
    OBVIOUS
  <2>2. PICK p : p = globalList \o Reverse(chain)
    OBVIOUS
  <2>3. /\ value' \in {v \in [DOMAIN entries -> Word] : \A s \in DOMAIN entries :
                         v[s] \in IF s \in ToSet(chain) THEN EntryWords(s) ELSE {value[s]}}
        /\ irWord' \in {v \in [DOMAIN entries -> Word] : \A s \in DOMAIN entries :
                         v[s] \in IF s \in ToSet(chain) THEN IRWords(s, value'[s]) ELSE {irWord[s]}}
        /\ globalList' = p /\ decls' = Tail(decls)
    BY <1>5, <2>1, <2>2 DEF GenDeclStmt
  <2>4. /\ value' \in [1 .. n -> Word]
        /\ \A s \in 1 .. n : /\ s \in ToSet(chain) => value'[s] \in EntryWords(s)
                             /\ s \notin ToSet(chain) => value'[s] = value[s]
    BY <1>1, <2>3
  <2>5. \A s \in 1 .. n : /\ s \in ToSet(chain) => irWord'[s] \in IRWords(s, value'[s])
                          /\ s \notin ToSet(chain) => irWord'[s] = irWord[s]
    BY <1>1, <2>3
  <2>6. GlobalsTyped'
    <3>1. value' \in Envs(n)
      BY <2>4, WordFacts DEF Envs
    <3> QED BY <1>1, <1>2, <3>1 DEF GlobalDataInv, GlobalsTyped
  <2>7. OneEach(decls, globalList, n) /\ decls \in Seq(S) /\ globalList \in Seq(Nat)
    BY <1>1 DEF GlobalDataInv, EachOnce, OneEach
  <2>8. chain \in Seq(Nat)
    <3> HIDE DEF S
    <3>1. chain \in S
      BY <1>2, <2>1, <2>7
    <3> QED BY <3>1 DEF S
  <2>9. Backwards(p, globalList, chain)
    BY <2>2, <2>7, <2>8, ReverseBackwards
  <2>10. /\ OneEach(decls', p, n)
         /\ \A i \in 1 .. Len(globalList) : ~\E j \in 1 .. Len(chain) : chain[j] = globalList[i]
    <3>1. PICK rest : rest = Tail(decls)
      OBVIOUS
    <3>2. PICK d : d = decls
      OBVIOUS
    <3>3. OneEach(d, globalList, n) /\ d # <<>> /\ chain = Head(d) /\ rest = Tail(d)
      BY <1>2, <2>1, <2>7, <3>1, <3>2
    <3>4. OneEach(rest, p, n) /\ Apart(globalList, chain)
      BY <2>9, <3>3, OneEachGenerated
    <3> QED BY <2>3, <3>1, <3>4 DEF Apart
  <2>11. EachOnce'
    BY <1>1, <1>2, <2>3, <2>10 DEF EachOnce
  <2>12. \A x : x \in ToSet(chain) <=> \E j \in 1 .. Len(chain) : chain[j] = x
    <3>1. DOMAIN chain = 1 .. Len(chain)
      BY <2>8
    <3> QED BY <3>1 DEF ToSet
  <2>13. ASSUME NEW i \in 1 .. Len(p), IsLiteral(p[i])
         PROVE  value'[p[i]] = entries[p[i]].init[1].v /\ irWord'[p[i]] = entries[p[i]].init[1].v
    <3>1. PICK s : s = p[i]
      OBVIOUS
    <3>2. s \in 1 .. n
      BY <2>10, <3>1 DEF OneEach
    <3>3. CASE i \in 1 .. Len(globalList)
      <4>1. s = globalList[i]
        BY <2>9, <3>1, <3>3 DEF Backwards
      <4>2. s \notin ToSet(chain)
        BY <2>10, <2>12, <3>3, <4>1
      <4>3. value[s] = entries[s].init[1].v /\ irWord[s] = entries[s].init[1].v
        BY <2>13, <3>1, <3>3, <4>1 DEF GlobalDataInv, LiteralsReached
      <4> QED BY <2>4, <2>5, <3>1, <3>2, <4>2, <4>3
    <3>4. CASE i \notin 1 .. Len(globalList)
      <4>1. PICK j \in 1 .. Len(chain) : i = Len(globalList) + (Len(chain) - j + 1)
        BY <2>9, <3>4 DEF Backwards
      <4>2. s = chain[j]
        BY <2>9, <3>1, <4>1 DEF Backwards
      <4>3. s \in ToSet(chain)
        BY <2>12, <4>2
      <4>4. entries[s].init # <<>> /\ Last(entries[s].init).k # "not"
            /\ Readable(s) = {entries[s].init[1].v}
        BY <2>13, <3>1 DEF IsLiteral, Readable, Last
      <4>5. value'[s] = entries[s].init[1].v
        BY <2>4, <3>2, <4>3, <4>4 DEF EntryWords
      <4>6. irWord'[s] = value'[s]
        BY <2>5, <3>2, <4>3, <4>4 DEF IRWords
      <4> QED BY <3>1, <4>5, <4>6
    <3> QED BY <3>3, <3>4
  <2>14. LiteralsReached'
    BY <1>2, <2>3, <2>13 DEF LiteralsReached, IsLiteral
  <2> QED BY <1>3, <2>6, <2>11, <2>14 DEF GlobalDataInv
<1> QED BY <1>4, <1>5

LEMMA NextKeepsGlobalData == GlobalDataInv /\ [Next]_vars => GlobalDataInv'
<1> SUFFICES ASSUME GlobalDataInv, [Next]_vars PROVE GlobalDataInv'
  OBVIOUS
<1>1. PICK n \in Nat : n = Len(entries) /\ DOMAIN entries = 1 .. n
  BY ParsingFacts
<1>2. ASSUME NEW v \in Literals, Primary(Token("const", v)) PROVE GlobalDataInv'
  <2>1. Token("const", v) \in Tokens(n) /\ Token("const", v).k \in Leaves
    BY WordAssumption, WordFacts DEF Token, Tokens, Lexemes, Kinds, Leaves
  <2> QED BY <1>1, <1>2, <2>1, PrimaryKeeps
<1>3. ASSUME NEW s \in DOMAIN entries, Primary(Token("id", s)) PROVE GlobalDataInv'
  <2>1. Token("id", s) \in Tokens(n) /\ Token("id", s).k \in Leaves
    BY <1>1 DEF Token, Tokens, Lexemes, Kinds, Leaves
  <2> QED BY <1>1, <1>3, <2>1, PrimaryKeeps
<1>4. ASSUME Primary(Token("call", 0)) PROVE GlobalDataInv'
  <2>1. Token("call", 0) \in Tokens(n) /\ Token("call", 0).k \in Leaves
    BY DEF Token, Tokens, Lexemes, Kinds, Leaves
  <2> QED BY <1>1, <1>4, <2>1, PrimaryKeeps
<1>5. ASSUME NEW s \in DOMAIN entries, AssignStmt(s) PROVE GlobalDataInv'
  BY <1>5, AssignStmtKeeps
<1>6. ASSUME NEW op \in Unary, Signed(op) PROVE GlobalDataInv'
  BY <1>6, SignedKeeps
<1>7. ASSUME NEW op \in Binary, Operator(op) PROVE GlobalDataInv'
  BY <1>7, OperatorKeeps
<1> QED BY <1>2, <1>3, <1>4, <1>5, <1>6, <1>7, OtherUseKeeps, DeclarationKeeps, PhaseKeeps,
            GenDeclStmtKeeps DEF Next

\* The parser's and the generator's invariant of the words of globals: what an
\* expression folds to is what its text means, every entry is declared or
\* generated once, and the literals of generated entries are in place.
THEOREM GlobalDataInvariant == Spec => []GlobalDataInv
BY InitGlobalData, NextKeepsGlobalData, PTL DEF Spec

\* Folding while parsing agrees with running the assignments in their order,
\* for every width of words and every program without a sign before a name.
THEOREM FoldingFollowsTheText == Spec => []FoldsStraightLineText
<1>1. GlobalDataInv => FoldsStraightLineText
  BY DEF GlobalDataInv
<1> QED BY <1>1, GlobalDataInvariant, PTL

-----------------------------------------------------------------------------
(***************************************************************************)
(* The sections.                                                           *)
(***************************************************************************)
Marked(isConst) == {i \in DOMAIN globalList : entries[globalList[i]].const = isConst}

LEMMA PrintedAt ==
  ASSUME globalList \in Seq(Nat), NEW isConst \in BOOLEAN
  PROVE  /\ Printed(isConst) \in Seq(Nat)
         /\ \E from : ChosenAt(Printed(isConst), globalList, Marked(isConst), from)
<1>1. [i \in DOMAIN globalList |->
         IF entries[globalList[i]].const = isConst THEN <<globalList[i]>> ELSE <<>>]
        = [i \in DOMAIN globalList |-> IF i \in Marked(isConst) THEN <<globalList[i]>> ELSE <<>>]
  BY DEF Marked
<1>2. Printed(isConst) = Chosen(globalList, Marked(isConst))
  BY <1>1 DEF Printed, Chosen
<1>3. Marked(isConst) \subseteq DOMAIN globalList
  BY DEF Marked
<1> QED BY <1>2, <1>3, ChosenFrom

LEMMA LiteralMeans ==
  ASSUME GlobalDataInv, NEW s \in DOMAIN entries, IsLiteral(s)
  PROVE  TextValue(entries[s].text, run, Unknown) = entries[s].init[1].v
<1>1. PICK n : n = Len(entries)
  OBVIOUS
<1>2. n \in Nat /\ n >= n /\ run \in Envs(n) /\ s \in 1 .. n
  <2>1. n \in Nat /\ run \in Envs(n) /\ s \in 1 .. n
    BY <1>1, ParsingFacts
  <2> QED BY <2>1
<1>3. Folds(entries[s].init, entries[s].text, n, FALSE)
  BY <1>1, <1>2 DEF GlobalDataInv, InitialisersFold
<1>4. FoldsIn(entries[s].init, entries[s].text, n, FALSE, run, run, Unknown)
  BY <1>2, <1>3 DEF Folds
<1>5. PICK u, w : Ends(TRUE, entries[s].text, run, Unknown, w)
                  /\ Related(entries[s].init, u, w, FALSE /\ Follows(run, run, n))
  BY <1>4 DEF FoldsIn
<1>6. Literal(entries[s].init)
  BY DEF IsLiteral, Literal
<1>7. w = <<entries[s].init[1].v>> /\ w \in Seq(Int)
  BY <1>5, <1>6 DEF Related
<1>8. entries[s].text \in Seq(Lexemes)
  <2> DEFINE T == Declarations
  <2>1. entries[s] \in T
    <3>1. entries \in Seq(T)
      BY DEF GlobalDataInv, GlobalsTyped
    <3> HIDE DEF T
    <3> QED BY <3>1
  <2> QED BY <2>1 DEF Declarations
<1>9. Last(w) = entries[s].init[1].v
  <2>1. PICK x : x = entries[s].init[1].v
    OBVIOUS
  <2>2. w = <<x>>
    BY <1>7, <2>1
  <2>3. Last(<<x>>) = x
    BY DEF Last
  <2> QED BY <2>1, <2>2, <2>3
<1> QED BY <1>5, <1>8, <1>9, TextEvaluated

LEMMA InvArrives == GlobalDataInv => InitialisersArrive
<1> SUFFICES ASSUME GlobalDataInv, phase = "done", NEW s \in DOMAIN entries, IsLiteral(s)
             PROVE  LET section == IF entries[s].const THEN RodataSection ELSE DataSection
                        other == IF entries[s].const THEN DataSection ELSE RodataSection
                    IN  /\ {i \in DOMAIN section : section[i][1] = s} # {}
                        /\ \A i \in DOMAIN section : section[i][1] = s =>
                             /\ section[i][2] = TextValue(entries[s].text, run, Unknown)
                             /\ \A j \in DOMAIN section : section[j][1] = s => i = j
                        /\ \A i \in DOMAIN other : other[i][1] # s
                        /\ irWord[s] = TextValue(entries[s].text, run, Unknown)
  BY DEF InitialisersArrive
<1>1. PICK word : word = TextValue(entries[s].text, run, Unknown) /\ word = entries[s].init[1].v
  BY LiteralMeans
<1>2. PICK n \in Nat : n = Len(entries) /\ DOMAIN entries = 1 .. n
  BY ParsingFacts
<1>3. OneEach(decls, globalList, n) /\ decls = <<>>
  BY <1>2 DEF GlobalDataInv, EachOnce, Phases
<1>4. PICK g \in Seq(Nat) : g = globalList
  BY <1>3 DEF OneEach
<1>5. DOMAIN g = 1 .. Len(g) /\ \A i, k \in 1 .. Len(g) : g[i] = g[k] => i = k
  BY <1>3, <1>4 DEF OneEach
<1>6. PICK place \in 1 .. Len(g) : g[place] = s
  <2>1. Generated(g, s) \/ Declared(<<>>, s)
    BY <1>2, <1>3, <1>4 DEF OneEach
  <2>2. ~Declared(<<>>, s)
    <3>1. \A i \in 1 .. Len(<<>>) : FALSE
      OBVIOUS
    <3> QED BY <3>1 DEF Declared
  <2> QED BY <2>1, <2>2 DEF Generated
<1>7. value[s] = word /\ irWord[s] = word
  BY <1>1, <1>4, <1>6 DEF GlobalDataInv, LiteralsReached
<1>8. PICK mark \in BOOLEAN : mark = entries[s].const
  <2> DEFINE T == Declarations
  <2>1. entries[s] \in T
    <3>1. entries \in Seq(T)
      BY DEF GlobalDataInv, GlobalsTyped
    <3> HIDE DEF T
    <3> QED BY <3>1
  <2> QED BY <2>1 DEF Declarations
<1>9. ASSUME NEW m \in BOOLEAN
      PROVE  /\ DOMAIN Printed(m) = 1 .. Len(Printed(m))
             /\ \E from : ChosenAt(Printed(m), g, Marked(m), from)
  <2>1. Printed(m) \in Seq(Nat) /\ \E from : ChosenAt(Printed(m), g, Marked(m), from)
    BY <1>4, PrintedAt
  <2> QED BY <2>1
<1>10. PICK c : c = Printed(mark)
  OBVIOUS
<1>11. PICK from : ChosenAt(c, g, Marked(mark), from)
  BY <1>9, <1>10
<1>12. /\ from \in [1 .. Len(c) -> Marked(mark)] /\ DOMAIN c = 1 .. Len(c)
       /\ \A x \in 1 .. Len(c) : c[x] = g[from[x]]
       /\ \A x, y \in 1 .. Len(c) : x < y => from[x] < from[y]
       /\ \A i \in Marked(mark) : \E x \in 1 .. Len(c) : from[x] = i
  BY <1>9, <1>10, <1>11 DEF ChosenAt
<1>13. Marked(mark) \subseteq 1 .. Len(g) /\ place \in Marked(mark)
  BY <1>4, <1>5, <1>6, <1>8 DEF Marked
<1>14. \E x \in 1 .. Len(c) : c[x] = s
  <2>1. PICK x \in 1 .. Len(c) : from[x] = place
    BY <1>12, <1>13
  <2> QED BY <1>6, <1>12, <2>1
<1>15. \A x, y \in 1 .. Len(c) : c[x] = s /\ c[y] = s => x = y
  <2> SUFFICES ASSUME NEW x \in 1 .. Len(c), NEW y \in 1 .. Len(c), c[x] = s, c[y] = s
               PROVE  x = y
    OBVIOUS
  <2>1. from[x] \in 1 .. Len(g) /\ from[y] \in 1 .. Len(g) /\ g[from[x]] = s /\ g[from[y]] = s
    BY <1>12, <1>13
  <2>2. from[x] = from[y]
    BY <1>5, <2>1
  <2>3. ~(x < y) /\ ~(y < x)
    BY <1>12, <2>1, <2>2
  <2> QED BY <2>3
<1>16. PICK no \in BOOLEAN : no = ~mark
  OBVIOUS
<1>17. PICK o : o = Printed(no)
  OBVIOUS
<1>18. DOMAIN o = 1 .. Len(o) /\ \A x \in 1 .. Len(o) : o[x] # s
  <2>1. PICK at : ChosenAt(o, g, Marked(no), at)
    BY <1>9, <1>17
  <2>2. \A x \in 1 .. Len(o) : at[x] \in Marked(no) /\ o[x] = g[at[x]]
    BY <2>1 DEF ChosenAt
  <2>3. \A i \in Marked(no) : g[i] # s
    BY <1>4, <1>8, <1>16 DEF Marked
  <2> QED BY <1>9, <1>17, <2>2, <2>3
<1> DEFINE Section(q) == [i \in DOMAIN q |-> <<q[i], value[q[i]]>>]
<1>19. /\ (IF entries[s].const THEN RodataSection ELSE DataSection) = Section(c)
       /\ (IF entries[s].const THEN DataSection ELSE RodataSection) = Section(o)
  <2>1. RodataSection = Section(Printed(TRUE)) /\ DataSection = Section(Printed(FALSE))
    BY DEF RodataSection, DataSection
  <2> HIDE DEF Section
  <2> QED BY <1>8, <1>10, <1>16, <1>17, <2>1
<1>20. /\ DOMAIN Section(c) = 1 .. Len(c) /\ DOMAIN Section(o) = 1 .. Len(o)
       /\ \A i \in 1 .. Len(c) : Section(c)[i][1] = c[i] /\ Section(c)[i][2] = value[c[i]]
       /\ \A i \in 1 .. Len(o) : Section(o)[i][1] = o[i]
  BY <1>12, <1>18
<1> HIDE DEF Section
<1> DEFINE sec == Section(c)
           oth == Section(o)
<1>21. /\ {i \in DOMAIN sec : sec[i][1] = s} # {}
       /\ \A i \in DOMAIN sec : sec[i][1] = s =>
            sec[i][2] = word /\ \A j \in DOMAIN sec : sec[j][1] = s => i = j
       /\ \A i \in DOMAIN oth : oth[i][1] # s
  <2> HIDE DEF sec, oth
  <2>1. /\ DOMAIN sec = 1 .. Len(c) /\ DOMAIN oth = 1 .. Len(o)
        /\ \A i \in 1 .. Len(c) : sec[i][1] = c[i] /\ sec[i][2] = value[c[i]]
        /\ \A i \in 1 .. Len(o) : oth[i][1] = o[i]
    BY <1>20 DEF sec, oth
  <2>2. {i \in DOMAIN sec : sec[i][1] = s} # {}
    BY <1>14, <2>1, SMTT(20)
  <2>3. ASSUME NEW i \in DOMAIN sec, sec[i][1] = s
        PROVE  sec[i][2] = word /\ \A j \in DOMAIN sec : sec[j][1] = s => i = j
    <3>1. i \in 1 .. Len(c) /\ c[i] = s /\ sec[i][2] = value[c[i]]
      BY <2>1, <2>3
    <3>2. ASSUME NEW j \in DOMAIN sec, sec[j][1] = s PROVE i = j
      <4>1. j \in 1 .. Len(c) /\ c[j] = s
        BY <2>1, <3>2
      <4> QED BY <1>15, <3>1, <4>1
    <3> QED BY <1>7, <3>1, <3>2
  <2>4. \A i \in DOMAIN oth : oth[i][1] # s
    BY <1>18, <2>1
  <2> QED BY <2>2, <2>3, <2>4
<1> HIDE DEF sec, oth
<1> QED BY <1>1, <1>7, <1>19, <1>21 DEF sec, oth

\* Every literal initialiser is printed once, in the section of its mark, with
\* the value of its text, and the IR has the same word.
THEOREM LiteralsArrive == Spec => []InitialisersArrive
BY GlobalDataInvariant, InvArrives, PTL

-----------------------------------------------------------------------------
LEMMA StepStopsForReasons ==
  ASSUME GlobalDataInv, [Next]_vars
  PROVE  [ /\ crashed' = "trap" => signed \/ TextValue(text, run, 0) \in {Trap, Unknown}
           /\ crashed' = "wild" => entries # <<>> ]_vars
<1> SUFFICES ASSUME Next
             PROVE  /\ crashed' = "trap" => signed \/ TextValue(text, run, 0) \in {Trap, Unknown}
                    /\ crashed' = "wild" => entries # <<>>
  OBVIOUS
<1>1. crashed = "no"
  BY DEF Next, Primary, AssignStmt, Signed, Operator, DeclStmt, CommaDeclarator, FuncDef,
         OtherUse, StartGenCode, GenDeclStmt, GenFunctionDef, Parsing
<1>2. crashed' # "no" => GenDeclStmt \/ \E s \in DOMAIN entries : AssignStmt(s)
  BY <1>1 DEF Next, Primary, Signed, Operator, DeclStmt, CommaDeclarator, DeclStmtNode, FuncDef,
              OtherUse, StartGenCode, GenFunctionDef, unchangedByExp
<1>3. ASSUME crashed' = "trap" PROVE signed \/ TextValue(text, run, 0) \in {Trap, Unknown}
  <2>1. ~GenDeclStmt
    BY <1>1, <1>3 DEF GenDeclStmt
  <2>2. PICK s \in DOMAIN entries : AssignStmt(s)
    BY <1>2, <1>3, <2>1
  <2>3. Parsing /\ Complete /\ GetValue(expr) = Trap
    BY <1>1, <1>3, <2>2 DEF AssignStmt
  <2>4. ~signed => TextValue(text, run, 0) = Unknown \/ GetValue(expr) = TextValue(text, run, 0)
    BY <2>3, Folded
  <2> QED BY <2>3, <2>4
<1>4. ASSUME crashed' = "wild" PROVE entries # <<>>
  <2>1. GenDeclStmt
    <3>1. \A s \in DOMAIN entries : ~AssignStmt(s)
      BY <1>1, <1>4 DEF AssignStmt
    <3> QED BY <1>2, <1>4, <3>1
  <2>2. decls # <<>> /\ OneEach(decls, globalList, Len(entries))
    BY <2>1 DEF GenDeclStmt, GlobalDataInv, EachOnce
  <2> DEFINE S == Seq(Nat)
  <2>3. decls \in Seq(S)
    BY <2>2 DEF OneEach
  <2>4. 1 \in 1 .. Len(decls) /\ decls[1] \in S
    <3> HIDE DEF S
    <3> QED BY <2>2, <2>3
  <2>5. Len(decls[1]) >= 1
    BY <2>2, <2>4 DEF OneEach
  <2>6. 1 \in 1 .. Len(decls[1])
    BY <2>4, <2>5
  <2>7. decls[1][1] \in 1 .. Len(entries)
    BY <2>2, <2>4, <2>6 DEF OneEach
  <2>8. ASSUME entries = <<>> PROVE FALSE
    <3>1. Len(entries) = 0
      BY <2>8
    <3> QED BY <2>7, <3>1
  <2> QED BY <2>8
<1> QED BY <1>3, <1>4

\* The compiler dies of an assignment only for the reasons the text gives, and
\* of the wild insert block only with a global to generate.
THEOREM StopsForReasons == Spec => StopsOnlyForReasons
BY GlobalDataInvariant, StepStopsForReasons, PTL DEF Spec, StopsOnlyForReasons
=============================================================================
