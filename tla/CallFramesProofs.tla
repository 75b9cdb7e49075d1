-------------------------- MODULE CallFramesProofs --------------------------
(***************************************************************************)
(* What CallFrames guarantees for every set of functions, whatever they    *)
(* save and allocate, every size of the stack and every depth of calls     *)
(* that fits on it.                                                        *)
(***************************************************************************)
EXTENDS CallFrames, Sequences, Stepwise

Largest ==
  CHOOSE m \in 0 .. StackTop :
    /\ \A f \in Func : FrameSize(f) <= m
    /\ FrameSize(Main) + (MaxDepth - 1) * m <= StackTop

(***************************************************************************)
(* CallerOf and Unwound with the memory as an argument, so that what they  *)
(* find before and after a step can be compared.                           *)
(***************************************************************************)
Unset == Data(CHOOSE v \in Value : TRUE)

LoadIn(m, a) == IF a \in Address THEN m[a] ELSE Unset

LinkOf(v, m) == LoadIn(m, v.base + Cardinality(Saved[v.func]) + 1)

CallerIn(v, m) ==
  LET frame == LoadIn(m, v.base + Cardinality(Saved[v.func]))
      link == LinkOf(v, m)
  IN  View(IF link.k = "return" THEN link.func ELSE Nobody,
           [r \in Reg |-> IF r \in Saved[v.func]
                          THEN LoadIn(m, v.base + Cardinality({q \in Saved[v.func] : q < r}))
                          ELSE v.file[r]],
           IF frame.k = "pointer" THEN frame.a ELSE 0,
           IF link.k = "return" THEN link.site ELSE NoSite)

Views ==
  {v \in [func : Func \cup {Nobody}, file : [Reg -> Word], base : 0 .. StackTop + 1,
          site : Site \cup {NoSite}] : v.func = Nobody => v.site = NoSite}

\* u lists the frames that unwinding finds in m, from the view v on.
Unwinds(u, v, m) ==
  /\ u \in [Nat -> Views]
  /\ u[0] = v
  /\ \A n \in Nat : u[n + 1] = IF u[n].func \in Func THEN CallerIn(u[n], m) ELSE u[n]

(***************************************************************************)
(* The invariant.  As long as no function with spilled registers has       *)
(* returned, unwinding finds depth frames and then the C runtime; each     *)
(* frame ends where the next one begins (Ceiling, Floor), holds a return   *)
(* address, and leaves room for the calls that may still come.             *)
(***************************************************************************)
Ceiling(v) == v.base + Cardinality(Saved[v.func]) + 2
Floor(v) == IF v.func = Nobody THEN StackTop + 1 ELSE Bottom(v)

FrameHolds(v, next, m, level) ==
  /\ v.func \in Func
  /\ Ceiling(v) = Floor(next)
  /\ LinkOf(v, m).k = "return"
  /\ Bottom(v) > (MaxDepth - level) * Largest

Nested(u, m, d) ==
  /\ \A n \in 0 .. d - 1 : FrameHolds(u[n], u[n + 1], m, d - n)
  /\ u[d].func = Nobody /\ u[d].base = StackTop + 1

Returns == {ReturnTo(f, s) : f \in Func, s \in Site} \cup {ReturnTo(Nobody, NoSite)}

Types ==
  /\ pc \in {"entry", "body", "exit", "over"}
  /\ func \in Func \cup {Nobody}
  /\ regs \in [Reg -> Word] /\ r0 \in Word /\ mem \in [Address -> Word]
  /\ fp \in 0 .. StackTop + 1 /\ sp \in Int /\ lr \in Returns
  /\ depth \in 0 .. MaxDepth

\* Where sp is, and how deep the calls are, at each point of a function.
AtPc ==
  /\ pc = "entry" =>
       func \in Func /\ sp = Floor(Current) /\ depth < MaxDepth /\ (depth = 0 => func = Main)
  /\ pc = "body" => depth > 0 /\ sp = Bottom(Current)
  /\ pc = "exit" => depth > 0 /\ sp = fp - Spills[func]
  /\ pc = "over" => depth = 0

CFInv ==
  /\ trusted \in BOOLEAN
  /\ trusted => Types /\ AtPc /\ Nested(Unwound, mem, depth)

-----------------------------------------------------------------------------
(***************************************************************************)
(* Sizes, and the places of registers in a frame.                          *)
(***************************************************************************)
LEMMA Sizes ==
  ASSUME NEW f \in Func
  PROVE  /\ IsFiniteSet(Saved[f]) /\ Saved[f] \subseteq 4 .. 10 /\ Saved[f] \subseteq Reg
         /\ Cardinality(Saved[f]) \in Nat
         /\ FinalSize(f) \in Nat /\ Spills[f] \in Nat
         /\ SizeAtSelection(f) = FinalSize(f) - Spills[f]
         /\ FrameSize(f) = Cardinality(Saved[f]) + 2 + FinalSize(f)
<1>1. Saved[f] \subseteq 4 .. 10 /\ Locals[f] \in Nat /\ Spills[f] \in Nat
  BY FrameAssumption
<1>2. IsFiniteSet(4 .. 10)
  <2>1. 4 \in Int /\ 10 \in Int
    OBVIOUS
  <2> QED BY <2>1, FS_Interval, Zenon
<1>3. IsFiniteSet(Saved[f])
  BY <1>1, <1>2, FS_Subset
<1>4. Cardinality(Saved[f]) \in Nat
  BY <1>3, FS_CardinalityType
<1>5. FinalSize(f) \in Nat /\ SizeAtSelection(f) = FinalSize(f) - Spills[f]
  BY <1>1 DEF FinalSize, SizeAtSelection
<1> QED BY <1>1, <1>3, <1>4, <1>5 DEF FrameSize, Reg

LEMMA LargestFacts ==
  /\ Largest \in 0 .. StackTop
  /\ \A f \in Func : FrameSize(f) <= Largest
  /\ FrameSize(Main) + (MaxDepth - 1) * Largest <= StackTop
BY StackAssumption DEF Largest

LEMMA PlaceFacts ==
  ASSUME NEW f \in Func
  PROVE  /\ \A r \in Reg : PlaceOf(f, r) \in Nat
         /\ \A r \in Saved[f] : PlaceOf(f, r) \in 0 .. Cardinality(Saved[f]) - 1
         /\ \A r, q \in Saved[f] : PlaceOf(f, r) = PlaceOf(f, q) => r = q
<1> DEFINE S == Saved[f]
           Below(r) == {q \in S : q < r}
<1>1. IsFiniteSet(S) /\ S \subseteq 4 .. 10
  BY Sizes
<1>2. ASSUME NEW Y \in SUBSET S, NEW X \in SUBSET Y
      PROVE  /\ IsFiniteSet(X) /\ Cardinality(X) \in Nat /\ Cardinality(Y) \in Nat
             /\ Cardinality(X) <= Cardinality(Y)
             /\ Cardinality(X) = Cardinality(Y) => X = Y
  <2>1. IsFiniteSet(Y)
    BY <1>1, FS_Subset
  <2> QED BY <2>1, FS_Subset, FS_CardinalityType
<1>3. ASSUME NEW r PROVE PlaceOf(f, r) = Cardinality(Below(r)) /\ PlaceOf(f, r) \in Nat
  <2>1. PlaceOf(f, r) = Cardinality(Below(r))
    BY DEF PlaceOf, SavedRegs
  <2>2. Below(r) \in SUBSET S
    OBVIOUS
  <2> HIDE DEF Below, S
  <2> QED BY <1>2, <2>1, <2>2
<1>4. ASSUME NEW r \in S PROVE PlaceOf(f, r) \in 0 .. Cardinality(S) - 1
  <2>1. Below(r) \in SUBSET S /\ Below(r) # S
    BY <1>1
  <2>2. Cardinality(Below(r)) \in Nat /\ Cardinality(S) \in Nat /\ Cardinality(Below(r)) <= Cardinality(S)
        /\ Cardinality(Below(r)) # Cardinality(S)
    <3> HIDE DEF Below, S
    <3> QED BY <1>2, <2>1
  <2>3. PlaceOf(f, r) = Cardinality(Below(r))
    BY <1>3
  <2> HIDE DEF Below, S
  <2> QED BY <2>2, <2>3
<1>5. ASSUME NEW r \in S, NEW q \in S, PlaceOf(f, r) = PlaceOf(f, q), r < q PROVE FALSE
  <2>1. Below(r) \in SUBSET Below(q) /\ Below(q) \in SUBSET S /\ r \in Below(q) /\ r \notin Below(r)
    <3>1. ASSUME NEW x \in S, x < r PROVE x < q
      BY <1>1, <1>5, <3>1
    <3> QED BY <1>1, <1>5, <3>1
  <2>2. Cardinality(Below(r)) = Cardinality(Below(q))
    <3>1. PlaceOf(f, r) = Cardinality(Below(r)) /\ PlaceOf(f, q) = Cardinality(Below(q))
      BY <1>3
    <3> HIDE DEF Below, S
    <3> QED BY <1>5, <3>1
  <2> HIDE DEF Below, S
  <2> QED BY <1>2, <2>1, <2>2
<1>6. ASSUME NEW r \in S, NEW q \in S, PlaceOf(f, r) = PlaceOf(f, q) PROVE r = q
  <2>1. r \in Int /\ q \in Int
    BY <1>1
  <2>2. ~(r < q) /\ ~(q < r)
    BY <1>5, <1>6
  <2> QED BY <2>1, <2>2
<1> QED BY <1>3, <1>4, <1>6

\* Every place belongs to a register.
LEMMA EveryPlace ==
  ASSUME NEW f \in Func, NEW i \in 0 .. Cardinality(Saved[f]) - 1
  PROVE  \E r \in Saved[f] : PlaceOf(f, r) = i
<1> DEFINE S == Saved[f]
           n == Cardinality(S)
           T == {PlaceOf(f, r) : r \in S}
           g == [r \in S |-> PlaceOf(f, r)]
<1>1. IsFiniteSet(S) /\ n \in Nat
  BY Sizes
<1>2. T \subseteq 0 .. n - 1 /\ \A r, q \in S : PlaceOf(f, r) = PlaceOf(f, q) => r = q
  BY PlaceFacts
<1>3. g \in Bijection(S, T)
  BY <1>2 DEF Bijection, Injection, Surjection, IsInjective
<1>4. IsFiniteSet(T) /\ Cardinality(T) = n
  <2> HIDE DEF S, T, g
  <2> QED BY <1>1, <1>3, FS_Bijection DEF ExistsBijection
<1>5. IsFiniteSet(0 .. n - 1) /\ Cardinality(0 .. n - 1) = n
  <2>1. 0 \in Int /\ n - 1 \in Int /\ (n - 1) - 0 + 1 = n /\ (0 > n - 1 => n = 0)
    BY <1>1
  <2>2. /\ IsFiniteSet(0 .. n - 1)
        /\ Cardinality(0 .. n - 1) = IF 0 > n - 1 THEN 0 ELSE (n - 1) - 0 + 1
    <3> HIDE DEF n
    <3> QED BY <2>1, FS_Interval, Zenon
  <2> HIDE DEF n
  <2> QED BY <1>1, <2>1, <2>2
<1>6. T = 0 .. n - 1
  <2> HIDE DEF T, n
  <2> QED BY <1>2, <1>4, <1>5, FS_Subset
<1> QED BY <1>6

-----------------------------------------------------------------------------
(***************************************************************************)
(* Unwinding.                                                              *)
(***************************************************************************)
LEMMA WordFacts ==
  /\ Unset \in Word /\ Unset.k = "data"
  /\ \A v \in Value : Data(v) \in Word
  /\ \A a \in 0 .. StackTop + 1 : Pointer(a) \in Word /\ Pointer(a).k = "pointer" /\ Pointer(a).a = a
  /\ Returns \subseteq Word
  /\ \A w \in Returns : /\ w.k = "return" /\ w.func \in Func \cup {Nobody}
                        /\ w.site \in Site \cup {NoSite}
                        /\ (w.func = Nobody => w.site = NoSite)
                        /\ (w.func # Nobody => w.site \in Site)
  /\ \A w \in Word : /\ w.k = "return" => w \in Returns
                     /\ w.k = "pointer" => w.a \in 0 .. StackTop + 1
<1>1. PICK v : v = CHOOSE x \in Value : TRUE
  OBVIOUS
<1>2. v \in Value
  BY <1>1, FrameAssumption
<1>3. Unset = Data(v)
  BY <1>1 DEF Unset
<1>4. Nobody \notin Func
  BY FrameAssumption
<1>5. Unset \in Word /\ Unset.k = "data"
  BY <1>2, <1>3 DEF Data, Word
<1>6. \A x \in Value : Data(x) \in Word
  BY DEF Word
<1>7. \A a \in 0 .. StackTop + 1 : Pointer(a) \in Word /\ Pointer(a).k = "pointer" /\ Pointer(a).a = a
  BY DEF Word, Pointer
<1>8. Returns \subseteq Word
  BY DEF Word, Returns
<1>9. ASSUME NEW w \in Returns
      PROVE  /\ w.k = "return" /\ w.func \in Func \cup {Nobody}
             /\ w.site \in Site \cup {NoSite}
             /\ (w.func = Nobody => w.site = NoSite)
             /\ (w.func # Nobody => w.site \in Site)
  <2>1. CASE w = ReturnTo(Nobody, NoSite)
    BY <2>1 DEF ReturnTo
  <2>2. CASE w # ReturnTo(Nobody, NoSite)
    <3>1. PICK f \in Func, s \in Site : w = ReturnTo(f, s)
      BY <2>2 DEF Returns
    <3> QED BY <1>4, <3>1 DEF ReturnTo
  <2> QED BY <2>1, <2>2
<1>10. ASSUME NEW w \in Word
       PROVE  /\ w.k = "return" => w \in Returns
              /\ w.k = "pointer" => w.a \in 0 .. StackTop + 1
  <2>1. CASE \E x \in Value : w = Data(x)
    BY <2>1 DEF Data
  <2>2. CASE \E a \in 0 .. StackTop + 1 : w = Pointer(a)
    BY <2>2 DEF Pointer
  <2>3. CASE w \in Returns
    BY <1>9, <2>3
  <2> QED BY <2>1, <2>2, <2>3 DEF Word, Returns
<1> QED BY <1>5, <1>6, <1>7, <1>8, <1>9, <1>10

LEMMA LoadIsWord ==
  ASSUME NEW m \in [Address -> Word], NEW a
  PROVE  LoadIn(m, a) \in Word
BY WordFacts DEF LoadIn

LEMMA CallerTyped ==
  ASSUME NEW v \in Views, v.func \in Func, NEW m \in [Address -> Word]
  PROVE  CallerIn(v, m) \in Views
<1> DEFINE frame == LoadIn(m, v.base + Cardinality(Saved[v.func]))
           link == LinkOf(v, m)
           file == [r \in Reg |-> IF r \in Saved[v.func]
                          THEN LoadIn(m, v.base + Cardinality({q \in Saved[v.func] : q < r}))
                          ELSE v.file[r]]
<1>1. frame \in Word /\ link \in Word
  BY LoadIsWord DEF LinkOf
<1>2. file \in [Reg -> Word]
  BY LoadIsWord DEF Views
<1>3. frame.k = "pointer" => frame.a \in 0 .. StackTop + 1
  <2> HIDE DEF frame
  <2> QED BY <1>1, WordFacts
<1>4. link.k = "return" => /\ link.func \in Func \cup {Nobody} /\ link.site \in Site \cup {NoSite}
                           /\ (link.func = Nobody => link.site = NoSite)
  <2> HIDE DEF link
  <2> QED BY <1>1, WordFacts
<1>5. 0 \in 0 .. StackTop + 1
  BY FrameAssumption
<1>6. CallerIn(v, m) = View(IF link.k = "return" THEN link.func ELSE Nobody, file,
                            IF frame.k = "pointer" THEN frame.a ELSE 0,
                            IF link.k = "return" THEN link.site ELSE NoSite)
  BY DEF CallerIn
<1> HIDE DEF frame, link, file
<1> QED BY <1>2, <1>3, <1>4, <1>5, <1>6 DEF View, Views

LEMMA CallerOfIs ==
  ASSUME NEW v
  PROVE  CallerOf(v) = CallerIn(v, mem) /\ \A a : Load(a) = LoadIn(mem, a)
BY DEF CallerOf, CallerIn, LinkOf, Load, LoadIn, Unset

LEMMA CurrentTyped ==
  ASSUME Types
  PROVE  Current \in Views
<1>1. lr.func \in Func \cup {Nobody}
  BY WordFacts DEF Types
<1> QED BY <1>1 DEF Types, Current, View, Views

LEMMA UnwoundIs ==
  Types => Unwinds(Unwound, Current, mem)
<1> SUFFICES ASSUME Types PROVE Unwinds(Unwound, Current, mem)
  OBVIOUS
<1> DEFINE Path(g) == g = [n \in Nat |-> IF n = 0 THEN Current
             ELSE CHOOSE c \in {IF v.func \in Func THEN CallerOf(v) ELSE v : v \in {g[n - 1]}} : TRUE]
           go == [v \in Views |-> IF v.func \in Func THEN CallerIn(v, mem) ELSE v]
<1>1. Unwound = CHOOSE g : Path(g)
  BY DEF Unwound
<1>2. go \in [Views -> Views]
  BY CallerTyped DEF Types
<1>3. PICK f \in [Nat -> Views] : IteratesOn(f, Current, go)
  <2> HIDE DEF go
  <2> QED BY <1>2, CurrentTyped, IterationGoesOn
<1>4. ASSUME NEW x
      PROVE  (CHOOSE c \in {IF v.func \in Func THEN CallerOf(v) ELSE v : v \in {x}} : TRUE)
               = IF x.func \in Func THEN CallerOf(x) ELSE x
  <2>1. {IF v.func \in Func THEN CallerOf(v) ELSE v : v \in {x}}
          = {IF x.func \in Func THEN CallerOf(x) ELSE x}
    OBVIOUS
  <2> QED BY <2>1
<1>5. Path(f)
  <2>1. \A n \in Nat : f[n] = IF n = 0 THEN Current ELSE go[f[n - 1]]
    BY <1>3 DEF IteratesOn
  <2>2. ASSUME NEW n \in Nat
        PROVE  f[n] = IF n = 0 THEN Current
             ELSE CHOOSE c \in {IF v.func \in Func THEN CallerOf(v) ELSE v : v \in {f[n - 1]}} : TRUE
    <3>1. CASE n = 0
      BY <2>1, <3>1
    <3>2. CASE n # 0
      <4>1. n - 1 \in Nat /\ f[n - 1] \in Views
        BY <3>2
      <4>2. go[f[n - 1]] = IF f[n - 1].func \in Func THEN CallerOf(f[n - 1]) ELSE f[n - 1]
        BY <4>1, CallerOfIs
      <4> QED BY <1>4, <2>1, <3>2, <4>2
    <3> QED BY <3>1, <3>2
  <2> QED BY <1>3, <2>2
<1>6. Path(Unwound)
  <2> HIDE DEF Path
  <2> QED BY <1>1, <1>5
<1>7. Unwound = [n \in Nat |-> IF n = 0 THEN Current
                              ELSE IF Unwound[n - 1].func \in Func THEN CallerOf(Unwound[n - 1])
                                   ELSE Unwound[n - 1]]
  <2> DEFINE u == Unwound
  <2>1. u = [n \in Nat |-> IF n = 0 THEN Current
             ELSE CHOOSE c \in {IF v.func \in Func THEN CallerOf(v) ELSE v : v \in {u[n - 1]}} : TRUE]
    BY <1>6
  <2> HIDE DEF u
  <2>2. u = [n \in Nat |-> IF n = 0 THEN Current
                           ELSE IF u[n - 1].func \in Func THEN CallerOf(u[n - 1]) ELSE u[n - 1]]
    BY <1>4, <2>1
  <2> QED BY <2>2 DEF u
<1>8. Unwound[0] = Current
  BY <1>7
<1>9. ASSUME NEW n \in Nat
      PROVE  Unwound[n + 1] = IF Unwound[n].func \in Func THEN CallerIn(Unwound[n], mem) ELSE Unwound[n]
  <2>1. n + 1 \in Nat /\ n + 1 # 0 /\ (n + 1) - 1 = n
    OBVIOUS
  <2> QED BY <1>7, <2>1, CallerOfIs
<1>10. Unwound \in [Nat -> Views]
  <2>1. ASSUME NEW m \in Nat PROVE Unwound[m] \in Views
    <3> DEFINE S == {n \in 0 .. m : Unwound[n] \in Views}
    <3>1. 0 \in S
      BY <1>8, CurrentTyped
    <3>2. ASSUME NEW n \in 0 .. m, n < m, n \in S PROVE n + 1 \in S
      <4>1. n \in Nat /\ n + 1 \in 0 .. m
        BY <3>2
      <4>2. Unwound[n + 1] \in Views
        BY <1>9, <3>2, <4>1, CallerTyped DEF Types
      <4> QED BY <4>1, <4>2
    <3>3. m \in S
      <4>1. \A n \in 0 .. m : n < m /\ n \in S => n + 1 \in S
        BY <3>2
      <4>2. m \in 0 .. m
        OBVIOUS
      <4> HIDE DEF S
      <4> QED BY <3>1, <4>1, <4>2, CountingUp
    <3> QED BY <3>3
  <2>2. Unwound = [n \in Nat |-> Unwound[n]]
    BY <1>7
  <2> QED BY <2>1, <2>2
<1> QED BY <1>8, <1>9, <1>10 DEF Unwinds

-----------------------------------------------------------------------------
(***************************************************************************)
(* What a step leaves of the frames: those from t on are found again, from *)
(* s on, when the memory above the innermost frame pointer is as before.   *)
(***************************************************************************)
SameFrame(x, y) ==
  /\ x.func = y.func /\ x.base = y.base
  /\ \A r \in Reg : (y.func \in Func => r \notin Saved[y.func]) => x.file[r] = y.file[r]

KeptFrom(m, m2, a) == \A b \in Address : b >= a => m2[b] = m[b]

LEMMA CallerKept ==
  ASSUME NEW x \in Views, NEW y \in Views, SameFrame(x, y), y.func \in Func,
         NEW m, NEW m2, KeptFrom(m, m2, y.base)
  PROVE  CallerIn(x, m2) = CallerIn(y, m) /\ LinkOf(x, m2) = LinkOf(y, m)
<1> DEFINE n == Cardinality(Saved[y.func])
<1>1. y.base \in Nat /\ n \in Nat /\ x.func = y.func /\ x.base = y.base
  BY Sizes DEF Views, SameFrame
<1>2. ASSUME NEW i \in Nat PROVE LoadIn(m2, y.base + i) = LoadIn(m, y.base + i)
  <2>1. y.base + i >= y.base
    BY <1>1
  <2> QED BY <2>1 DEF KeptFrom, LoadIn
<1>3. \A r : Cardinality({q \in Saved[y.func] : q < r}) \in Nat
  BY PlaceFacts, Sizes, FS_Subset, FS_CardinalityType
<1>4. LinkOf(x, m2) = LinkOf(y, m)
  <2>1. n + 1 \in Nat /\ y.base + n + 1 = y.base + (n + 1)
    BY <1>1
  <2>2. LoadIn(m2, y.base + (n + 1)) = LoadIn(m, y.base + (n + 1))
    BY <1>2, <2>1
  <2> QED BY <1>1, <2>1, <2>2 DEF LinkOf
<1>5. LoadIn(m2, x.base + Cardinality(Saved[x.func])) = LoadIn(m, y.base + Cardinality(Saved[y.func]))
  BY <1>1, <1>2
<1>6. ASSUME NEW r \in Reg
      PROVE  (IF r \in Saved[x.func]
              THEN LoadIn(m2, x.base + Cardinality({q \in Saved[x.func] : q < r})) ELSE x.file[r])
             = (IF r \in Saved[y.func]
                THEN LoadIn(m, y.base + Cardinality({q \in Saved[y.func] : q < r})) ELSE y.file[r])
  <2>1. CASE r \in Saved[y.func]
    BY <1>1, <1>2, <1>3, <2>1
  <2>2. CASE r \notin Saved[y.func]
    BY <1>1, <2>2 DEF SameFrame
  <2> QED BY <2>1, <2>2
<1>7. [r \in Reg |-> IF r \in Saved[x.func]
                     THEN LoadIn(m2, x.base + Cardinality({q \in Saved[x.func] : q < r}))
                     ELSE x.file[r]]
      = [r \in Reg |-> IF r \in Saved[y.func]
                       THEN LoadIn(m, y.base + Cardinality({q \in Saved[y.func] : q < r}))
                       ELSE y.file[r]]
  BY <1>6
<1> QED BY <1>4, <1>5, <1>7 DEF CallerIn

LEMMA FloorFacts ==
  ASSUME NEW v \in Views
  PROVE  /\ Floor(v) \in Int /\ v.base \in 0 .. StackTop + 1
         /\ v.func \in Func => Floor(v) = Bottom(v) /\ Floor(v) <= v.base /\ Floor(v) = v.base - FinalSize(v.func)
                                /\ Ceiling(v) \in Int /\ Ceiling(v) >= v.base + 2
         /\ v.func = Nobody => Floor(v) = StackTop + 1
<1>1. v.base \in 0 .. StackTop + 1 /\ v.func \in Func \cup {Nobody} /\ Nobody \notin Func /\ StackTop \in Nat
  BY FrameAssumption DEF Views
<1>2. CASE v.func \in Func
  <2>1. FinalSize(v.func) \in Nat /\ Cardinality(Saved[v.func]) \in Nat
    BY <1>2, Sizes
  <2>2. Floor(v) = v.base - FinalSize(v.func) /\ Floor(v) = Bottom(v)
    BY <1>1, <1>2 DEF Floor, Bottom
  <2>3. Ceiling(v) = v.base + Cardinality(Saved[v.func]) + 2
    BY DEF Ceiling
  <2> QED BY <1>1, <1>2, <2>1, <2>2, <2>3
<1>3. CASE v.func = Nobody
  BY <1>1, <1>3 DEF Floor
<1> QED BY <1>1, <1>2, <1>3

\* Frames lie one above the other.
LEMMA Rising ==
  ASSUME NEW u, NEW v, NEW m, NEW d \in Nat, Unwinds(u, v, m), Nested(u, m, d)
  PROVE  \A n \in 0 .. d : /\ u[n].base >= u[0].base
                           /\ n > 0 => Floor(u[n]) >= u[0].base + 2
<1>1. \A n \in Nat : u[n] \in Views
  BY DEF Unwinds
<1> DEFINE S == {n \in 0 .. d : u[n].base >= u[0].base /\ (n > 0 => Floor(u[n]) >= u[0].base + 2)}
<1>2. 0 \in S
  BY <1>1, FloorFacts
<1>3. ASSUME NEW n \in 0 .. d, n < d, n \in S PROVE n + 1 \in S
  <2>1. n \in 0 .. d - 1 /\ n + 1 \in Nat /\ n + 1 \in 0 .. d /\ n \in Nat
    BY <1>3
  <2>2. u[n].func \in Func /\ Ceiling(u[n]) = Floor(u[n + 1])
    BY <2>1 DEF Nested, FrameHolds
  <2>3. /\ u[n].base \in Int /\ u[n + 1].base \in Int /\ u[0].base \in Int
        /\ Ceiling(u[n]) >= u[n].base + 2 /\ Ceiling(u[n]) \in Int
        /\ Floor(u[n + 1]) <= u[n + 1].base
    <3>1. u[n] \in Views /\ u[n + 1] \in Views /\ u[0] \in Views
      BY <1>1, <2>1
    <3>2. u[n + 1].func = Nobody => u[n + 1].base = StackTop + 1
      <4>1. CASE n + 1 = d
        BY <4>1 DEF Nested
      <4>2. CASE n + 1 # d
        <5>1. n + 1 \in 0 .. d - 1
          BY <2>1, <4>2
        <5> QED BY <5>1, FrameAssumption DEF Nested, FrameHolds
      <4> QED BY <4>1, <4>2
    <3>3. u[n + 1].func \in Func \cup {Nobody}
      BY <3>1 DEF Views
    <3> QED BY <2>2, <3>1, <3>2, <3>3, FloorFacts
  <2>4. u[n].base >= u[0].base
    BY <1>3
  <2> QED BY <2>1, <2>2, <2>3, <2>4
<1>4. \A n \in 0 .. d : n \in S
  <2>1. \A n \in 0 .. d : n < d /\ n \in S => n + 1 \in S
    BY <1>3
  <2> HIDE DEF S
  <2> QED BY <1>2, <2>1, CountingUp
<1> QED BY <1>4

Found(x, y, whole) == SameFrame(x, y) /\ (whole => x = y)

Shifted(u, w, s, t, d) ==
  \A n \in t .. d : Found(w[n + s - t], u[n], n > t \/ u[n].func = Nobody)

LEMMA FramesKept ==
  ASSUME NEW u, NEW v, NEW m \in [Address -> Word], NEW w, NEW x, NEW m2 \in [Address -> Word],
         NEW d \in Nat, NEW s \in 0 .. 1, NEW t \in 0 .. 1, t <= d,
         Unwinds(u, v, m), Unwinds(w, x, m2), Nested(u, m, d),
         Found(w[s], u[t], u[t].func = Nobody), KeptFrom(m, m2, u[0].base)
  PROVE  Shifted(u, w, s, t, d)
<1>1. \A n \in Nat : u[n] \in Views /\ w[n] \in Views
  BY DEF Unwinds
<1> DEFINE At(n) == Found(w[n + s - t], u[n], n > t \/ u[n].func = Nobody)
           S == {n \in 0 .. d : n >= t => At(n)}
<1>2. ASSUME NEW n \in 0 .. d, n = t PROVE n \in S
  <2>1. n + s - t = s /\ ~(n > t)
    BY <1>2
  <2> QED BY <1>2, <2>1
<1>3. ASSUME NEW n \in 0 .. d, n < t PROVE n \in S
  BY <1>3
<1>4. 0 \in S
  <2>1. 0 \in 0 .. d /\ (0 = t \/ 0 < t)
    OBVIOUS
  <2> QED BY <1>2, <1>3, <2>1
<1>5. ASSUME NEW n \in 0 .. d, n < d, n \in S PROVE n + 1 \in S
  <2>1. n \in Nat /\ n + 1 \in 0 .. d /\ n \in 0 .. d - 1
    BY <1>5
  <2>2. CASE n < t
    <3>1. n + 1 = t \/ n + 1 < t
      BY <2>1, <2>2
    <3> QED BY <1>2, <1>3, <2>1, <3>1
  <2>3. CASE n >= t
    <3>1. PICK k \in Nat : k = n + s - t /\ (n + 1) + s - t = k + 1
      BY <2>1, <2>3
    <3>2. SameFrame(w[k], u[n])
      BY <1>5, <2>3, <3>1 DEF Found
    <3>3. u[n].func \in Func /\ w[k].func \in Func
      BY <2>1, <3>2 DEF Nested, FrameHolds, SameFrame
    <3>4. KeptFrom(m, m2, u[n].base)
      <4>1. u[n].base >= u[0].base
        BY <1>5, Rising
      <4>2. u[n].base \in Int /\ u[0].base \in Int
        BY <1>1, <2>1, FloorFacts
      <4>3. \A b \in Address : b \in Int
        BY DEF Address
      <4> QED BY <4>1, <4>2, <4>3 DEF KeptFrom
    <3>5. CallerIn(w[k], m2) = CallerIn(u[n], m)
      BY <1>1, <2>1, <3>1, <3>2, <3>3, <3>4, CallerKept
    <3>6. w[k + 1] = u[n + 1]
      BY <2>1, <3>1, <3>3, <3>5 DEF Unwinds
    <3>7. Found(w[k + 1], u[n + 1], (n + 1) > t \/ u[n + 1].func = Nobody)
      BY <3>6 DEF Found, SameFrame
    <3>8. At(n + 1)
      BY <3>1, <3>7
    <3> HIDE DEF At
    <3> QED BY <2>1, <3>8
  <2> QED BY <2>1, <2>2, <2>3
<1>6. \A n \in 0 .. d : n \in S
  <2>1. \A n \in 0 .. d : n < d /\ n \in S => n + 1 \in S
    BY <1>5
  <2> HIDE DEF S
  <2> QED BY <1>4, <2>1, CountingUp
<1>7. \A n \in t .. d : n \in 0 .. d /\ n >= t
  OBVIOUS
<1>8. \A n \in t .. d : At(n)
  <2> HIDE DEF At
  <2> QED BY <1>6, <1>7
<1> QED BY <1>8 DEF Shifted

LEMMA NestedKept ==
  ASSUME NEW u, NEW v, NEW m \in [Address -> Word], NEW w, NEW x, NEW m2 \in [Address -> Word],
         NEW d \in Nat, NEW s \in 0 .. 1, NEW t \in 0 .. 1, t <= d,
         Unwinds(u, v, m), Unwinds(w, x, m2), Nested(u, m, d),
         Shifted(u, w, s, t, d), KeptFrom(m, m2, u[0].base),
         s = 1 => t = 0 /\ FrameHolds(w[0], w[1], m2, d + 1)
  PROVE  Nested(w, m2, d + s - t)
<1>1. \A n \in Nat : u[n] \in Views /\ w[n] \in Views
  BY DEF Unwinds
<1>2. ASSUME NEW n \in t .. d - 1 PROVE FrameHolds(w[n + s - t], w[n + s - t + 1], m2, d - n)
  <2>1. PICK k \in Nat : k = n + s - t /\ (n + 1) + s - t = k + 1
    BY <1>2
  <2>2. n \in Nat /\ n \in t .. d /\ n + 1 \in t .. d /\ n \in 0 .. d - 1 /\ n \in 0 .. d
    BY <1>2
  <2>3. Found(w[k], u[n], n > t \/ u[n].func = Nobody)
    BY <2>1, <2>2 DEF Shifted
  <2>4. Found(w[(n + 1) + s - t], u[n + 1], (n + 1) > t \/ u[n + 1].func = Nobody)
    BY <2>2 DEF Shifted
  <2>5. /\ w[k].func = u[n].func /\ w[k].base = u[n].base
        /\ w[k + 1].func = u[n + 1].func /\ w[k + 1].base = u[n + 1].base
    BY <2>1, <2>3, <2>4 DEF Found, SameFrame
  <2>6. FrameHolds(u[n], u[n + 1], m, d - n)
    BY <2>2 DEF Nested
  <2>7. LinkOf(w[k], m2) = LinkOf(u[n], m)
    <3>1. u[n].base >= u[0].base
      BY <2>2, Rising
    <3>2. u[n].base \in Int /\ u[0].base \in Int
      BY <1>1, <2>2, FloorFacts
    <3>3. \A b \in Address : b \in Int
      BY DEF Address
    <3>4. KeptFrom(m, m2, u[n].base)
      BY <3>1, <3>2, <3>3 DEF KeptFrom
    <3>5. /\ w[k] \in Views /\ u[n] \in Views /\ u[n].func \in Func
          /\ SameFrame(w[k], u[n])
      BY <1>1, <2>2, <2>3, <2>6 DEF Found, FrameHolds
    <3>6. PICK x1 \in Views, y1 \in Views : x1 = w[k] /\ y1 = u[n]
      BY <3>5
    <3>7. SameFrame(x1, y1) /\ y1.func \in Func /\ KeptFrom(m, m2, y1.base)
      BY <3>4, <3>5, <3>6
    <3>8. LinkOf(x1, m2) = LinkOf(y1, m)
      BY <3>7, CallerKept
    <3> QED BY <3>6, <3>8
  <2>8. Bottom(w[k]) = Bottom(u[n]) /\ Ceiling(w[k]) = Ceiling(u[n]) /\ Floor(w[k + 1]) = Floor(u[n + 1])
    BY <2>5 DEF Bottom, Ceiling, Floor
  <2>9. FrameHolds(w[k], w[k + 1], m2, d - n)
    BY <2>5, <2>6, <2>7, <2>8 DEF FrameHolds
  <2> QED BY <2>1, <2>9
<1>3. ASSUME NEW i \in 0 .. (d + s - t) - 1 PROVE FrameHolds(w[i], w[i + 1], m2, (d + s - t) - i)
  <2>1. CASE i >= s
    <3>1. PICK n \in t .. d - 1 : n = i - s + t
      BY <2>1
    <3>2. n + s - t = i /\ (d + s - t) - i = d - n
      BY <3>1
    <3> QED BY <1>2, <3>2
  <2>2. CASE i < s
    <3>1. s = 1 /\ i = 0
      BY <2>2
    <3>2. CASE t = 0
      BY <3>1, <3>2
    <3> QED BY <3>1, <3>2
  <2> QED BY <2>1, <2>2
<1>4. w[d + s - t].func = Nobody /\ w[d + s - t].base = StackTop + 1
  <2>1. d \in t .. d
    OBVIOUS
  <2> QED BY <2>1 DEF Shifted, Found, SameFrame, Nested
<1> QED BY <1>3, <1>4 DEF Nested

-----------------------------------------------------------------------------
(***************************************************************************)
(* The steps.                                                              *)
(***************************************************************************)
Starts ==
  /\ Unwound[0] = Current /\ Current \in Views /\ Unwound \in [Nat -> Views]
  /\ Current.func \in Func => Unwound[1] = CallerIn(Current, mem)

LEMMA UnwoundStarts == Types => Starts
<1> SUFFICES ASSUME Types PROVE Starts
  OBVIOUS
<1>1. Unwinds(Unwound, Current, mem)
  BY UnwoundIs
<1>2. 0 \in Nat /\ 0 + 1 = 1
  OBVIOUS
<1> HIDE DEF Unwound
<1> QED BY <1>1, <1>2, CurrentTyped DEF Unwinds, Starts

LEMMA CurrentFields ==
  /\ Current.func = IF pc = "entry" THEN lr.func ELSE func
  /\ Current.file = regs /\ Current.base = fp /\ Current.site = NoSite
BY DEF Current, View

LEMMA OnTop ==
  ASSUME CFInv, trusted, pc \in {"body", "exit"}
  PROVE  /\ func \in Func /\ depth > 0 /\ depth \in Nat /\ Current.func = func /\ fp \in Nat
         /\ FrameHolds(Current, Unwound[1], mem, depth)
         /\ Unwound[1] = CallerIn(Current, mem)
<1>1. Types /\ AtPc /\ Nested(Unwound, mem, depth)
  BY DEF CFInv
<1>2. depth > 0 /\ depth \in Nat /\ fp \in Nat
  BY <1>1 DEF Types, AtPc
<1>3. Current.func = func
  BY CurrentFields
<1>4. FrameHolds(Unwound[0], Unwound[0 + 1], mem, depth - 0)
  <2>1. 0 \in 0 .. depth - 1
    BY <1>2
  <2> QED BY <1>1, <2>1 DEF Nested
<1>5. 0 + 1 = 1 /\ depth - 0 = depth
  BY <1>2
<1>6. FrameHolds(Current, Unwound[1], mem, depth)
  BY <1>1, <1>4, <1>5, UnwoundStarts DEF Starts
<1> QED BY <1>1, <1>2, <1>3, <1>6, UnwoundStarts DEF FrameHolds, Starts

\* The conclusion of FramesKept and NestedKept for a step.
LEMMA AfterStep ==
  ASSUME Types, Types', Nested(Unwound, mem, depth), NEW s \in 0 .. 1, NEW t \in 0 .. 1, t <= depth,
         depth' = depth + s - t,
         Found(Unwound'[s], Unwound[t], Unwound[t].func = Nobody),
         KeptFrom(mem, mem', fp),
         s = 1 => t = 0 /\ FrameHolds(Unwound'[0], Unwound'[1], mem', depth + 1)
  PROVE  Shifted(Unwound, Unwound', s, t, depth) /\ Nested(Unwound', mem', depth')
<1>1. Unwinds(Unwound, Current, mem)
  BY UnwoundIs
<1>2. (Types => Unwinds(Unwound, Current, mem))'
  BY UnwoundIs, PTL
<1>3. Unwinds(Unwound', Current', mem')
  BY <1>2
<1>4. KeptFrom(mem, mem', Unwound[0].base)
  BY UnwoundStarts, CurrentFields DEF Starts
<1>5. depth \in Nat /\ mem \in [Address -> Word] /\ mem' \in [Address -> Word]
  BY DEF Types
<1>6. Shifted(Unwound, Unwound', s, t, depth)
  BY <1>1, <1>3, <1>4, <1>5, FramesKept
<1>7. Nested(Unwound', mem', depth + s - t)
  BY <1>1, <1>3, <1>4, <1>5, <1>6, NestedKept
<1> QED BY <1>6, <1>7

\* A step of the body, a call and the first part of a return leave the frames alone.
LEMMA QuietStep ==
  ASSUME CFInv, trusted, Types', depth' = depth,
         Found(Current', Current, Current.func = Nobody), KeptFrom(mem, mem', fp)
  PROVE  Shifted(Unwound, Unwound', 0, 0, depth) /\ Nested(Unwound', mem', depth')
<1>1. Types /\ Nested(Unwound, mem, depth)
  BY DEF CFInv
<1>2. Unwound[0] = Current
  BY <1>1, UnwoundStarts DEF Starts
<1>3. (Types => Starts)'
  BY UnwoundStarts, PTL
<1>4. Found(Unwound'[0], Unwound[0], Unwound[0].func = Nobody)
  BY <1>2, <1>3 DEF Starts
<1>5. 0 \in 0 .. 1 /\ 0 <= depth /\ depth' = depth + 0 - 0 /\ 0 # 1
  BY <1>1 DEF Types
<1> QED BY <1>1, <1>4, <1>5, AfterStep

LEMMA BodyStep ==
  ASSUME CFInv, trusted, WriteReg \/ WriteWord \/ Call \/ LibraryCall \/ Ret
  PROVE  CFInv' /\ KeptFrom(mem, mem', fp) /\ Shifted(Unwound, Unwound', 0, 0, depth)
<1>1. pc = "body"
  BY DEF WriteReg, WriteWord, Call, LibraryCall, Ret, InBody
<1>2. Types /\ AtPc /\ Nested(Unwound, mem, depth)
  BY DEF CFInv
<1>3. func \in Func /\ depth > 0 /\ depth \in Nat /\ Current.func = func /\ fp \in Nat /\ Nobody # func
  BY <1>1, OnTop, FrameAssumption
<1>4. sp = Bottom(Current) /\ Bottom(Current) = fp - FinalSize(func) /\ FinalSize(func) \in Nat
  BY <1>1, <1>2, <1>3, CurrentFields, Sizes DEF AtPc, Bottom
<1>5. /\ Current'.func = IF pc' = "entry" THEN lr'.func ELSE func'
      /\ Current'.file = regs' /\ Current'.base = fp' /\ Current'.site = NoSite
  <2>1. (/\ Current.func = IF pc = "entry" THEN lr.func ELSE func
         /\ Current.file = regs /\ Current.base = fp /\ Current.site = NoSite)'
    BY CurrentFields, PTL
  <2> QED BY <2>1
<1>6. depth' = depth /\ trusted' = trusted /\ fp' = fp /\ trusted \in BOOLEAN
  BY DEF WriteReg, WriteWord, Call, LibraryCall, Ret, CFInv
<1>7. /\ Computed \subseteq Word
      /\ \A f \in Func, x \in Site : /\ ReturnTo(f, x) \in Returns
                                     /\ ReturnTo(f, x).func = f
  BY WordFacts DEF Computed, Returns, ReturnTo
<1>8. /\ Types' /\ AtPc' /\ KeptFrom(mem, mem', fp)
      /\ Current'.func = func /\ \A r \in Reg \ Saved[func] : regs'[r] = regs[r]
  <2>0. ASSUME func' = func, pc' = "body", sp' = sp
        PROVE  AtPc' /\ Current'.func = func
    <3>1. Current'.func = func /\ Current'.base = fp
      BY <1>5, <1>6, <2>0
    <3>2. Bottom(Current') = Bottom(Current)
      BY <1>3, <3>1, CurrentFields DEF Bottom
    <3> QED BY <1>3, <1>4, <1>6, <2>0, <3>1, <3>2 DEF AtPc
  <2>1. CASE WriteReg
    <3>1. PICK r \in Saved[func], v \in Value : regs' = [regs EXCEPT ![r] = Data(v)]
      BY <2>1 DEF WriteReg
    <3>2. regs' \in [Reg -> Word] /\ \A q \in Reg \ Saved[func] : regs'[q] = regs[q]
      BY <1>2, <3>1, WordFacts DEF Types
    <3>3. UNCHANGED <<pc, func, r0, fp, sp, lr, mem, depth>>
      BY <2>1 DEF WriteReg
    <3> QED BY <1>1, <1>2, <2>0, <3>2, <3>3 DEF Types, KeptFrom
  <2>2. CASE WriteWord
    <3>1. PICK i \in 1 .. FinalSize(func), v \in Value : mem' = [mem EXCEPT ![fp - i] = Data(v)]
      <4>1. PICK i \in 1 .. FinalSize(func), v \in Value :
              mem' = [mem EXCEPT ![fp + OffsetOf(i)] = Data(v)]
        BY <2>2 DEF WriteWord
      <4>2. fp + OffsetOf(i) = fp - i
        BY <1>3, <1>4 DEF OffsetOf
      <4> QED BY <4>1, <4>2
    <3>2. mem' \in [Address -> Word]
      BY <1>2, <3>1, WordFacts DEF Types
    <3>3. KeptFrom(mem, mem', fp)
      <4>1. \A b \in Address : b \in Int /\ (b >= fp => b # fp - i)
        BY <1>3, <1>4 DEF Address
      <4> QED BY <1>2, <3>1, <4>1 DEF KeptFrom, Types
    <3>4. UNCHANGED <<pc, func, regs, r0, fp, sp, lr, depth>>
      BY <2>2 DEF WriteWord
    <3> QED BY <1>1, <1>2, <2>0, <3>2, <3>3, <3>4 DEF Types
  <2>3. CASE Call
    <3>1. PICK f \in Func, x \in Site : func' = f /\ lr' = ReturnTo(func, x)
      BY <2>3 DEF Call
    <3>2. UNCHANGED <<regs, fp, sp, mem, depth>> /\ pc' = "entry" /\ depth < MaxDepth
      BY <2>3 DEF Call
    <3>3. r0' \in Word /\ lr' \in Returns /\ lr'.func = func
      BY <1>2, <1>3, <1>7, <2>3, <3>1 DEF Call, Types
    <3>4. Current'.func = func /\ Current'.base = fp
      BY <1>5, <3>2, <3>3
    <3>5. Floor(Current') = Bottom(Current)
      BY <1>3, <3>4, CurrentFields DEF Floor, Bottom
    <3>6. AtPc'
      BY <1>3, <1>4, <3>1, <3>2, <3>5 DEF AtPc
    <3> QED BY <1>2, <3>1, <3>2, <3>3, <3>4, <3>6 DEF Types, KeptFrom
  <2>4. CASE LibraryCall
    <3>1. PICK x \in Site : lr' = ReturnTo(func, x)
      BY <2>4 DEF LibraryCall
    <3>2. r0' \in Word /\ lr' \in Returns
      BY <1>3, <1>7, <2>4, <3>1 DEF LibraryCall
    <3>3. UNCHANGED <<pc, func, regs, fp, sp, mem, depth>>
      BY <2>4 DEF LibraryCall
    <3> QED BY <1>1, <1>2, <2>0, <3>2, <3>3 DEF Types, KeptFrom
  <2>5. CASE Ret
    <3>1. UNCHANGED <<func, regs, fp, lr, mem, depth>> /\ pc' = "exit"
          /\ sp' = sp + SizeAtSelection(func)
      BY <2>5 DEF Ret
    <3>2. r0' \in Word
      BY <1>2, <1>7, <2>5 DEF Ret, Types
    <3>3. sp' = fp - Spills[func] /\ sp' \in Int
      BY <1>3, <1>4, <3>1, Sizes
    <3>4. AtPc'
      BY <1>3, <3>1, <3>3 DEF AtPc
    <3>5. Current'.func = func
      BY <1>5, <3>1
    <3> QED BY <1>2, <3>1, <3>2, <3>3, <3>4, <3>5 DEF Types, KeptFrom
  <2> QED BY <2>1, <2>2, <2>3, <2>4, <2>5
<1>9. Found(Current', Current, Current.func = Nobody)
  BY <1>3, <1>5, <1>6, <1>8, CurrentFields DEF Found, SameFrame
<1>10. Shifted(Unwound, Unwound', 0, 0, depth) /\ Nested(Unwound', mem', depth')
  BY <1>6, <1>8, <1>9, QuietStep
<1> QED BY <1>6, <1>8, <1>10 DEF CFInv

\* One frame more takes no more than the largest frame.
LEMMA RoomForOneMore ==
  ASSUME NEW l \in Nat, NEW k \in Int, k > 0
  PROVE  (k - 1) * l >= 0 /\ k * l = (k - 1) * l + l
<1>1. k * l = (k - 1) * l + l
  BY Z3
<1>2. k - 1 \in Nat
  OBVIOUS
<1>3. (k - 1) * l \in Nat
  BY <1>2
<1> QED BY <1>1, <1>3

LEMMA Room ==
  ASSUME CFInv, trusted, pc = "entry"
  PROVE  /\ func \in Func /\ sp \in Int /\ fp \in Int
         /\ sp = Floor(Current) /\ sp <= fp /\ fp <= StackTop + 1
         /\ sp - FrameSize(func) > (MaxDepth - (depth + 1)) * Largest
         /\ (MaxDepth - (depth + 1)) * Largest >= 0
<1>1. Types /\ AtPc /\ Nested(Unwound, mem, depth)
  BY DEF CFInv
<1>2. /\ func \in Func /\ sp = Floor(Current) /\ depth < MaxDepth /\ (depth = 0 => func = Main)
      /\ depth \in Nat /\ MaxDepth \in Nat /\ StackTop \in Nat /\ fp \in 0 .. StackTop + 1
  BY <1>1, FrameAssumption DEF AtPc, Types
<1>3. Current \in Views /\ Current = Unwound[0] /\ Current.base = fp
  BY <1>1, UnwoundStarts, CurrentFields DEF Starts
<1>4. FrameSize(func) \in Nat /\ FrameSize(func) <= Largest /\ Largest \in Nat
  BY <1>2, Sizes, LargestFacts
<1>5. /\ (MaxDepth - depth - 1) * Largest >= 0
      /\ (MaxDepth - depth) * Largest = (MaxDepth - depth - 1) * Largest + Largest
  <2>1. MaxDepth - depth \in Int /\ MaxDepth - depth > 0
    BY <1>2
  <2> QED BY <1>4, <2>1, RoomForOneMore
<1>6. MaxDepth - (depth + 1) = MaxDepth - depth - 1
  BY <1>2
<1>7. CASE depth = 0
  <2>1. Current.func = Nobody /\ Current.base = StackTop + 1
    BY <1>1, <1>3, <1>7 DEF Nested
  <2>2. sp = StackTop + 1 /\ fp = StackTop + 1
    BY <1>2, <1>3, <2>1 DEF Floor
  <2>3. FrameSize(func) + (MaxDepth - 1) * Largest <= StackTop
    BY <1>2, <1>7, LargestFacts
  <2>4. MaxDepth - (depth + 1) = MaxDepth - 1
    BY <1>2, <1>7
  <2>5. (MaxDepth - 1) * Largest \in Nat
    BY <1>2, <1>4, <1>5, <1>6, <2>4
  <2> QED BY <1>2, <1>4, <1>5, <1>6, <2>2, <2>3, <2>4, <2>5
<1>8. CASE depth > 0
  <2>1. FrameHolds(Unwound[0], Unwound[0 + 1], mem, depth - 0) /\ depth - 0 = depth
    <3>1. 0 \in 0 .. depth - 1
      BY <1>2, <1>8
    <3> QED BY <1>1, <1>2, <3>1 DEF Nested
  <2>2. Current.func \in Func /\ Bottom(Current) > (MaxDepth - depth) * Largest
    BY <1>3, <2>1 DEF FrameHolds
  <2>3. Floor(Current) \in Int /\ Floor(Current) <= fp /\ Floor(Current) = Bottom(Current)
    BY <1>3, <2>2, FloorFacts
  <2>4. (MaxDepth - depth) * Largest \in Int /\ (MaxDepth - depth - 1) * Largest \in Int
    BY <1>2, <1>4
  <2>5. sp \in Int /\ sp <= fp /\ sp > (MaxDepth - depth) * Largest
    BY <1>2, <2>2, <2>3
  <2>6. sp - FrameSize(func) > (MaxDepth - depth - 1) * Largest
    <3> DEFINE x == (MaxDepth - depth) * Largest
               y == (MaxDepth - depth - 1) * Largest
    <3>1. x \in Int /\ y \in Int /\ x = y + Largest /\ sp > x
      BY <1>5, <2>4, <2>5
    <3> HIDE DEF x, y
    <3>2. sp - FrameSize(func) > y
      BY <1>4, <2>5, <3>1
    <3> QED BY <3>2 DEF y
  <2> QED BY <1>2, <1>5, <1>6, <2>5, <2>6
<1> QED BY <1>2, <1>7, <1>8

LEMMA PushedFacts ==
  ASSUME Types, NEW f \in Func
  PROVE  /\ \A i \in 0 .. Width(f) - 1 : Pushed(f)[i] \in Word
         /\ Width(f) = Cardinality(Saved[f]) + 2 /\ Width(f) \in Nat
         /\ Pushed(f)[Cardinality(Saved[f])] = Pointer(fp)
         /\ Pushed(f)[Cardinality(Saved[f]) + 1] = lr
         /\ \A r \in Saved[f] : Pushed(f)[PlaceOf(f, r)] = regs[r]
<1> DEFINE n == Cardinality(Saved[f])
           reg(i) == CHOOSE r \in Saved[f] : PlaceOf(f, r) = i
<1>1. n \in Nat /\ Saved[f] \subseteq Reg
  BY Sizes
<1>2. FpPlace(f) = n /\ LrPlace(f) = n + 1 /\ Width(f) = n + 2 /\ Width(f) - 1 = n + 1 /\ SavedRegs(f) = Saved[f]
  BY <1>1 DEF FpPlace, LrPlace, Width, SavedRegs
<1> HIDE DEF n
<1>3. Pushed(f) = [i \in 0 .. n + 1 |-> CASE i = n -> Pointer(fp)
                                         [] i = n + 1 -> lr
                                         [] OTHER -> regs[reg(i)]]
  BY <1>2 DEF Pushed
<1>4. \A i \in 0 .. n - 1 : reg(i) \in Saved[f] /\ PlaceOf(f, reg(i)) = i
  BY EveryPlace DEF n
<1>5. \A r \in Saved[f] : PlaceOf(f, r) \in 0 .. n - 1 /\ reg(PlaceOf(f, r)) = r
  <2>1. \A r \in Saved[f] : PlaceOf(f, r) \in 0 .. n - 1
    BY PlaceFacts DEF n
  <2> SUFFICES ASSUME NEW r \in Saved[f] PROVE reg(PlaceOf(f, r)) = r
    BY <2>1
  <2>2. reg(PlaceOf(f, r)) \in Saved[f] /\ PlaceOf(f, reg(PlaceOf(f, r))) = PlaceOf(f, r)
    <3> HIDE DEF reg
    <3> QED BY <1>4, <2>1
  <2> HIDE DEF reg
  <2> QED BY <2>2, PlaceFacts
<1> HIDE DEF reg
<1>6. /\ Pushed(f)[n] = Pointer(fp) /\ Pushed(f)[n + 1] = lr
      /\ \A i \in 0 .. n - 1 : Pushed(f)[i] = regs[reg(i)]
  <2>1. n \in 0 .. n + 1 /\ n + 1 \in 0 .. n + 1 /\ n # n + 1
    BY <1>1
  <2>2. \A i \in 0 .. n - 1 : i \in 0 .. n + 1 /\ i # n /\ i # n + 1
    BY <1>1
  <2> QED BY <1>3, <2>1, <2>2
<1>7. Pointer(fp) \in Word /\ lr \in Word /\ \A r \in Reg : regs[r] \in Word
  BY WordFacts DEF Types
<1>8. ASSUME NEW i \in 0 .. n + 1 PROVE Pushed(f)[i] \in Word
  <2>1. i = n \/ i = n + 1 \/ i \in 0 .. n - 1
    BY <1>1
  <2>2. \A j \in 0 .. n - 1 : reg(j) \in Reg
    BY <1>1, <1>4
  <2> QED BY <1>6, <1>7, <2>1, <2>2
<1>9. \A r \in Saved[f] : Pushed(f)[PlaceOf(f, r)] = regs[r]
  BY <1>5, <1>6
<1>10. \A i \in 0 .. Width(f) - 1 : Pushed(f)[i] \in Word
  BY <1>2, <1>8
<1> QED BY <1>1, <1>2, <1>6, <1>9, <1>10 DEF n

LEMMA PrologueStep ==
  ASSUME CFInv, trusted, Prologue
  PROVE  /\ CFInv' /\ KeptFrom(mem, mem', sp) /\ sp = Floor(Current) /\ func \in Func
         /\ Shifted(Unwound, Unwound', 1, 0, depth)
         /\ Current'.func = func /\ Unwound'[1] = View(lr.func, regs, fp, lr.site)
<1> DEFINE n == Cardinality(Saved[func])
           base == sp - Width(func)
<1>1. Types /\ AtPc /\ Nested(Unwound, mem, depth) /\ pc = "entry"
  BY DEF CFInv, Prologue
<1>2. /\ func \in Func /\ sp \in Int /\ fp \in Int
      /\ sp = Floor(Current) /\ sp <= fp /\ fp <= StackTop + 1
      /\ sp - FrameSize(func) > (MaxDepth - (depth + 1)) * Largest
      /\ (MaxDepth - (depth + 1)) * Largest >= 0
  BY <1>1, Room
<1>3. /\ n \in Nat /\ Width(func) = n + 2 /\ FinalSize(func) \in Nat
      /\ FrameSize(func) = n + 2 + FinalSize(func)
  BY <1>1, <1>2, Sizes, PushedFacts
<1>4. depth \in Nat /\ MaxDepth \in Nat /\ Largest \in Nat /\ StackTop \in Nat
  BY <1>1, FrameAssumption, LargestFacts DEF Types
<1>5. /\ base \in Int /\ base - FinalSize(func) > (MaxDepth - (depth + 1)) * Largest
      /\ base >= 1 /\ base + n + 2 = sp /\ base + n + 1 <= StackTop
  <2> DEFINE x == (MaxDepth - (depth + 1)) * Largest
  <2>1. x \in Int /\ x >= 0 /\ sp - FrameSize(func) > x
    BY <1>2, <1>4
  <2> HIDE DEF x
  <2>2. base - FinalSize(func) > x
    BY <1>2, <1>3, <2>1
  <2>3. base \in Int /\ base >= 1 /\ base + n + 2 = sp /\ base + n + 1 <= StackTop
    BY <1>2, <1>3, <1>4, <2>1, <2>2
  <2> QED BY <2>2, <2>3 DEF x
<1>6. /\ mem' = [a \in Address |-> IF a \in base .. sp - 1 THEN Pushed(func)[a - base] ELSE mem[a]]
      /\ fp' = base /\ sp' = base - FinalSize(func)
      /\ pc' = "body" /\ depth' = depth + 1 /\ UNCHANGED <<func, regs, r0, lr, trusted>>
  BY DEF Prologue
<1> HIDE DEF n, base
<1>7. ASSUME NEW i \in 0 .. n + 1
      PROVE  LoadIn(mem', base + i) = Pushed(func)[i]
  <2>1. base + i \in Address /\ base + i \in base .. sp - 1 /\ (base + i) - base = i
    BY <1>2, <1>3, <1>4, <1>5 DEF Address
  <2> QED BY <1>6, <2>1 DEF LoadIn
<1>8. mem' \in [Address -> Word]
  <2>1. ASSUME NEW a \in Address PROVE mem'[a] \in Word
    <3>1. CASE a \in base .. sp - 1
      <4>1. a - base \in 0 .. Width(func) - 1
        BY <1>2, <1>3, <1>5, <3>1
      <4> QED BY <1>1, <1>2, <1>6, <3>1, <4>1, PushedFacts
    <3>2. CASE a \notin base .. sp - 1
      BY <1>1, <1>6, <3>2 DEF Types
    <3> QED BY <3>1, <3>2
  <2> QED BY <1>6, <2>1
<1>9. depth < MaxDepth
  BY <1>1 DEF AtPc
<1>10. Types'
  <2>1. depth + 1 \in 0 .. MaxDepth
    BY <1>4, <1>9
  <2>2. base \in 0 .. StackTop + 1 /\ base - FinalSize(func) \in Int
    BY <1>2, <1>3, <1>4, <1>5
  <2> QED BY <1>1, <1>2, <1>6, <1>8, <2>1, <2>2 DEF Types
<1>11. KeptFrom(mem, mem', sp) /\ KeptFrom(mem, mem', fp)
  <2>1. \A b \in Address : b \in Int
    BY DEF Address
  <2>2. \A b \in Address : b >= sp => b \notin base .. sp - 1
    BY <1>2, <1>5, <2>1
  <2>3. KeptFrom(mem, mem', sp)
    BY <1>6, <2>2 DEF KeptFrom
  <2>4. \A b \in Address : b >= fp => b >= sp
    BY <1>2, <2>1
  <2> QED BY <2>3, <2>4 DEF KeptFrom
<1>12. /\ Current'.func = func /\ Current'.file = regs /\ Current'.base = base /\ Current'.site = NoSite
  <2>1. (/\ Current.func = IF pc = "entry" THEN lr.func ELSE func
         /\ Current.file = regs /\ Current.base = fp /\ Current.site = NoSite)'
    BY CurrentFields, PTL
  <2> QED BY <1>6, <2>1
<1>13. (Types => Starts)'
  BY UnwoundStarts, PTL
<1>14. Unwound'[0] = Current' /\ Unwound'[1] = CallerIn(Current', mem')
  BY <1>2, <1>10, <1>12, <1>13 DEF Starts
<1>15. /\ LoadIn(mem', base + n) = Pointer(fp) /\ LoadIn(mem', base + n + 1) = lr
       /\ \A r \in Saved[func] : LoadIn(mem', base + PlaceOf(func, r)) = regs[r]
  <2>1. n \in 0 .. n + 1 /\ n + 1 \in 0 .. n + 1 /\ base + (n + 1) = base + n + 1
    BY <1>3, <1>5
  <2>2. LoadIn(mem', base + n) = Pushed(func)[n] /\ LoadIn(mem', base + (n + 1)) = Pushed(func)[n + 1]
    BY <1>7, <2>1
  <2>3. Pushed(func)[n] = Pointer(fp) /\ Pushed(func)[n + 1] = lr
    BY <1>1, <1>2, PushedFacts DEF n
  <2>4. ASSUME NEW r \in Saved[func] PROVE LoadIn(mem', base + PlaceOf(func, r)) = regs[r]
    <3>1. PlaceOf(func, r) \in 0 .. n - 1
      BY <1>2, PlaceFacts DEF n
    <3>2. PlaceOf(func, r) \in 0 .. n + 1
      BY <1>3, <3>1
    <3>3. Pushed(func)[PlaceOf(func, r)] = regs[r]
      BY <1>1, <1>2, PushedFacts
    <3> QED BY <1>7, <3>2, <3>3
  <2> QED BY <2>1, <2>2, <2>3, <2>4
<1>16. lr.k = "return" /\ lr.func \in Func \cup {Nobody} /\ (lr.func = Nobody => lr.site = NoSite)
  BY <1>1, WordFacts DEF Types
<1>17. LinkOf(Current', mem') = lr
  BY <1>12, <1>15 DEF LinkOf, n
<1>18. CallerIn(Current', mem') = View(lr.func, regs, fp, lr.site)
  <2> DEFINE file == [r \in Reg |-> IF r \in Saved[Current'.func]
                        THEN LoadIn(mem', Current'.base + Cardinality({q \in Saved[Current'.func] : q < r}))
                        ELSE Current'.file[r]]
  <2>1. LoadIn(mem', Current'.base + Cardinality(Saved[Current'.func])) = Pointer(fp)
    BY <1>12, <1>15 DEF n
  <2>2. Pointer(fp).k = "pointer" /\ Pointer(fp).a = fp
    BY DEF Pointer
  <2>3. file = regs
    <3>1. \A r \in Reg : file[r] = regs[r]
      <4>1. \A r : Cardinality({q \in Saved[Current'.func] : q < r}) = PlaceOf(func, r)
        BY <1>12 DEF PlaceOf, SavedRegs
      <4>2. \A r \in Saved[func] : LoadIn(mem', Current'.base
                 + Cardinality({q \in Saved[Current'.func] : q < r})) = regs[r]
        BY <1>12, <1>15, <4>1
      <4> QED BY <1>12, <4>2
    <3> QED BY <1>1, <3>1 DEF Types
  <2>4. CallerIn(Current', mem') = View(lr.func, file, fp, lr.site)
    BY <1>16, <1>17, <2>1, <2>2 DEF CallerIn
  <2> QED BY <2>3, <2>4
<1>19. Unwound'[1] = View(lr.func, regs, fp, lr.site)
  BY <1>14, <1>18
<1>20. Current = View(lr.func, regs, fp, NoSite)
  BY <1>1 DEF Current
<1>21. Found(Unwound'[1], Current, Current.func = Nobody)
  BY <1>16, <1>19, <1>20 DEF Found, SameFrame, View
<1>22. FrameHolds(Current', Unwound'[1], mem', depth + 1)
  <2>1. Ceiling(Current') = sp
    BY <1>5, <1>12 DEF Ceiling, n
  <2>2. Floor(Unwound'[1]) = Floor(Current)
    BY <1>21 DEF Found, SameFrame, Floor, Bottom
  <2>3. Bottom(Current') = base - FinalSize(func)
    BY <1>12 DEF Bottom
  <2> QED BY <1>2, <1>5, <1>12, <1>16, <1>17, <2>1, <2>2, <2>3 DEF FrameHolds
<1>23. Shifted(Unwound, Unwound', 1, 0, depth) /\ Nested(Unwound', mem', depth')
  <2>1. Unwound[0] = Current
    BY <1>1, UnwoundStarts DEF Starts
  <2>2. 0 \in 0 .. 1 /\ 1 \in 0 .. 1 /\ 0 <= depth /\ depth' = depth + 1 - 0
    BY <1>4, <1>6
  <2> QED BY <1>1, <1>10, <1>11, <1>14, <1>21, <1>22, <2>1, <2>2, AfterStep
<1>24. AtPc'
  BY <1>4, <1>6, <1>12 DEF AtPc, Bottom
<1> QED BY <1>2, <1>6, <1>10, <1>11, <1>12, <1>19, <1>23, <1>24 DEF CFInv

LEMMA BxStep ==
  ASSUME CFInv, trusted, Bx, Spills[func] = 0
  PROVE  /\ CFInv' /\ mem' = mem /\ depth > 0 /\ func \in Func
         /\ Shifted(Unwound, Unwound', 0, 1, depth)
         /\ Current' = [Unwound[1] EXCEPT !.site = NoSite]
<1> DEFINE n == Cardinality(Saved[func])
           link == LinkOf(Current, mem)
           frame == LoadIn(mem, fp + n)
           file == [r \in Reg |-> IF r \in Saved[func] THEN LoadIn(mem, fp + PlaceOf(func, r)) ELSE regs[r]]
           caller == Unwound[1]
<1>1. Types /\ AtPc /\ Nested(Unwound, mem, depth) /\ pc = "exit"
  BY DEF CFInv, Bx
<1>2. /\ func \in Func /\ depth > 0 /\ depth \in Nat /\ Current.func = func /\ fp \in Nat
      /\ FrameHolds(Current, caller, mem, depth) /\ caller = CallerIn(Current, mem)
  BY <1>1, OnTop
<1>3. n \in Nat /\ FpPlace(func) = n /\ LrPlace(func) = n + 1 /\ Width(func) = n + 2
  BY <1>2, Sizes DEF FpPlace, LrPlace, Width, SavedRegs
<1>4. sp = fp
  BY <1>1, <1>2 DEF AtPc
<1>5. Current.file = regs /\ Current.base = fp /\ Current.site = NoSite
  BY CurrentFields
<1>6. link = LoadIn(mem, fp + n + 1)
  BY <1>2, <1>5 DEF LinkOf
<1>7. caller = View(IF link.k = "return" THEN link.func ELSE Nobody, file,
                    IF frame.k = "pointer" THEN frame.a ELSE 0,
                    IF link.k = "return" THEN link.site ELSE NoSite)
  <2>1. Current.base + Cardinality(Saved[Current.func]) = fp + n
    BY <1>2, <1>5
  <2>2. [r \in Reg |-> IF r \in Saved[Current.func]
                      THEN LoadIn(mem, Current.base + Cardinality({q \in Saved[Current.func] : q < r}))
                      ELSE Current.file[r]] = file
    BY <1>2, <1>5 DEF PlaceOf, SavedRegs
  <2> HIDE DEF file
  <2> QED BY <1>2, <2>1, <2>2 DEF CallerIn
<1>8. link.k = "return" /\ link \in Word /\ frame \in Word
  <2>1. link.k = "return"
    BY <1>2 DEF FrameHolds
  <2> QED BY <1>1, <1>6, <2>1, LoadIsWord DEF Types
<1>9. link \in Returns /\ link.func \in Func \cup {Nobody} /\ (link.func = Nobody => link.site = NoSite)
  BY <1>8, WordFacts
<1>10. /\ mem' = mem /\ r0' = r0 /\ depth' = depth - 1
       /\ regs' = file /\ sp' = fp + (n + 2) /\ lr' = link
       /\ fp' = IF frame.k = "pointer" THEN frame.a ELSE 0
       /\ func' = link.func
       /\ pc' = IF frame.k # "pointer" THEN "wild" ELSE IF link.func = Nobody THEN "over" ELSE "body"
       /\ trusted'
  <2>1. Load(sp + FpPlace(func)) = frame /\ Load(sp + LrPlace(func)) = link
    <3>1. fp + (n + 1) = fp + n + 1
      BY <1>2, <1>3
    <3> QED BY <1>3, <1>4, <1>6, <3>1, CallerOfIs
  <2>2. RegsPopped(func) = file
    BY <1>4, CallerOfIs DEF RegsPopped, SavedRegs
  <2> QED BY <1>3, <1>4, <1>8, <2>1, <2>2 DEF Bx
<1> HIDE DEF n, link, frame, file
<1>11. /\ caller.func = link.func /\ caller.file = file /\ caller.site = link.site
       /\ caller.base = IF frame.k = "pointer" THEN frame.a ELSE 0
  BY <1>7, <1>8 DEF View
<1> HIDE DEF caller
<1>12. caller \in Views /\ Current \in Views /\ Unwound[0] = Current /\ StackTop \in Nat
  BY <1>1, <1>2, UnwoundStarts, CallerTyped, FrameAssumption DEF Starts, Types
<1>13. /\ 1 # depth => depth > 1 /\ caller.func \in Func
       /\ 1 = depth => caller.func = Nobody /\ caller.base = StackTop + 1
  <2>1. CASE depth = 1
    BY <1>1, <2>1 DEF Nested, caller
  <2>2. CASE depth # 1
    <3>1. 1 \in 0 .. depth - 1
      BY <1>2, <2>2
    <3>2. FrameHolds(Unwound[1], Unwound[1 + 1], mem, depth - 1)
      BY <1>1, <3>1 DEF Nested
    <3> QED BY <1>2, <2>2, <3>2 DEF FrameHolds, caller
  <2> QED BY <2>1, <2>2
<1>14. Ceiling(Current) = fp + n + 2 /\ Ceiling(Current) = Floor(caller)
  BY <1>2, <1>5 DEF FrameHolds, Ceiling, n
<1>15. frame.k = "pointer"
  <2> SUFFICES ASSUME caller.base = 0 PROVE FALSE
    BY <1>11
  <2>1. depth # 1
    <3>1. StackTop + 1 # 0
      BY <1>12
    <3> QED BY <1>13, <3>1
  <2>2. caller.func \in Func
    BY <1>13, <2>1
  <2>3. Floor(caller) <= 0 /\ Floor(caller) \in Int
    BY <1>12, <2>2, FloorFacts
  <2> QED BY <1>2, <1>3, <1>14, <2>3
<1>16. /\ fp' = frame.a /\ fp' = caller.base
       /\ pc' = IF link.func = Nobody THEN "over" ELSE "body"
  BY <1>10, <1>11, <1>15
<1>17. Types'
  <2>1. depth - 1 \in 0 .. MaxDepth /\ fp + (n + 2) \in Int
    BY <1>1, <1>2, <1>3, FrameAssumption DEF Types
  <2>2. file \in [Reg -> Word] /\ caller.base \in 0 .. StackTop + 1
    BY <1>11, <1>12 DEF Views
  <2> QED BY <1>1, <1>9, <1>10, <1>16, <2>1, <2>2 DEF Types
<1>18. /\ Current'.func = link.func /\ Current'.file = file /\ Current'.base = caller.base
       /\ Current' = View(link.func, file, caller.base, NoSite)
  <2>1. Current' = View(func', regs', fp', NoSite)
    BY <1>16 DEF Current
  <2> QED BY <1>10, <1>16, <2>1 DEF View
<1>19. (Types => Starts)'
  BY UnwoundStarts, PTL
<1>20. Unwound'[0] = Current'
  BY <1>17, <1>19 DEF Starts
<1>21. caller = View(link.func, file, caller.base, link.site)
  BY <1>7, <1>8, <1>11
<1>22. Found(Current', caller, caller.func = Nobody)
  <2>1. link.func = Nobody => Current' = caller
    BY <1>9, <1>18, <1>21
  <2> QED BY <1>11, <1>18, <2>1 DEF Found, SameFrame
<1>23. Shifted(Unwound, Unwound', 0, 1, depth) /\ Nested(Unwound', mem', depth')
  <2>1. 0 \in 0 .. 1 /\ 1 \in 0 .. 1 /\ 1 <= depth /\ depth' = depth + 0 - 1 /\ 0 # 1
    BY <1>2, <1>10
  <2>2. KeptFrom(mem, mem', fp)
    BY <1>10 DEF KeptFrom
  <2>3. Found(Unwound'[0], Unwound[1], Unwound[1].func = Nobody)
    BY <1>20, <1>22 DEF caller
  <2> QED BY <1>1, <1>17, <2>1, <2>2, <2>3, AfterStep
<1>24. AtPc'
  <2>1. CASE link.func = Nobody
    <3>1. depth = 1
      BY <1>11, <1>13, <2>1, FrameAssumption
    <3> QED BY <1>10, <1>16, <2>1, <3>1 DEF AtPc
  <2>2. CASE link.func # Nobody
    <3>1. link.func \in Func /\ depth > 1
      BY <1>9, <1>11, <1>13, <2>2
    <3>2. Floor(caller) = Bottom(caller)
      BY <1>11, <1>12, <3>1, FloorFacts
    <3>3. Bottom(Current') = Bottom(caller)
      BY <1>11, <1>18 DEF Bottom
    <3>4. sp' = Bottom(Current') /\ depth' > 0
      BY <1>2, <1>3, <1>10, <1>14, <3>1, <3>2, <3>3
    <3> QED BY <1>16, <2>2, <3>4 DEF AtPc
  <2> QED BY <2>1, <2>2
<1>25. Current' = [caller EXCEPT !.site = NoSite]
  BY <1>18, <1>21 DEF View
<1> QED BY <1>2, <1>10, <1>17, <1>23, <1>24, <1>25 DEF CFInv, caller

LEMMA Stutter ==
  ASSUME CFInv, trusted, UNCHANGED vars
  PROVE  CFInv' /\ mem' = mem /\ depth' = depth /\ Shifted(Unwound, Unwound', 0, 0, depth)
<1>1. Types /\ AtPc /\ Nested(Unwound, mem, depth)
  BY DEF CFInv
<1>2. Types'
  BY <1>1 DEF Types, vars
<1>3. Current' = Current
  BY DEF Current, vars
<1>4. Found(Current', Current, Current.func = Nobody) /\ KeptFrom(mem, mem', fp) /\ depth' = depth
  BY <1>3 DEF Found, SameFrame, KeptFrom, vars
<1>5. Shifted(Unwound, Unwound', 0, 0, depth) /\ Nested(Unwound', mem', depth')
  BY <1>2, <1>4, QuietStep
<1>6. AtPc'
  <2>1. Floor(Current') = Floor(Current) /\ Bottom(Current') = Bottom(Current)
    BY <1>3
  <2> HIDE DEF Current
  <2> QED BY <1>1, <2>1 DEF AtPc, vars
<1> QED BY <1>2, <1>4, <1>5, <1>6 DEF CFInv, vars

LEMMA Start == Init => CFInv
<1> SUFFICES ASSUME Init PROVE CFInv
  OBVIOUS
<1>1. /\ pc = "entry" /\ func = Main /\ fp = StackTop + 1 /\ sp = StackTop + 1
      /\ lr = ReturnTo(Nobody, NoSite) /\ depth = 0 /\ trusted = TRUE
      /\ regs \in [Reg -> {Unset}] /\ r0 = Unset /\ mem = [a \in Address |-> Unset]
  BY DEF Init, Unset
<1>2. Main \in Func /\ StackTop \in Nat /\ MaxDepth \in Nat \ {0}
  BY FrameAssumption
<1>3. Types
  <2>1. Unset \in Word /\ lr \in Returns
    BY <1>1, WordFacts DEF Returns
  <2> QED BY <1>1, <1>2, <2>1 DEF Types
<1>4. Current.func = Nobody /\ Current.base = StackTop + 1
  BY <1>1, CurrentFields DEF ReturnTo
<1>5. AtPc
  BY <1>1, <1>2, <1>4 DEF AtPc, Floor
<1>6. Nested(Unwound, mem, depth)
  <2>1. Unwound[0] = Current
    BY <1>3, UnwoundStarts DEF Starts
  <2> QED BY <1>1, <1>4, <2>1 DEF Nested
<1> QED BY <1>1, <1>3, <1>5, <1>6 DEF CFInv

LEMMA EveryStep ==
  ASSUME CFInv, [Next]_vars, trusted'
  PROVE  /\ CFInv' /\ trusted
         /\ \E s, t \in 0 .. 1 :
              t <= depth /\ depth' = depth + s - t /\ Shifted(Unwound, Unwound', s, t, depth)
<1>1. trusted /\ depth \in Nat
  <2>1. trusted
    BY DEF CFInv, Next, Prologue, WriteReg, WriteWord, Call, LibraryCall, Ret, Bx, vars
  <2> QED BY <2>1 DEF CFInv, Types
<1>2. 0 \in 0 .. 1 /\ 1 \in 0 .. 1 /\ 0 <= depth /\ depth + 0 - 0 = depth
      /\ depth + 1 - 0 = depth + 1 /\ depth + 0 - 1 = depth - 1
  BY <1>1
<1>3. CASE WriteReg \/ WriteWord \/ Call \/ LibraryCall \/ Ret
  <2>1. depth' = depth
    BY <1>3 DEF WriteReg, WriteWord, Call, LibraryCall, Ret
  <2>2. CFInv' /\ Shifted(Unwound, Unwound', 0, 0, depth)
    BY <1>1, <1>3, BodyStep
  <2> QED BY <1>1, <1>2, <2>1, <2>2
<1>4. CASE Prologue
  <2>1. depth' = depth + 1
    BY <1>4 DEF Prologue
  <2>2. CFInv' /\ Shifted(Unwound, Unwound', 1, 0, depth)
    BY <1>1, <1>4, PrologueStep
  <2> QED BY <1>1, <1>2, <2>1, <2>2
<1>5. CASE Bx
  <2>1. depth' = depth - 1 /\ Spills[func] = 0
    BY <1>5 DEF Bx
  <2>2. CFInv' /\ depth > 0 /\ Shifted(Unwound, Unwound', 0, 1, depth)
    BY <1>1, <1>5, <2>1, BxStep
  <2>3. 1 <= depth
    BY <1>1, <2>2
  <2> QED BY <1>1, <1>2, <2>1, <2>2, <2>3
<1>6. CASE UNCHANGED vars
  BY <1>1, <1>2, <1>6, Stutter
<1> QED BY <1>3, <1>4, <1>5, <1>6 DEF Next

LEMMA InvariantStep == CFInv /\ [Next]_vars => CFInv'
<1> SUFFICES ASSUME CFInv, [Next]_vars PROVE CFInv'
  OBVIOUS
<1>1. trusted' \in BOOLEAN
  BY DEF CFInv, Next, Prologue, WriteReg, WriteWord, Call, LibraryCall, Ret, Bx, vars
<1>2. CASE trusted'
  BY <1>2, EveryStep
<1>3. CASE ~trusted'
  BY <1>1, <1>3 DEF CFInv
<1> QED BY <1>2, <1>3

LEMMA Invariant == Spec => []CFInv
BY Start, InvariantStep, PTL DEF Spec

-----------------------------------------------------------------------------
(***************************************************************************)
(* The frames that push, the prologue and pop make lie one above the other *)
(* without a gap, up to the stack of the C runtime, at every point of      *)
(* every sequence of calls and returns, as long as no function with        *)
(* spilled registers has returned.                                         *)
(***************************************************************************)
THEOREM FramesLieAdjoining == Spec => []FramesAdjoin
<1>1. CFInv => FramesAdjoin
  <2> SUFFICES ASSUME CFInv, trusted
               PROVE  /\ pc = "body" => sp = Bottom(Current)
                      /\ pc = "exit" => sp = fp - Spills[func]
                      /\ \A n \in 0 .. depth - 1 :
                           Ceiling(Unwound[n]) = IF n = depth - 1 THEN StackTop + 1
                                              ELSE Bottom(Unwound[n + 1])
    BY DEF FramesAdjoin, Ceiling
  <2>1. AtPc /\ Nested(Unwound, mem, depth) /\ depth \in Nat
    BY DEF CFInv, Types
  <2>2. ASSUME NEW n \in 0 .. depth - 1
        PROVE  Ceiling(Unwound[n]) = IF n = depth - 1 THEN StackTop + 1 ELSE Bottom(Unwound[n + 1])
    <3>1. Ceiling(Unwound[n]) = Floor(Unwound[n + 1])
      BY <2>1 DEF Nested, FrameHolds
    <3>2. CASE n = depth - 1
      <4>1. n + 1 = depth
        BY <2>1, <3>2
      <4> QED BY <2>1, <3>1, <3>2, <4>1 DEF Nested, Floor
    <3>3. CASE n # depth - 1
      <4>1. n + 1 \in 0 .. depth - 1
        BY <2>1, <3>3
      <4>2. Unwound[n + 1].func # Nobody
        BY <2>1, <4>1, FrameAssumption DEF Nested, FrameHolds
      <4> QED BY <3>1, <3>3, <4>2 DEF Floor
    <3> QED BY <3>2, <3>3
  <2> QED BY <2>1, <2>2 DEF AtPc
<1> QED BY <1>1, Invariant, PTL

(***************************************************************************)
(* No call, return or write of the program changes what the C runtime will *)
(* find in r4 to r10 and fp when Main returns: it is the same in every two *)
(* states, wherever between the runtime's registers and the words that the *)
(* prologues pushed it lies.                                               *)
(***************************************************************************)
THEOREM RuntimeIsUntouched == Spec => RuntimeUntouched
<1>1. CFInv /\ [Next]_vars => [trusted' => Runtime' = Runtime]_vars
  <2> SUFFICES ASSUME CFInv, [Next]_vars, trusted' PROVE Runtime' = Runtime
    OBVIOUS
  <2>1. PICK s, t \in 0 .. 1 :
          t <= depth /\ depth' = depth + s - t /\ Shifted(Unwound, Unwound', s, t, depth)
    BY EveryStep
  <2>2. trusted /\ depth \in Nat /\ Nested(Unwound, mem, depth)
    BY EveryStep DEF CFInv, Types
  <2>3. depth \in t .. depth
    BY <2>1, <2>2
  <2>4. Unwound'[depth + s - t] = Unwound[depth]
    BY <2>1, <2>2, <2>3 DEF Shifted, Found, Nested
  <2> HIDE DEF Unwound
  <2> QED BY <2>1, <2>4 DEF Runtime
<1> QED BY <1>1, Invariant, PTL DEF Spec, RuntimeUntouched

-----------------------------------------------------------------------------
(***************************************************************************)
(* The refinement.  The stack of activations, with what unwinding found    *)
(* and the memory as arguments.                                            *)
(***************************************************************************)
ActivationIn(v, m) ==
  [func |-> v.func, regs |-> [r \in Saved[v.func] |-> v.file[r]],
   words |-> [i \in 1 .. FinalSize(v.func) |-> LoadIn(m, v.base - i)], site |-> v.site]

StackIn(u, m, d) == [i \in 1 .. d |-> ActivationIn(u[d - i], m)]

LEMMA StackIs ==
  CFInv /\ trusted => Stack = StackIn(Unwound, mem, depth) /\ depth \in Nat
<1> SUFFICES ASSUME CFInv, trusted PROVE Stack = StackIn(Unwound, mem, depth) /\ depth \in Nat
  OBVIOUS
<1>1. Nested(Unwound, mem, depth) /\ depth \in Nat
  BY DEF CFInv, Types
<1>2. ASSUME NEW i \in 1 .. depth
      PROVE  (CHOOSE a \in {Activation(v) : v \in {Unwound[depth - i]}} : TRUE)
               = ActivationIn(Unwound[depth - i], mem)
  <2>1. {Activation(v) : v \in {Unwound[depth - i]}} = {Activation(Unwound[depth - i])}
    OBVIOUS
  <2>2. depth - i \in 0 .. depth - 1
    BY <1>1
  <2>3. Unwound[depth - i].func \in Func
    BY <1>1, <2>2 DEF Nested, FrameHolds
  <2>4. \A a : Load(a) = LoadIn(mem, a)
    BY CallerOfIs
  <2>5. Activation(Unwound[depth - i]) = ActivationIn(Unwound[depth - i], mem)
    BY <2>3, <2>4 DEF Activation, ActivationIn
  <2> QED BY <2>1, <2>5
<1> QED BY <1>1, <1>2 DEF Stack, StackIn

LEMMA ActivationTyped ==
  ASSUME NEW v \in Views, v.func \in Func, v.site = NoSite, NEW m \in [Address -> Word]
  PROVE  ActivationIn(v, m) \in Promise!Frame(v.func)
<1>1. v.file \in [Reg -> Word] /\ Saved[v.func] \subseteq Reg
  BY Sizes DEF Views
<1>2. [r \in Saved[v.func] |-> v.file[r]] \in [Saved[v.func] -> Word]
  BY <1>1
<1>3. [i \in 1 .. FinalSize(v.func) |-> LoadIn(m, v.base - i)]
        \in [1 .. Locals[v.func] + Spills[v.func] -> Word]
  BY LoadIsWord DEF FinalSize
<1>4. v.site = Promise!NoSite
  BY DEF NoSite, Promise!NoSite
<1> QED BY <1>2, <1>3, <1>4 DEF ActivationIn, Promise!Frame

LEMMA OtherSite ==
  ASSUME NEW x, NEW y, NEW m, x.func = y.func, x.file = y.file, x.base = y.base
  PROVE  ActivationIn(x, m) = [ActivationIn(y, m) EXCEPT !.site = x.site]
<1> DEFINE R(v) == [r \in Saved[v.func] |-> v.file[r]]
           W(v) == [i \in 1 .. FinalSize(v.func) |-> LoadIn(m, v.base - i)]
<1>1. R(x) = R(y) /\ W(x) = W(y)
  OBVIOUS
<1>2. \A v : ActivationIn(v, m) = [func |-> v.func, regs |-> R(v), words |-> W(v), site |-> v.site]
  BY DEF ActivationIn
<1> HIDE DEF R, W
<1> QED BY <1>1, <1>2

LEMMA ActivationKept ==
  ASSUME NEW v \in Views, v.func \in Func, NEW m, NEW m2, NEW a \in Int, a <= Bottom(v),
         KeptFrom(m, m2, a)
  PROVE  ActivationIn(v, m2) = ActivationIn(v, m)
<1>1. FinalSize(v.func) \in Nat /\ v.base \in Int /\ Bottom(v) = v.base - FinalSize(v.func)
  BY Sizes DEF Views, Bottom
<1>2. ASSUME NEW i \in 1 .. FinalSize(v.func) PROVE LoadIn(m2, v.base - i) = LoadIn(m, v.base - i)
  <2>1. v.base - i >= a
    BY <1>1
  <2> QED BY <2>1 DEF KeptFrom, LoadIn
<1> QED BY <1>2 DEF ActivationIn

\* The activations that wait for a call to return.
LEMMA WaitingKept ==
  ASSUME CFInv, trusted, NEW s \in 0 .. 1, NEW t \in 0 .. 1,
         Shifted(Unwound, Unwound', s, t, depth), KeptFrom(mem, mem', fp),
         NEW n \in 0 .. depth - 1, n > t
  PROVE  ActivationIn(Unwound'[n + s - t], mem') = ActivationIn(Unwound[n], mem)
<1>1. Types /\ Nested(Unwound, mem, depth) /\ depth \in Nat
  BY DEF CFInv, Types
<1>2. n \in t .. depth /\ n \in 0 .. depth /\ n > 0 /\ n \in Nat
  BY <1>1
<1>3. Unwound'[n + s - t] = Unwound[n]
  BY <1>2 DEF Shifted, Found
<1>4. Unwinds(Unwound, Current, mem) /\ Unwound[0].base = fp
  BY <1>1, UnwoundIs, UnwoundStarts, CurrentFields DEF Starts
<1>5. Floor(Unwound[n]) >= fp + 2
  BY <1>1, <1>2, <1>4, Rising
<1>6. Unwound[n] \in Views /\ Unwound[n].func \in Func /\ fp \in Int
  BY <1>1, <1>2, <1>4 DEF Unwinds, Nested, FrameHolds, Types
<1>7. fp <= Bottom(Unwound[n])
  BY <1>5, <1>6, FloorFacts
<1> HIDE DEF Unwound
<1> QED BY <1>3, <1>6, <1>7, ActivationKept

LEMMA ListParts ==
  ASSUME NEW d \in Nat, NEW q, q = [i \in 1 .. d |-> q[i]]
  PROVE  /\ Len(q) = d /\ (q = <<>> <=> d = 0)
         /\ SubSeq(q, 1, d - 1) = [i \in 1 .. d - 1 |-> q[i]]
         /\ Promise!Front(q) = [i \in 1 .. d - 1 |-> q[i]]
         /\ Promise!Last(q) = q[d]
<1>1. q \in Seq({q[i] : i \in 1 .. d}) /\ Len(q) = d
  OBVIOUS
<1>2. SubSeq(q, 1, d - 1) = [i \in 1 .. d - 1 |-> q[i]]
  BY <1>1
<1>3. Promise!Front(q) = SubSeq(q, 1, d - 1) /\ Promise!Last(q) = q[d]
  BY <1>1 DEF Promise!Front, Promise!Last
<1>4. q = <<>> <=> d = 0
  BY <1>1
<1> QED BY <1>1, <1>2, <1>3, <1>4

LEMMA StackParts ==
  ASSUME NEW u, NEW m, NEW d \in Nat
  PROVE  /\ Len(StackIn(u, m, d)) = d
         /\ StackIn(u, m, d) = <<>> <=> d = 0
         /\ \A i \in 1 .. d : StackIn(u, m, d)[i] = ActivationIn(u[d - i], m)
         /\ Promise!Front(StackIn(u, m, d)) = [i \in 1 .. d - 1 |-> ActivationIn(u[d - i], m)]
         /\ SubSeq(StackIn(u, m, d), 1, d - 1) = [i \in 1 .. d - 1 |-> ActivationIn(u[d - i], m)]
         /\ d > 0 => Promise!Last(StackIn(u, m, d)) = ActivationIn(u[0], m)
<1> DEFINE q == StackIn(u, m, d)
<1>1. q = [i \in 1 .. d |-> q[i]] /\ \A i \in 1 .. d : q[i] = ActivationIn(u[d - i], m)
  BY DEF StackIn
<1> HIDE DEF q
<1>2. /\ Len(q) = d /\ (q = <<>> <=> d = 0)
      /\ SubSeq(q, 1, d - 1) = [i \in 1 .. d - 1 |-> q[i]]
      /\ Promise!Front(q) = [i \in 1 .. d - 1 |-> q[i]]
      /\ Promise!Last(q) = q[d]
  BY <1>1, ListParts
<1>3. [i \in 1 .. d - 1 |-> q[i]] = [i \in 1 .. d - 1 |-> ActivationIn(u[d - i], m)]
  BY <1>1
<1>4. d > 0 => q[d] = ActivationIn(u[0], m)
  BY <1>1
<1> QED BY <1>1, <1>2, <1>3, <1>4 DEF q

\* The innermost activation, which runs.
LEMMA Innermost ==
  CFInv /\ trusted =>
    /\ depth > 0 => /\ Unwound[0].func \in Func
                    /\ ActivationIn(Unwound[0], mem) \in Promise!Frame(Unwound[0].func)
    /\ r0 \in Word
<1> SUFFICES ASSUME CFInv, trusted
             PROVE  /\ depth > 0 => /\ Unwound[0].func \in Func
                                    /\ ActivationIn(Unwound[0], mem) \in Promise!Frame(Unwound[0].func)
                    /\ r0 \in Word
  OBVIOUS
<1>1. Types /\ Nested(Unwound, mem, depth) /\ depth \in Nat /\ mem \in [Address -> Word] /\ r0 \in Word
  BY DEF CFInv, Types
<1>2. Unwound[0] = Current /\ Current \in Views /\ Current.site = NoSite
  BY <1>1, UnwoundStarts, CurrentFields DEF Starts
<1>3. ASSUME depth > 0 PROVE Unwound[0].func \in Func
  <2>1. 0 \in 0 .. depth - 1
    BY <1>1, <1>3
  <2> QED BY <1>1, <2>1 DEF Nested, FrameHolds
<1> HIDE DEF Unwound, Current
<1> QED BY <1>1, <1>2, <1>3, ActivationTyped

LEMMA QuietIsCompute ==
  ASSUME CFInv, CFInv', trusted, trusted' = trusted, depth' = depth,
         KeptFrom(mem, mem', fp), Shifted(Unwound, Unwound', 0, 0, depth)
  PROVE  Promise!Compute
<1>1. Stack = StackIn(Unwound, mem, depth) /\ depth \in Nat
  BY StackIs
<1>2. (CFInv /\ trusted => Stack = StackIn(Unwound, mem, depth) /\ depth \in Nat)'
  BY StackIs, PTL
<1>3. Stack' = StackIn(Unwound', mem', depth)
  BY <1>2
<1>4. Len(Stack') = Len(Stack)
  BY <1>1, <1>3, StackParts
<1>5. (CFInv /\ trusted =>
         /\ depth > 0 => /\ Unwound[0].func \in Func
                         /\ ActivationIn(Unwound[0], mem) \in Promise!Frame(Unwound[0].func)
         /\ r0 \in Word)'
  BY Innermost, PTL
<1>6. r0' \in Word
  BY <1>5
<1>7. ASSUME Stack # <<>>
      PROVE  /\ Promise!Front(Stack') = SubSeq(Stack, 1, Len(Stack) - 1)
             /\ Promise!Last(Stack') \in Promise!Frame(Promise!Last(Stack).func)
  <2>1. depth > 0 /\ Len(Stack) = depth
    BY <1>1, <1>7, StackParts
  <2>2. ASSUME NEW i \in 1 .. depth - 1
        PROVE  ActivationIn(Unwound'[depth - i], mem') = ActivationIn(Unwound[depth - i], mem)
    <3>1. PICK n \in 0 .. depth - 1 : n = depth - i /\ n > 0 /\ n + 0 - 0 = n
      BY <1>1
    <3>2. 0 \in 0 .. 1
      OBVIOUS
    <3>3. ActivationIn(Unwound'[n + 0 - 0], mem') = ActivationIn(Unwound[n], mem)
      BY <3>1, <3>2, WaitingKept
    <3> QED BY <3>1, <3>3
  <2>3. Promise!Front(Stack') = SubSeq(Stack, 1, Len(Stack) - 1)
    <3>1. Promise!Front(Stack') = [i \in 1 .. depth - 1 |-> ActivationIn(Unwound'[depth - i], mem')]
      BY <1>1, <1>3, StackParts
    <3>2. SubSeq(Stack, 1, depth - 1) = [i \in 1 .. depth - 1 |-> ActivationIn(Unwound[depth - i], mem)]
      BY <1>1, StackParts
    <3> QED BY <2>1, <2>2, <3>1, <3>2
  <2>4. Promise!Last(Stack').func = Unwound'[0].func /\ Promise!Last(Stack) = ActivationIn(Unwound[0], mem)
        /\ Promise!Last(Stack') = ActivationIn(Unwound'[0], mem')
    BY <1>1, <1>3, <2>1, StackParts DEF ActivationIn
  <2>5. Unwound'[0].func = Unwound[0].func
    <3>1. 0 \in 0 .. depth /\ 0 + 0 - 0 = 0
      BY <2>1
    <3>2. Found(Unwound'[0 + 0 - 0], Unwound[0], 0 > 0 \/ Unwound[0].func = Nobody)
      BY <3>1 DEF Shifted
    <3> QED BY <3>1, <3>2 DEF Found, SameFrame
  <2>6. Promise!Last(Stack).func = Unwound[0].func
    BY <2>4 DEF ActivationIn
  <2>7. Promise!Last(Stack') \in Promise!Frame(Unwound'[0].func)
    BY <1>5, <2>1, <2>4
  <2> QED BY <2>3, <2>5, <2>6, <2>7
<1> QED BY <1>4, <1>6, <1>7 DEF Promise!Compute, Promise!Top, Promise!Waiting

LEMMA PrologueIsCall ==
  ASSUME CFInv, CFInv', trusted, Prologue
  PROVE  Promise!Call
<1>1. /\ KeptFrom(mem, mem', sp) /\ sp = Floor(Current) /\ func \in Func
      /\ Shifted(Unwound, Unwound', 1, 0, depth)
      /\ Current'.func = func /\ Unwound'[1] = View(lr.func, regs, fp, lr.site)
  BY PrologueStep
<1>2. /\ Types /\ Types' /\ AtPc /\ Nested(Unwound, mem, depth) /\ depth \in Nat
      /\ depth' = depth + 1 /\ trusted' = trusted /\ r0' = r0 /\ pc = "entry"
  BY DEF CFInv, Types, Prologue
<1>3. Stack = StackIn(Unwound, mem, depth)
  BY StackIs
<1>4. (CFInv /\ trusted => Stack = StackIn(Unwound, mem, depth) /\ depth \in Nat)'
  BY StackIs, PTL
<1>5. Stack' = StackIn(Unwound', mem', depth + 1) /\ depth + 1 \in Nat /\ depth + 1 > 0 /\ (depth + 1) - 1 = depth
  BY <1>2, <1>4
<1>6. /\ Len(Stack) = depth /\ Len(Stack') = depth + 1
      /\ Promise!Last(Stack') = ActivationIn(Unwound'[0], mem')
  BY <1>2, <1>3, <1>5, StackParts
<1>7. /\ Unwound[0] = Current /\ Current \in Views
      /\ Current.func = lr.func /\ Current.file = regs /\ Current.base = fp /\ Current.site = NoSite
  BY <1>2, UnwoundStarts, CurrentFields DEF Starts
<1>8. (Types => Starts)'
  BY UnwoundStarts, PTL
<1>9. Unwound'[0] = Current'
  BY <1>2, <1>8 DEF Starts
<1>10. (CFInv /\ trusted =>
          /\ depth > 0 => /\ Unwound[0].func \in Func
                          /\ ActivationIn(Unwound[0], mem) \in Promise!Frame(Unwound[0].func)
          /\ r0 \in Word)'
  BY Innermost, PTL
<1>11. Promise!Last(Stack') \in Promise!Frame(func)
  <2>1. depth' > 0
    BY <1>2
  <2> QED BY <1>1, <1>2, <1>6, <1>9, <1>10, <2>1
<1>12. Promise!Last(Stack').func = func
  BY <1>1, <1>6, <1>9 DEF ActivationIn
<1>13. Stack = <<>> => func = Main
  <2>1. Stack = <<>> => depth = 0
    BY <1>2, <1>3, StackParts
  <2> QED BY <1>2, <2>1 DEF AtPc
<1>14. sp \in Int /\ sp <= fp /\ fp \in Int
  BY <1>2, Room
<1>15. KeptFrom(mem, mem', fp)
  <2>1. \A b \in Address : b \in Int
    BY DEF Address
  <2>2. \A b \in Address : b >= fp => b >= sp
    BY <1>14, <2>1
  <2> QED BY <1>1, <2>2 DEF KeptFrom
<1>16. ASSUME Stack # <<>>
       PROVE  \E site \in Site :
                Promise!Front(Stack')
                  = Append(SubSeq(Stack, 1, Len(Stack) - 1), [Promise!Last(Stack) EXCEPT !.site = site])
  <2>1. depth > 0
    BY <1>2, <1>3, <1>16, StackParts
  <2>2. lr.func \in Func /\ lr.site \in Site
    <3>1. 0 \in 0 .. depth - 1
      BY <1>2, <2>1
    <3>2. lr.func \in Func
      BY <1>2, <1>7, <3>1 DEF Nested, FrameHolds
    <3> QED BY <1>2, <3>2, WordFacts, FrameAssumption DEF Types
  <2>3. ASSUME NEW i \in 1 .. depth - 1
        PROVE  ActivationIn(Unwound'[(depth + 1) - i], mem') = ActivationIn(Unwound[depth - i], mem)
    <3>1. PICK n \in 0 .. depth - 1 : n = depth - i /\ n > 0 /\ n + 1 - 0 = (depth + 1) - i
      BY <1>2
    <3>2. 0 \in 0 .. 1 /\ 1 \in 0 .. 1
      OBVIOUS
    <3>3. ActivationIn(Unwound'[n + 1 - 0], mem') = ActivationIn(Unwound[n], mem)
      BY <1>1, <1>15, <3>1, <3>2, WaitingKept
    <3> QED BY <3>1, <3>3
  <2>4. ActivationIn(Unwound'[1], mem') = [ActivationIn(Unwound[0], mem) EXCEPT !.site = lr.site]
    <3>1. Floor(Current) = Bottom(Current)
      BY <1>7, <2>2, FloorFacts
    <3>2. sp <= Bottom(Current)
      BY <1>1, <1>14, <3>1
    <3>3. ActivationIn(Current, mem') = ActivationIn(Current, mem)
      BY <1>1, <1>7, <1>14, <2>2, <3>2, ActivationKept
    <3>4. /\ Unwound'[1].func = Current.func /\ Unwound'[1].file = Current.file
          /\ Unwound'[1].base = Current.base /\ Unwound'[1].site = lr.site
      BY <1>1, <1>7 DEF View
    <3>5. ActivationIn(Unwound'[1], mem') = [ActivationIn(Current, mem') EXCEPT !.site = lr.site]
      BY <3>4, OtherSite
    <3> QED BY <1>7, <3>3, <3>5
  <2>5. Promise!Front(Stack') = [i \in 1 .. depth |-> ActivationIn(Unwound'[(depth + 1) - i], mem')]
    <3>1. PICK d \in Nat : d = depth + 1 /\ d - 1 = depth
      BY <1>2
    <3>2. Promise!Front(StackIn(Unwound', mem', d)) = [i \in 1 .. d - 1 |-> ActivationIn(Unwound'[d - i], mem')]
      BY StackParts
    <3>3. Stack' = StackIn(Unwound', mem', d)
      BY <1>5, <3>1
    <3> QED BY <3>1, <3>2, <3>3
  <2>6. SubSeq(Stack, 1, Len(Stack) - 1) = [i \in 1 .. depth - 1 |-> ActivationIn(Unwound[depth - i], mem)]
    BY <1>2, <1>3, <1>6, StackParts
  <2>7. Promise!Last(Stack) = ActivationIn(Unwound[0], mem)
    BY <1>2, <1>3, <2>1, StackParts
  <2>8. Promise!Front(Stack')
          = Append(SubSeq(Stack, 1, Len(Stack) - 1), [Promise!Last(Stack) EXCEPT !.site = lr.site])
    <3> DEFINE a(i) == ActivationIn(Unwound[depth - i], mem)
               new == [ActivationIn(Unwound[0], mem) EXCEPT !.site = lr.site]
               q == SubSeq(Stack, 1, Len(Stack) - 1)
               front == Promise!Front(Stack')
    <3>1. q = [i \in 1 .. depth - 1 |-> a(i)]
      BY <2>6
    <3>2. front = [i \in 1 .. depth |-> IF i = depth THEN new ELSE a(i)]
      <4>1. (depth + 1) - depth = 1
        BY <1>2
      <4>2. \A i \in 1 .. depth : ActivationIn(Unwound'[(depth + 1) - i], mem')
                                    = IF i = depth THEN new ELSE a(i)
        <5> SUFFICES ASSUME NEW i \in 1 .. depth
                     PROVE  ActivationIn(Unwound'[(depth + 1) - i], mem') = IF i = depth THEN new ELSE a(i)
          OBVIOUS
        <5>1. CASE i = depth
          BY <2>4, <4>1, <5>1
        <5>2. CASE i # depth
          <6>1. i \in 1 .. depth - 1
            BY <1>2, <5>2
          <6> QED BY <2>3, <5>2, <6>1
        <5> QED BY <5>1, <5>2
      <4> QED BY <2>5, <4>2
    <3>3. Promise!Last(Stack) = ActivationIn(Unwound[0], mem)
      BY <2>7
    <3> HIDE DEF a, q, front
    <3>4. front = Append(q, new)
      <4> HIDE DEF new
      <4>1. q \in Seq({a(i) : i \in 1 .. depth - 1}) /\ Len(q) = depth - 1
        BY <1>2, <2>1, <3>1
      <4> QED BY <1>2, <2>1, <3>1, <3>2, <4>1
    <3> QED BY <3>3, <3>4 DEF front, q
  <2> QED BY <2>2, <2>8
<1> QED BY <1>1, <1>2, <1>6, <1>11, <1>12, <1>13, <1>16 DEF Promise!Call, Promise!Top, Promise!Waiting

LEMMA BxIsReturn ==
  ASSUME CFInv, CFInv', trusted, Bx
  PROVE  Promise!Return
<1>1. Types /\ AtPc /\ Nested(Unwound, mem, depth) /\ pc = "exit" /\ trusted \in BOOLEAN
  BY DEF CFInv, Bx
<1>2. func \in Func /\ depth > 0 /\ depth \in Nat /\ Current.func = func
  BY <1>1, OnTop
<1>3. Stack = StackIn(Unwound, mem, depth) /\ Unwound[0] = Current
  BY <1>1, StackIs, UnwoundStarts DEF Starts
<1>4. Len(Stack) = depth /\ Stack # <<>> /\ Stack[depth].func = func
  <2>1. /\ Len(Stack) = depth /\ Stack # <<>>
        /\ \A i \in 1 .. depth : Stack[i] = ActivationIn(Unwound[depth - i], mem)
    BY <1>2, <1>3, StackParts
  <2>2. depth \in 1 .. depth /\ depth - depth = 0
    BY <1>2
  <2>3. Stack[depth] = ActivationIn(Current, mem)
    BY <1>3, <2>1, <2>2
  <2> QED BY <1>2, <2>1, <2>3 DEF ActivationIn
<1>5. Spills[func] \in Nat
  BY <1>2, Sizes
<1>6. CASE Spills[func] > 0
  <2>1. trusted' = FALSE
    <3>1. Spills[func] # 0
      BY <1>5, <1>6
    <3>2. trusted' = (trusted /\ Spills[func] = 0)
      BY DEF Bx
    <3> QED BY <3>1, <3>2
  <2> QED BY <1>4, <1>6, <2>1 DEF Promise!Return, Promise!Top
<1>7. CASE Spills[func] = 0
  <2>1. /\ mem' = mem /\ Shifted(Unwound, Unwound', 0, 1, depth)
        /\ Current' = [Unwound[1] EXCEPT !.site = NoSite]
    BY <1>7, BxStep
  <2>2. r0' = r0 /\ depth' = depth - 1 /\ trusted' = trusted
    BY <1>1, <1>7 DEF Bx
  <2>3. (CFInv /\ trusted => Stack = StackIn(Unwound, mem, depth) /\ depth \in Nat)'
    BY StackIs, PTL
  <2>4. PICK d \in Nat : d = depth - 1
    BY <1>2
  <2>5. Stack' = StackIn(Unwound', mem, d)
    BY <2>1, <2>2, <2>3, <2>4
  <2>6. (Types => Starts)'
    BY UnwoundStarts, PTL
  <2>7. Unwound'[0] = Current'
    BY <2>2, <2>6 DEF Starts, CFInv
  <2>8. /\ Len(Stack') = d
        /\ Stack' = <<>> <=> d = 0
        /\ Stack' = [i \in 1 .. d |-> ActivationIn(Unwound'[d - i], mem)]
    BY <2>5, StackParts DEF StackIn
  <2>9. CASE depth = 1
    <3>1. Stack' = <<>>
      BY <2>4, <2>8, <2>9
    <3> QED BY <1>4, <1>5, <1>7, <2>2, <2>9, <3>1 DEF Promise!Return, Promise!Top
  <2>10. CASE depth # 1
    <3>1. ASSUME NEW i \in 1 .. d, i # d
          PROVE  ActivationIn(Unwound'[d - i], mem) = ActivationIn(Unwound[depth - i], mem)
      <4>1. PICK n \in 0 .. depth - 1 : n = depth - i /\ n > 1 /\ n + 0 - 1 = d - i
        BY <1>2, <2>4, <3>1
      <4>2. 0 \in 0 .. 1 /\ 1 \in 0 .. 1 /\ KeptFrom(mem, mem', fp)
        BY <2>1 DEF KeptFrom
      <4>3. ActivationIn(Unwound'[n + 0 - 1], mem') = ActivationIn(Unwound[n], mem)
        BY <2>1, <4>1, <4>2, WaitingKept
      <4> QED BY <2>1, <4>1, <4>3
    <3>2. ActivationIn(Unwound'[0], mem) = [ActivationIn(Unwound[1], mem) EXCEPT !.site = NoSite]
      <4>1. Unwound[1] \in Views
        BY <1>1, UnwoundStarts DEF Starts
      <4>2. /\ Current'.func = Unwound[1].func /\ Current'.file = Unwound[1].file
            /\ Current'.base = Unwound[1].base /\ Current'.site = NoSite
        <5> DEFINE x == Unwound[1]
        <5>1. x \in Views /\ Current' = [x EXCEPT !.site = NoSite]
          BY <2>1, <4>1
        <5> HIDE DEF x
        <5>2. /\ Current'.func = x.func /\ Current'.file = x.file
              /\ Current'.base = x.base /\ Current'.site = NoSite
          BY <5>1 DEF Views
        <5> QED BY <5>2 DEF x
      <4>3. ActivationIn(Current', mem) = [ActivationIn(Unwound[1], mem) EXCEPT !.site = Current'.site]
        BY <4>2, OtherSite
      <4> QED BY <2>7, <4>2, <4>3
    <3> DEFINE a(i) == ActivationIn(Unwound[depth - i], mem)
               waiting == SubSeq(Stack, 1, Len(Stack) - 1)
               stack == Stack'
    <3>3. waiting = [i \in 1 .. d |-> a(i)]
      <4>1. SubSeq(Stack, 1, depth - 1) = [i \in 1 .. depth - 1 |-> a(i)]
        BY <1>2, <1>3, StackParts
      <4> QED BY <1>4, <2>4, <4>1
    <3>4. stack = [i \in 1 .. d |-> IF i = d THEN [a(d) EXCEPT !.site = NoSite] ELSE a(i)]
      <4> SUFFICES ASSUME NEW i \in 1 .. d
                   PROVE  ActivationIn(Unwound'[d - i], mem)
                            = IF i = d THEN [a(d) EXCEPT !.site = NoSite] ELSE a(i)
        BY <2>8
      <4>1. CASE i = d
        <5>1. d - i = 0 /\ depth - d = 1
          BY <1>2, <2>4, <4>1
        <5> QED BY <3>2, <4>1, <5>1
      <4>2. CASE i # d
        BY <3>1, <4>2
      <4> QED BY <4>1, <4>2
    <3>5. d \in 1 .. d /\ Len(Stack) - 1 = d
      BY <1>2, <1>4, <2>4, <2>10
    <3> HIDE DEF a, waiting, stack
    <3>6. stack = [waiting EXCEPT ![d].site = NoSite]
      BY <3>3, <3>4, <3>5
    <3>7. Stack' = [Promise!Waiting EXCEPT ![Promise!Top - 1].site = Promise!NoSite]
      BY <3>5, <3>6 DEF stack, waiting, Promise!Waiting, Promise!Top, NoSite, Promise!NoSite
    <3>8. Promise!Top = depth /\ Promise!Top # 1
      BY <1>4, <2>10 DEF Promise!Top
    <3> QED BY <1>4, <1>5, <1>7, <2>2, <3>7, <3>8 DEF Promise!Return
  <2> QED BY <2>9, <2>10
<1> QED BY <1>5, <1>6, <1>7

(***************************************************************************)
(* The frames keep the promise of Activations: an activation finds its     *)
(* registers and words as it left them when the function it called         *)
(* returns, at every depth, also for recursive calls, and goes on where it *)
(* called.  A bl and the first instructions of a return are steps of the   *)
(* caller's and the callee's own; the prologue is the call, and bx is the  *)
(* return.                                                                 *)
(***************************************************************************)
THEOREM FramesImplementActivations == Spec => ImplementsActivations
<1>1. Init => Promise!Init
  <2> SUFFICES ASSUME Init PROVE Promise!Init
    OBVIOUS
  <2>1. CFInv /\ trusted /\ depth = 0 /\ trusted = TRUE
    BY Start DEF Init
  <2>2. Stack = <<>>
    BY <2>1, StackIs, StackParts
  <2> QED BY <2>1, <2>2, Innermost DEF Promise!Init
<1>2. CFInv /\ CFInv' /\ [Next]_vars => [Promise!Next]_<<Stack, r0, trusted>>
  <2> SUFFICES ASSUME CFInv, CFInv', [Next]_vars PROVE Promise!Next
    OBVIOUS
  <2>1. CASE ~trusted
    <3>1. ~trusted'
      BY <2>1 DEF Next, Prologue, WriteReg, WriteWord, Call, LibraryCall, Ret, Bx, vars
    <3> QED BY <2>1, <3>1 DEF Promise!Next, Promise!NothingPromised
  <2>2. CASE trusted /\ (WriteReg \/ WriteWord \/ Call \/ LibraryCall \/ Ret)
    <3>1. KeptFrom(mem, mem', fp) /\ Shifted(Unwound, Unwound', 0, 0, depth)
      BY <2>2, BodyStep
    <3>2. depth' = depth /\ trusted' = trusted
      BY <2>2 DEF WriteReg, WriteWord, Call, LibraryCall, Ret
    <3> QED BY <2>2, <3>1, <3>2, QuietIsCompute DEF Promise!Next
  <2>3. CASE trusted /\ Prologue
    BY <2>3, PrologueIsCall DEF Promise!Next
  <2>4. CASE trusted /\ Bx
    BY <2>4, BxIsReturn DEF Promise!Next
  <2>5. CASE trusted /\ UNCHANGED vars
    <3>1. KeptFrom(mem, mem', fp) /\ Shifted(Unwound, Unwound', 0, 0, depth) /\ depth' = depth
      BY <2>5, Stutter DEF KeptFrom
    <3>2. trusted' = trusted
      BY <2>5 DEF vars
    <3> QED BY <2>5, <3>1, <3>2, QuietIsCompute DEF Promise!Next
  <2> QED BY <2>1, <2>2, <2>3, <2>4, <2>5 DEF Next
<1> QED BY <1>1, <1>2, Invariant, PTL DEF Spec, ImplementsActivations, Promise!Spec

=============================================================================
