--------------------------- MODULE FrontEndProofs ---------------------------
(***************************************************************************)
(* The chain of symbol tables against the scopes of the source text, and   *)
(* the addresses genCode gives the entries against what statements load    *)
(* and store, for every number of functions, every depth of blocks and     *)
(* however many tables the functions leave open; then the checks of types. *)
(***************************************************************************)
EXTENDS Storage, TypeCheck, TLAPS, SequenceTheorems, FiniteSetTheorems

(***************************************************************************)
(* Sequences by their length.                                              *)
(***************************************************************************)
HasLength(s, n) == n \in Nat /\ s = [i \in 1 .. n |-> s[i]]

Extended(t, s, n, e) == HasLength(t, n + 1) /\ t[n + 1] = e /\ \A i \in 1 .. n : t[i] = s[i]
Shortened(t, s, n) == HasLength(t, n - 1) /\ \A i \in 1 .. n - 1 : t[i] = s[i]

WithName(table, name, e) ==
  [x \in DOMAIN table \cup {name} |-> IF x = name THEN e ELSE table[x]]

\* "name" is entered into the last of n tables.
Entered(t, s, n, name, e) ==
  /\ HasLength(t, n)
  /\ \A i \in 1 .. n - 1 : t[i] = s[i]
  /\ t[n] = WithName(s[n], name, e)
  /\ DOMAIN t[n] = DOMAIN s[n] \cup {name}
  /\ t[n][name] = e
  /\ \A x \in DOMAIN s[n] : x # name => t[n][x] = s[n][x]

LEMMA LengthIs ==
  ASSUME NEW n, NEW s, HasLength(s, n)
  PROVE  n \in Nat /\ Len(s) = n /\ DOMAIN s = 1 .. n
BY DEF HasLength

LEMMA IsSequence ==
  ASSUME NEW n, NEW s, HasLength(s, n), NEW S, \A i \in 1 .. n : s[i] \in S
  PROVE  s \in Seq(S)
<1>1. n \in Nat /\ s \in [1 .. n -> S]
  BY DEF HasLength
<1> QED BY <1>1, SeqDef

LEMMA SequenceHasLength ==
  ASSUME NEW S, NEW s \in Seq(S)
  PROVE  HasLength(s, Len(s))
BY LenProperties DEF HasLength

LEMMA AppendExtends ==
  ASSUME NEW n, NEW s, HasLength(s, n), NEW e
  PROVE  Extended(Append(s, e), s, n, e)
<1> DEFINE A == {s[i] : i \in 1 .. n} \cup {e}
           t == Append(s, e)
<1>1. s \in Seq(A) /\ e \in A
  BY IsSequence
<1>2. n \in Nat /\ Len(s) = n
  BY LengthIs
<1> HIDE DEF A
<1>3. t \in Seq(A) /\ Len(t) = n + 1
  BY <1>1, <1>2, AppendProperties
<1>4. t[n + 1] = e /\ \A i \in 1 .. n : t[i] = s[i]
  BY <1>1, <1>2
<1> HIDE DEF t
<1>5. HasLength(t, n + 1)
  BY <1>3, SequenceHasLength
<1> QED BY <1>4, <1>5 DEF Extended, t

LEMMA FrontShortens ==
  ASSUME NEW n, NEW s, HasLength(s, n), n >= 1
  PROVE  Shortened(Front(s), s, n)
<1>1. n \in Nat /\ Len(s) = n
  BY LengthIs
<1>2. Front(s) = [i \in 1 .. n - 1 |-> s[i]]
  BY <1>1 DEF Front
<1>3. \A i \in 1 .. n - 1 : Front(s)[i] = s[i]
  BY <1>2
<1>4. Front(s) = [i \in 1 .. n - 1 |-> Front(s)[i]]
  BY <1>2, Zenon
<1>5. n - 1 \in Nat
  BY <1>1
<1> QED BY <1>3, <1>4, <1>5 DEF Shortened, HasLength

LEMMA InstallEnters ==
  ASSUME NEW n, NEW s, HasLength(s, n), n >= 1, NEW name, NEW e
  PROVE  Entered(Install(s, name, e), s, n, name, e)
<1> DEFINE new == WithName(s[n], name, e)
<1>1. n \in Nat /\ s = [i \in 1 .. n |-> s[i]]
  BY DEF HasLength
<1>2. Install(s, name, e) = [s EXCEPT ![n] = new]
  BY LengthIs DEF Install, WithName
<1>3. /\ [s EXCEPT ![n] = new] = [i \in 1 .. n |-> [s EXCEPT ![n] = new][i]]
      /\ [s EXCEPT ![n] = new][n] = new
      /\ \A i \in 1 .. n - 1 : [s EXCEPT ![n] = new][i] = s[i]
  BY <1>1
<1>4. /\ DOMAIN new = DOMAIN s[n] \cup {name}
      /\ new[name] = e
      /\ \A x \in DOMAIN s[n] : x # name => new[x] = s[n][x]
  BY DEF WithName
<1>5. HasLength(Install(s, name, e), n)
  BY <1>1, <1>2, <1>3 DEF HasLength
<1> QED BY <1>2, <1>3, <1>4, <1>5 DEF Entered

\* One entry, n that are given and n copies.
Joined(t, s, m, e, given, copies, n) ==
  /\ HasLength(t, m + 1 + n + n)
  /\ \A i \in 1 .. m : t[i] = s[i]
  /\ t[m + 1] = e
  /\ \A i \in 1 .. n : t[m + 1 + i] = given[i] /\ t[m + 1 + n + i] = copies[i]

JoinOf(w, A, s, t) ==
  /\ w \in Seq(A) /\ Len(w) = Len(s) + Len(t)
  /\ \A i \in 1 .. Len(s) : w[i] = s[i]
  /\ \A i \in 1 .. Len(t) : w[Len(s) + i] = t[i]

LEMMA JoinTwo ==
  ASSUME NEW A, NEW s \in Seq(A), NEW t \in Seq(A)
  PROVE  JoinOf(s \o t, A, s, t)
<1>1. Len(s) \in Nat /\ Len(t) \in Nat
  OBVIOUS
<1> QED BY <1>1, ConcatProperties DEF JoinOf

LEMMA ConcatJoins ==
  ASSUME NEW m, NEW s, HasLength(s, m), NEW e,
         NEW n, NEW given, HasLength(given, n), NEW copies, HasLength(copies, n)
  PROVE  Joined((Append(s, e) \o given) \o copies, s, m, e, given, copies, n)
<1> DEFINE A == {s[i] : i \in 1 .. m} \cup {e}
                  \cup {given[i] : i \in 1 .. n} \cup {copies[i] : i \in 1 .. n}
           p == Append(s, e)
           q == p \o given
           r == q \o copies
<1>4. s \in Seq(A) /\ given \in Seq(A) /\ copies \in Seq(A) /\ e \in A
  BY IsSequence
<1>5. m \in Nat /\ n \in Nat /\ Len(s) = m /\ Len(given) = n /\ Len(copies) = n
  BY LengthIs
<1> HIDE DEF A
<1>6. /\ p \in Seq(A) /\ Len(p) = m + 1 /\ p[m + 1] = e
      /\ \A i \in 1 .. m : p[i] = s[i]
  BY <1>4, <1>5, AppendProperties
<1> HIDE DEF p
<1>7. /\ q \in Seq(A) /\ Len(q) = m + 1 + n
      /\ \A i \in 1 .. m + 1 : q[i] = p[i]
      /\ \A i \in 1 .. n : q[m + 1 + i] = given[i]
  <2>1. JoinOf(q, A, p, given)
    BY <1>4, <1>6, JoinTwo
  <2> HIDE DEF q
  <2> QED BY <1>5, <1>6, <2>1 DEF JoinOf
<1> HIDE DEF q
<1>8. /\ r \in Seq(A) /\ Len(r) = m + 1 + n + n
      /\ \A i \in 1 .. m + 1 + n : r[i] = q[i]
      /\ \A i \in 1 .. n : r[m + 1 + n + i] = copies[i]
  <2>1. JoinOf(r, A, q, copies)
    BY <1>4, <1>7, JoinTwo
  <2> HIDE DEF r
  <2> QED BY <1>5, <1>7, <2>1 DEF JoinOf
<1> HIDE DEF r
<1>9. HasLength(r, m + 1 + n + n)
  BY <1>8, SequenceHasLength
<1>10. \A i \in 1 .. m : r[i] = s[i]
  BY <1>5, <1>6, <1>7, <1>8
<1>11. r[m + 1] = e
  <2>1. m + 1 \in 1 .. m + 1 /\ m + 1 \in 1 .. m + 1 + n
    BY <1>5
  <2>2. r[m + 1] = q[m + 1] /\ q[m + 1] = p[m + 1]
    BY <1>7, <1>8, <2>1
  <2> QED BY <1>6, <2>2
<1>12. \A i \in 1 .. n : r[m + 1 + i] = given[i] /\ r[m + 1 + n + i] = copies[i]
  BY <1>5, <1>7, <1>8
<1> QED BY <1>9, <1>10, <1>11, <1>12 DEF Joined, p, q, r

-----------------------------------------------------------------------------
(***************************************************************************)
(* The invariant.  The tables of the open blocks are the topmost ones; the *)
(* Base tables below hold the globals and what functions left behind.      *)
(***************************************************************************)
Base == Len(scopes) - depth
Place(e) == symbols[e].place

\* Above an open function's own table of parameters there is none that leaked.
Shape ==
  /\ depth \in Nat /\ Base >= 1 /\ (depth > 0 => Base >= 2)
  /\ HasLength(scopes, Len(scopes)) /\ HasLength(lexical, depth + 1)
  /\ HasLength(symbols, Len(symbols))

EntriesExist ==
  /\ \A k \in 1 .. Len(scopes) : \A x \in DOMAIN scopes[k] : scopes[k][x] \in 1 .. Len(symbols)
  /\ \A x \in DOMAIN lexical[1] :
       lexical[1][x] \in 1 .. Len(symbols) /\ Place(lexical[1][x]) = "global"
  /\ \A k \in 2 .. depth + 1 : \A x \in DOMAIN lexical[k] :
       lexical[k][x] \in 1 .. Len(symbols) /\ Place(lexical[k][x]) \in {"local", "param"}

BodiesSame == \A k \in 2 .. depth : lexical[k + 1] = scopes[Base + k]

\* A block with the names of two tables, body before params, but for the name
\* of the parameters' copies.
ParamsUnderBody(block, params, body) == \A x : x # BaseName =>
  /\ x \in DOMAIN block <=> x \in DOMAIN params \/ x \in DOMAIN body
  /\ x \in DOMAIN body => block[x] = body[x]
  /\ x \in DOMAIN params /\ x \notin DOMAIN body => block[x] = params[x]

\* The outermost block and the open function's two tables.
Outermost == depth > 0 =>
  /\ ParamsUnderBody(lexical[2], scopes[Base], scopes[Base + 1])
  /\ \A x \in DOMAIN scopes[Base] : Place(scopes[Base][x]) = "param"

GlobalsFound == \A x \in DOMAIN lexical[1] : \E k \in 1 .. Base : x \in DOMAIN scopes[k]

\* Table k is the last of the b first ones to hold x.
Uppermost(b, k, x) == x \in DOMAIN scopes[k] /\ \A j \in k + 1 .. b : x \notin DOMAIN scopes[j]

\* Below the bodies one finds the global of the source text, or a parameter.
OuterRight ==
  \A k \in 1 .. Base : \A x \in DOMAIN scopes[k] : Uppermost(Base, k, x) =>
    \/ Place(scopes[k][x]) = "param"
    \/ x \in DOMAIN lexical[1] /\ scopes[k][x] = lexical[1][x]

\* Nothing has leaked yet.
Clean == scopes[1] = lexical[1] /\ Len(scopes) = IF depth = 0 THEN 1 ELSE depth + 2

TablesInv ==
  /\ Shape /\ EntriesExist /\ BodiesSame /\ GlobalsFound /\ OuterRight /\ Outermost
  /\ \A i \in 1 .. Len(symbols) : symbols[i].place = "local" => IsLocal(symbols[i])

-----------------------------------------------------------------------------
(***************************************************************************)
(* Declarations.                                                           *)
(***************************************************************************)
LEMMA InstallVarKeeps ==
  ASSUME TablesInv, NEW name, InstallVar(name), UNCHANGED depth
  PROVE  TablesInv' /\ (Clean => Clean')
<1> DEFINE m == Len(symbols)
           N == Len(scopes)
           place == IF InFunction THEN "local" ELSE "global"
           entry == Entry(name, scopes, place)
<1>1. /\ depth \in Nat /\ N \in Nat /\ m \in Nat /\ N - depth >= 1 /\ (depth > 0 => N - depth >= 2)
      /\ HasLength(scopes, N) /\ HasLength(lexical, depth + 1) /\ HasLength(symbols, m)
  BY LengthIs DEF TablesInv, Shape, Base
<1>2. /\ Entered(scopes', scopes, N, name, m + 1)
      /\ Entered(lexical', lexical, depth + 1, name, m + 1)
      /\ Extended(symbols', symbols, m, entry)
  BY <1>1, InstallEnters, AppendExtends DEF InstallVar, NextEntry
<1>3. /\ Len(scopes') = N /\ Len(symbols') = m + 1 /\ depth' = depth /\ Base' = Base /\ Base = N - depth
      /\ HasLength(scopes', N) /\ HasLength(lexical', depth + 1) /\ HasLength(symbols', m + 1)
  BY <1>2, LengthIs DEF Entered, Extended, Base
<1>4. /\ \A i \in 1 .. m : symbols'[i] = symbols[i]
      /\ symbols'[m + 1].place = (IF depth > 0 THEN "local" ELSE "global")
      /\ symbols'[m + 1].level = N - 1
  BY <1>2 DEF Extended, Entry, Level, InFunction
<1>5. Shape'
  BY <1>1, <1>3 DEF Shape
<1>6. \A i \in 1 .. Len(symbols') : symbols'[i].place = "local" => IsLocal(symbols'[i])
  BY <1>1, <1>3, <1>4 DEF TablesInv, IsLocal
<1>7. CASE depth = 0
  <2>1. /\ \A k \in 1 .. N - 1 : scopes'[k] = scopes[k]
        /\ DOMAIN scopes'[N] = DOMAIN scopes[N] \cup {name} /\ scopes'[N][name] = m + 1
        /\ \A x \in DOMAIN scopes[N] : x # name => scopes'[N][x] = scopes[N][x]
    BY <1>2 DEF Entered
  <2>2. /\ DOMAIN lexical'[1] = DOMAIN lexical[1] \cup {name} /\ lexical'[1][name] = m + 1
        /\ \A x \in DOMAIN lexical[1] : x # name => lexical'[1][x] = lexical[1][x]
    BY <1>2, <1>7 DEF Entered
  <2>3. EntriesExist'
    <3>1. ASSUME NEW k \in 1 .. N, NEW x \in DOMAIN scopes'[k]
          PROVE  scopes'[k][x] \in 1 .. m + 1
      <4>1. \A y \in DOMAIN scopes[k] : scopes[k][y] \in 1 .. m + 1
        BY <1>1 DEF TablesInv, EntriesExist
      <4>2. m + 1 \in 1 .. m + 1 /\ (k = N \/ k \in 1 .. N - 1)
        BY <1>1
      <4> QED BY <2>1, <4>1, <4>2
    <3>2. \A x \in DOMAIN lexical'[1] :
             lexical'[1][x] \in 1 .. m + 1 /\ symbols'[lexical'[1][x]].place = "global"
      BY <1>1, <1>4, <1>7, <2>2 DEF TablesInv, EntriesExist, Place
    <3> QED BY <1>3, <1>7, <3>1, <3>2 DEF EntriesExist, Place
  <2>4. BodiesSame' /\ Outermost'
    BY <1>3, <1>7 DEF BodiesSame, Outermost
  <2>5. GlobalsFound'
    <3> SUFFICES ASSUME NEW x \in DOMAIN lexical'[1]
                 PROVE  \E k \in 1 .. N : x \in DOMAIN scopes'[k]
      BY <1>3, <1>7 DEF GlobalsFound
    <3>1. CASE x = name
      BY <1>1, <2>1, <3>1
    <3>2. CASE x # name
      <4>1. x \in DOMAIN lexical[1]
        BY <2>2, <3>2
      <4>2. PICK k \in 1 .. N : x \in DOMAIN scopes[k]
        BY <1>3, <1>7, <4>1 DEF TablesInv, GlobalsFound
      <4>3. x \in DOMAIN scopes'[k]
        BY <1>1, <2>1, <4>2
      <4> QED BY <4>3
    <3> QED BY <3>1, <3>2
  <2>6. OuterRight'
    <3> SUFFICES ASSUME NEW k \in 1 .. N, NEW x \in DOMAIN scopes'[k],
                        \A j \in k + 1 .. N : x \notin DOMAIN scopes'[j]
                 PROVE  \/ symbols'[scopes'[k][x]].place = "param"
                        \/ x \in DOMAIN lexical'[1] /\ scopes'[k][x] = lexical'[1][x]
      BY <1>3, <1>7 DEF OuterRight, Uppermost, Place
    <3>1. CASE x = name
      <4>1. k = N
        BY <1>1, <2>1, <3>1
      <4> QED BY <2>1, <2>2, <3>1, <4>1
    <3>2. CASE x # name
      <4>1. x \in DOMAIN scopes[k] /\ scopes'[k][x] = scopes[k][x]
        BY <1>1, <2>1, <3>2
      <4>2. \A j \in k + 1 .. N : x \notin DOMAIN scopes[j]
        BY <1>1, <2>1, <3>2
      <4>3. \/ symbols[scopes[k][x]].place = "param"
            \/ x \in DOMAIN lexical[1] /\ scopes[k][x] = lexical[1][x]
        BY <1>1, <1>3, <1>7, <4>1, <4>2 DEF TablesInv, OuterRight, Uppermost, Place
      <4>4. scopes[k][x] \in 1 .. m
        BY <4>1 DEF TablesInv, EntriesExist
      <4> QED BY <1>4, <2>2, <3>2, <4>1, <4>3, <4>4
    <3> QED BY <3>1, <3>2
  <2>7. Clean => Clean'
    <3>1. Clean => scopes'[1] = WithName(scopes[1], name, m + 1) /\ lexical'[1] = WithName(lexical[1], name, m + 1)
      BY <1>2, <1>7 DEF Clean, Entered
    <3> QED BY <1>3, <1>7, <3>1 DEF Clean
  <2> QED BY <1>5, <1>6, <2>3, <2>4, <2>5, <2>6, <2>7 DEF TablesInv
<1>8. CASE depth > 0
  <2>1. /\ \A k \in 1 .. N - 1 : scopes'[k] = scopes[k]
        /\ DOMAIN scopes'[N] = DOMAIN scopes[N] \cup {name} /\ scopes'[N][name] = m + 1
        /\ \A x \in DOMAIN scopes[N] : x # name => scopes'[N][x] = scopes[N][x]
        /\ scopes'[N] = WithName(scopes[N], name, m + 1)
    BY <1>2 DEF Entered
  <2>2. /\ \A k \in 1 .. depth : lexical'[k] = lexical[k]
        /\ DOMAIN lexical'[depth + 1] = DOMAIN lexical[depth + 1] \cup {name}
        /\ lexical'[depth + 1][name] = m + 1
        /\ \A x \in DOMAIN lexical[depth + 1] : x # name => lexical'[depth + 1][x] = lexical[depth + 1][x]
        /\ lexical'[depth + 1] = WithName(lexical[depth + 1], name, m + 1)
    BY <1>1, <1>2 DEF Entered
  <2>3. EntriesExist'
    <3>1. ASSUME NEW k \in 1 .. N, NEW x \in DOMAIN scopes'[k]
          PROVE  scopes'[k][x] \in 1 .. m + 1
      <4>1. \A y \in DOMAIN scopes[k] : scopes[k][y] \in 1 .. m + 1
        BY <1>1 DEF TablesInv, EntriesExist
      <4>2. m + 1 \in 1 .. m + 1 /\ (k = N \/ k \in 1 .. N - 1)
        BY <1>1
      <4> QED BY <2>1, <4>1, <4>2
    <3>2. ASSUME NEW x \in DOMAIN lexical'[1]
          PROVE  lexical'[1][x] \in 1 .. m + 1 /\ symbols'[lexical'[1][x]].place = "global"
      <4>1. lexical'[1] = lexical[1]
        BY <1>1, <1>8, <2>2
      <4>2. lexical[1][x] \in 1 .. m /\ symbols[lexical[1][x]].place = "global"
        BY <4>1 DEF TablesInv, EntriesExist, Place
      <4> QED BY <1>1, <1>4, <4>1, <4>2
    <3>3. ASSUME NEW k \in 2 .. depth + 1, NEW x \in DOMAIN lexical'[k]
          PROVE  lexical'[k][x] \in 1 .. m + 1 /\ symbols'[lexical'[k][x]].place \in {"local", "param"}
      <4>1. CASE k = depth + 1 /\ x = name
        BY <1>1, <1>4, <1>8, <2>2, <4>1
      <4>2. CASE ~(k = depth + 1 /\ x = name)
        <5>1. x \in DOMAIN lexical[k] /\ lexical'[k][x] = lexical[k][x]
          BY <1>1, <2>2, <4>2
        <5>2. lexical[k][x] \in 1 .. m /\ symbols[lexical[k][x]].place \in {"local", "param"}
          BY <5>1 DEF TablesInv, EntriesExist, Place
        <5> QED BY <1>1, <1>4, <5>1, <5>2
      <4> QED BY <4>1, <4>2
    <3> QED BY <1>3, <3>1, <3>2, <3>3 DEF EntriesExist, Place
  <2>4. BodiesSame'
    <3> SUFFICES ASSUME NEW k \in 2 .. depth PROVE lexical'[k + 1] = scopes'[N - depth + k]
      BY <1>3 DEF BodiesSame
    <3>1. lexical[k + 1] = scopes[N - depth + k]
      BY <1>3 DEF TablesInv, BodiesSame
    <3>2. CASE k = depth
      BY <1>1, <2>1, <2>2, <3>1, <3>2
    <3>3. CASE k # depth
      <4>1. k + 1 \in 1 .. depth /\ N - depth + k \in 1 .. N - 1
        BY <1>1, <3>3
      <4> QED BY <2>1, <2>2, <3>1, <4>1
    <3> QED BY <3>2, <3>3
  <2>5. \A k \in 1 .. Base : scopes'[k] = scopes[k]
    BY <1>1, <1>3, <1>8, <2>1
  <2>6. lexical'[1] = lexical[1]
    BY <1>1, <1>8, <2>2
  <2>7. GlobalsFound'
    BY <1>3, <2>5, <2>6 DEF TablesInv, GlobalsFound
  <2>8. OuterRight'
    <3> SUFFICES ASSUME NEW k \in 1 .. Base, NEW x \in DOMAIN scopes'[k],
                        \A j \in k + 1 .. Base : x \notin DOMAIN scopes'[j]
                 PROVE  \/ symbols'[scopes'[k][x]].place = "param"
                        \/ x \in DOMAIN lexical'[1] /\ scopes'[k][x] = lexical'[1][x]
      BY <1>3 DEF OuterRight, Uppermost, Place
    <3>1. x \in DOMAIN scopes[k] /\ scopes'[k][x] = scopes[k][x]
      BY <2>5
    <3>2. \A j \in k + 1 .. Base : x \notin DOMAIN scopes[j]
      BY <1>1, <1>3, <2>5
    <3>3. \/ symbols[scopes[k][x]].place = "param"
          \/ x \in DOMAIN lexical[1] /\ scopes[k][x] = lexical[1][x]
      BY <3>1, <3>2 DEF TablesInv, OuterRight, Uppermost, Place
    <3>4. k \in 1 .. N
      BY <1>1, <1>3
    <3>5. scopes[k][x] \in 1 .. m
      BY <3>1, <3>4 DEF TablesInv, EntriesExist
    <3> QED BY <1>4, <2>6, <3>1, <3>3, <3>5
  <2>9. Outermost'
    <3>1. /\ ParamsUnderBody(lexical[2], scopes[Base], scopes[Base + 1])
          /\ \A x \in DOMAIN scopes[Base] : symbols[scopes[Base][x]].place = "param"
          /\ Base \in 1 .. N - 1 /\ Base + 1 \in 1 .. N
      BY <1>1, <1>3, <1>8 DEF TablesInv, Outermost, Place
    <3>2. scopes'[Base] = scopes[Base]
      BY <2>5, <3>1
    <3>3. \A x \in DOMAIN scopes'[Base] : symbols'[scopes'[Base][x]].place = "param"
      <4> SUFFICES ASSUME NEW x \in DOMAIN scopes[Base]
                   PROVE  symbols'[scopes[Base][x]].place = "param"
        BY <3>2
      <4>1. Base \in 1 .. N
        BY <1>1, <3>1
      <4>2. scopes[Base][x] \in 1 .. m
        BY <4>1 DEF TablesInv, EntriesExist
      <4> QED BY <1>4, <3>1, <4>2
    <3>4. CASE depth = 1
      <4>1. N = Base + 1
        BY <1>1, <1>3, <3>4
      <4>2. /\ DOMAIN scopes'[Base + 1] = DOMAIN scopes[Base + 1] \cup {name}
            /\ scopes'[Base + 1][name] = m + 1
            /\ \A x \in DOMAIN scopes[Base + 1] : x # name => scopes'[Base + 1][x] = scopes[Base + 1][x]
        BY <2>1, <4>1
      <4>3. /\ DOMAIN lexical'[2] = DOMAIN lexical[2] \cup {name} /\ lexical'[2][name] = m + 1
            /\ \A x \in DOMAIN lexical[2] : x # name => lexical'[2][x] = lexical[2][x]
        BY <2>2, <3>4
      <4>4. ParamsUnderBody(lexical'[2], scopes'[Base], scopes'[Base + 1])
        BY <3>1, <3>2, <4>2, <4>3 DEF ParamsUnderBody
      <4> QED BY <1>3, <3>3, <4>4 DEF Outermost, Place
    <3>5. CASE depth # 1
      <4>1. Base + 1 \in 1 .. N - 1 /\ 2 \in 1 .. depth
        BY <1>1, <1>3, <1>8, <3>5
      <4>2. scopes'[Base + 1] = scopes[Base + 1] /\ lexical'[2] = lexical[2]
        BY <2>1, <2>2, <4>1
      <4> QED BY <1>3, <3>1, <3>2, <3>3, <4>2 DEF Outermost, Place
    <3> QED BY <3>4, <3>5
  <2>10. Clean => Clean'
    <3>1. scopes'[1] = scopes[1]
      BY <1>1, <1>3, <2>5
    <3> QED BY <1>3, <2>6, <3>1 DEF Clean
  <2> QED BY <1>5, <1>6, <2>3, <2>4, <2>7, <2>8, <2>9, <2>10 DEF TablesInv
<1> QED BY <1>1, <1>7, <1>8

(***************************************************************************)
(* Blocks and functions.                                                   *)
(***************************************************************************)
LEMMA OuterStays ==
  ASSUME OuterRight, Base \in Nat, Base' = Base, symbols' = symbols, lexical'[1] = lexical[1],
         \A k \in 1 .. Base : scopes'[k] = scopes[k]
  PROVE  OuterRight'
<1> SUFFICES ASSUME NEW k \in 1 .. Base, NEW x \in DOMAIN scopes'[k],
                    \A j \in k + 1 .. Base : x \notin DOMAIN scopes'[j]
             PROVE  \/ symbols'[scopes'[k][x]].place = "param"
                    \/ x \in DOMAIN lexical'[1] /\ scopes'[k][x] = lexical'[1][x]
  BY DEF OuterRight, Uppermost, Place
<1>1. x \in DOMAIN scopes[k] /\ scopes'[k][x] = scopes[k][x]
  OBVIOUS
<1>2. \A j \in k + 1 .. Base : x \notin DOMAIN scopes[j]
  OBVIOUS
<1>3. \/ symbols[scopes[k][x]].place = "param"
      \/ x \in DOMAIN lexical[1] /\ scopes[k][x] = lexical[1][x]
  BY <1>1, <1>2 DEF OuterRight, Uppermost, Place
<1> QED BY <1>1, <1>3

LEMMA BlockOpenKeeps ==
  ASSUME TablesInv, BlockStmtOpen
  PROVE  TablesInv' /\ (Clean => Clean')
<1> DEFINE N == Len(scopes)
<1>1. /\ depth \in Nat /\ N \in Nat /\ depth > 0 /\ N - depth >= 2 /\ Base = N - depth
      /\ HasLength(scopes, N) /\ HasLength(lexical, depth + 1) /\ depth' = depth + 1
      /\ symbols' = symbols /\ HasLength(symbols, Len(symbols))
  BY LengthIs DEF TablesInv, Shape, Base, BlockStmtOpen, InFunction
<1>2. Extended(scopes', scopes, N, <<>>) /\ Extended(lexical', lexical, depth + 1, <<>>)
  BY <1>1, AppendExtends DEF BlockStmtOpen, PushTable
<1>3. /\ HasLength(scopes', N + 1) /\ scopes'[N + 1] = <<>> /\ \A k \in 1 .. N : scopes'[k] = scopes[k]
      /\ HasLength(lexical', depth + 2) /\ lexical'[depth + 2] = <<>>
      /\ \A k \in 1 .. depth + 1 : lexical'[k] = lexical[k]
  BY <1>1, <1>2 DEF Extended
<1>4. Len(scopes') = N + 1 /\ Base' = Base
  <2>1. Len(scopes') = N + 1
    BY <1>3, LengthIs
  <2> QED BY <1>1, <2>1 DEF Base
<1>5. Shape'
  BY <1>1, <1>3, <1>4 DEF Shape
<1>6. EntriesExist'
  <2>1. DOMAIN <<>> = {}
    OBVIOUS
  <2>2. ASSUME NEW k \in 1 .. N + 1, NEW x \in DOMAIN scopes'[k]
        PROVE  scopes'[k][x] \in 1 .. Len(symbols)
    <3>1. k # N + 1
      BY <1>3, <2>1
    <3>2. k \in 1 .. N
      BY <1>1, <3>1
    <3>3. scopes'[k] = scopes[k]
      BY <1>3, <3>2
    <3> QED BY <3>2, <3>3 DEF TablesInv, EntriesExist
  <2>3. lexical'[1] = lexical[1]
    BY <1>1, <1>3
  <2>4. \A k \in 2 .. depth + 2 : \A x \in DOMAIN lexical'[k] :
           lexical'[k][x] \in 1 .. Len(symbols) /\ Place(lexical'[k][x]) \in {"local", "param"}
    BY <1>1, <1>3, <2>1 DEF TablesInv, EntriesExist
  <2> QED BY <1>1, <1>4, <2>2, <2>3, <2>4 DEF TablesInv, EntriesExist, Place
<1>7. BodiesSame'
  <2> SUFFICES ASSUME NEW k \in 2 .. depth + 1 PROVE lexical'[k + 1] = scopes'[N - depth + k]
    BY <1>1, <1>4 DEF BodiesSame
  <2>1. CASE k = depth + 1
    BY <1>1, <1>3, <2>1
  <2>2. CASE k # depth + 1
    <3>1. k \in 2 .. depth /\ k + 1 \in 1 .. depth + 1 /\ N - depth + k \in 1 .. N
      BY <1>1, <2>2
    <3> QED BY <1>1, <1>3, <3>1 DEF TablesInv, BodiesSame
  <2> QED BY <2>1, <2>2
<1>8. (\A k \in 1 .. Base + 1 : scopes'[k] = scopes[k]) /\ lexical'[1] = lexical[1]
  <2>1. \A k \in 1 .. Base + 1 : k \in 1 .. N
    BY <1>1
  <2>2. 1 \in 1 .. depth + 1
    BY <1>1
  <2> QED BY <1>3, <2>1, <2>2
<1>9. GlobalsFound' /\ OuterRight' /\ Outermost' /\ (Clean => Clean')
  <2>1. GlobalsFound'
    <3>1. \A k \in 1 .. Base : scopes'[k] = scopes[k]
      BY <1>1, <1>8
    <3> QED BY <1>4, <1>8, <3>1 DEF TablesInv, GlobalsFound
  <2>2. OuterRight'
    <3>1. Base \in Nat /\ \A k \in 1 .. Base : scopes'[k] = scopes[k]
      BY <1>1, <1>8
    <3> QED BY <1>1, <1>4, <1>8, <3>1, OuterStays DEF TablesInv
  <2>3. Outermost'
    <3>1. /\ ParamsUnderBody(lexical[2], scopes[Base], scopes[Base + 1])
          /\ \A x \in DOMAIN scopes[Base] : Place(scopes[Base][x]) = "param"
      BY <1>1 DEF TablesInv, Outermost
    <3>2. scopes'[Base] = scopes[Base] /\ scopes'[Base + 1] = scopes[Base + 1] /\ lexical'[2] = lexical[2]
      <4>1. Base \in 1 .. Base + 1 /\ Base + 1 \in 1 .. Base + 1 /\ 2 \in 1 .. depth + 1
        BY <1>1
      <4> QED BY <1>3, <1>8, <4>1
    <3> QED BY <1>1, <1>4, <3>1, <3>2 DEF Outermost, Place
  <2>4. Clean => Clean'
    BY <1>1, <1>4, <1>8 DEF Clean
  <2> QED BY <2>1, <2>2, <2>3, <2>4
<1> QED BY <1>1, <1>5, <1>6, <1>7, <1>9 DEF TablesInv, IsLocal

\* The end of a body leaves the tables below it alone.
LEMMA CloseKeeps ==
  ASSUME TablesInv, BlockStmtClose \/ FuncDefClose
  PROVE  TablesInv' /\ (BlockStmtClose => (Clean => Clean'))
<1> DEFINE N == Len(scopes)
<1>1. /\ depth \in Nat /\ N \in Nat /\ depth >= 1 /\ N - depth >= 2 /\ Base = N - depth
      /\ HasLength(scopes, N) /\ HasLength(lexical, depth + 1) /\ depth' = depth - 1
      /\ symbols' = symbols /\ HasLength(symbols, Len(symbols))
      /\ BlockStmtClose => depth > 1
  BY LengthIs DEF TablesInv, Shape, Base, BlockStmtClose, FuncDefClose
<1>2. Shortened(scopes', scopes, N) /\ Shortened(lexical', lexical, depth + 1)
  BY <1>1, FrontShortens DEF BlockStmtClose, FuncDefClose, PopTable
<1>3. /\ HasLength(scopes', N - 1) /\ \A k \in 1 .. N - 1 : scopes'[k] = scopes[k]
      /\ HasLength(lexical', depth) /\ \A k \in 1 .. depth : lexical'[k] = lexical[k]
  BY <1>1, <1>2 DEF Shortened
<1>4. Len(scopes') = N - 1 /\ Base' = Base
  BY <1>1, <1>3, LengthIs DEF Base
<1>5. Shape'
  BY <1>1, <1>3, <1>4 DEF Shape
<1>6. (\A k \in 1 .. Base : scopes'[k] = scopes[k]) /\ lexical'[1] = lexical[1]
  BY <1>1, <1>3
<1>7. EntriesExist'
  <2>1. \A k \in 1 .. N - 1 : \A x \in DOMAIN scopes'[k] : scopes'[k][x] \in 1 .. Len(symbols)
    BY <1>1, <1>3 DEF TablesInv, EntriesExist
  <2>2. ASSUME NEW k \in 2 .. depth, NEW x \in DOMAIN lexical'[k]
        PROVE  lexical'[k][x] \in 1 .. Len(symbols) /\ Place(lexical'[k][x]) \in {"local", "param"}
    <3>1. lexical'[k] = lexical[k] /\ k \in 2 .. depth + 1
      BY <1>1, <1>3
    <3> QED BY <3>1 DEF TablesInv, EntriesExist
  <2> QED BY <1>1, <1>4, <1>6, <2>1, <2>2 DEF TablesInv, EntriesExist, Place
<1>8. BodiesSame'
  <2> SUFFICES ASSUME NEW k \in 2 .. depth - 1 PROVE lexical'[k + 1] = scopes'[N - depth + k]
    BY <1>1, <1>4 DEF BodiesSame
  <2>1. k \in 2 .. depth /\ k + 1 \in 1 .. depth /\ N - depth + k \in 1 .. N - 1
    BY <1>1
  <2> QED BY <1>1, <1>3, <2>1 DEF TablesInv, BodiesSame
<1>9. GlobalsFound'
  BY <1>1, <1>4, <1>6 DEF TablesInv, GlobalsFound
<1>10. OuterRight'
  BY <1>1, <1>4, <1>6, OuterStays DEF TablesInv
<1>11. Outermost'
  <2> SUFFICES ASSUME depth - 1 > 0
               PROVE  /\ ParamsUnderBody(lexical'[2], scopes'[Base], scopes'[Base + 1])
                      /\ \A x \in DOMAIN scopes'[Base] : Place(scopes'[Base][x]) = "param"
    BY <1>1, <1>4 DEF Outermost, Place
  <2>1. /\ ParamsUnderBody(lexical[2], scopes[Base], scopes[Base + 1])
        /\ \A x \in DOMAIN scopes[Base] : Place(scopes[Base][x]) = "param"
    BY <1>1 DEF TablesInv, Outermost
  <2>2. scopes'[Base] = scopes[Base] /\ scopes'[Base + 1] = scopes[Base + 1] /\ lexical'[2] = lexical[2]
    <3>1. Base \in 1 .. N - 1 /\ Base + 1 \in 1 .. N - 1 /\ 2 \in 1 .. depth
      BY <1>1
    <3> QED BY <1>3, <3>1
  <2> QED BY <2>1, <2>2
<1>12. BlockStmtClose => (Clean => Clean')
  <2>1. scopes'[1] = scopes[1]
    BY <1>1, <1>3
  <2> QED BY <1>1, <1>4, <1>6, <2>1 DEF Clean
<1> QED BY <1>1, <1>5, <1>7, <1>8, <1>9, <1>10, <1>11, <1>12 DEF TablesInv, IsLocal

\* The tables and the entries behind the opening brace of a function with n
\* parameters: the function is entered into the last of N tables, and two
\* tables come on top, of its parameters and of what is left of their copies.
FunctionOpened(f, names, m, N, n) ==
  /\ m \in Nat /\ N \in Nat /\ N >= 1 /\ n \in Nat
  /\ depth = 0 /\ depth' = 1 /\ Base = N /\ Base' = N + 1 /\ NextEntry = m + 1
  /\ HasLength(scopes', N + 2) /\ Len(scopes') = N + 2
  /\ DOMAIN scopes'[N + 1] = names
  /\ \A p \in names : scopes'[N + 1][p] \in m + 2 .. m + 1 + n
  /\ \A x \in DOMAIN scopes'[N + 2] :
       x = BaseName /\ n > 0 /\ scopes'[N + 2][x] = m + 1 + n + n
  /\ \A k \in 1 .. N - 1 : scopes'[k] = scopes[k]
  /\ scopes'[N] = WithName(scopes[N], f, m + 1)
  /\ DOMAIN scopes'[N] = DOMAIN scopes[N] \cup {f} /\ scopes'[N][f] = m + 1
  /\ \A x \in DOMAIN scopes[N] : x # f => scopes'[N][x] = scopes[N][x]
  /\ HasLength(lexical', 2) /\ lexical'[2] = scopes'[N + 1]
  /\ lexical'[1] = WithName(lexical[1], f, m + 1)
  /\ DOMAIN lexical'[1] = DOMAIN lexical[1] \cup {f} /\ lexical'[1][f] = m + 1
  /\ \A x \in DOMAIN lexical[1] : x # f => lexical'[1][x] = lexical[1][x]

EntriesOpened(m, N, n) ==
  /\ HasLength(symbols', m + 1 + n + n) /\ Len(symbols') = m + 1 + n + n
  /\ \A i \in 1 .. m : symbols'[i] = symbols[i]
  /\ symbols'[m + 1].place = "global" /\ symbols'[m + 1].level = N - 1
  /\ \A i \in m + 2 .. m + 1 + n : symbols'[i].place = "param" /\ symbols'[i].level = N
  /\ \A i \in m + 2 + n .. m + 1 + n + n : symbols'[i].place = "local" /\ symbols'[i].level = N + 1

LEMMA FuncDefOpenIs ==
  ASSUME TablesInv, NEW f, NEW params \in ParamLists, FuncDefOpen(f, params),
         NEW m, m = Len(symbols), NEW N, N = Len(scopes), NEW n, n = Len(params)
  PROVE  FunctionOpened(f, ToSet(params), m, N, n) /\ EntriesOpened(m, N, n)
<1> DEFINE outer == Install(scopes, f, NextEntry)
           top == Install(lexical, f, NextEntry)
           EntryOf(p) == NextEntry + CHOOSE i \in 1 .. n : params[i] = p
           paramTable == [p \in ToSet(params) |-> EntryOf(p)]
           bodyTable == IF n = 0 THEN <<>> ELSE [x \in {BaseName} |-> NextEntry + n + n]
           own == Entry(f, scopes, "global")
           given == [i \in 1 .. n |-> Entry(params[i], Append(outer, paramTable), "param")]
           copies == [i \in 1 .. n |-> Entry(BaseName, scopes', "local")]
<1>1. /\ depth = 0 /\ depth' = 1 /\ Base = N /\ N \in Nat /\ N >= 1 /\ m \in Nat /\ NextEntry = m + 1
      /\ HasLength(scopes, N) /\ HasLength(lexical, 1) /\ HasLength(symbols, m)
  <2> HIDE DEF outer, top, EntryOf, paramTable, bodyTable, own, given, copies
  <2>1. depth = 0 /\ depth' = 1
    <3>1. ~(depth > 0) /\ depth' = 1
      BY DEF FuncDefOpen, InFunction
    <3>2. depth \in Nat
      BY DEF TablesInv, Shape
    <3> QED BY <3>1, <3>2
  <2>2. HasLength(scopes, N) /\ HasLength(lexical, 1) /\ HasLength(symbols, m)
    BY <2>1, LengthIs DEF TablesInv, Shape, Base, InFunction
  <2>3. Base = N /\ N \in Nat /\ N >= 1 /\ m \in Nat /\ NextEntry = m + 1
    BY <2>1, LengthIs DEF TablesInv, Shape, Base, InFunction, NextEntry
  <2> QED BY <2>1, <2>2, <2>3
<1>2. /\ scopes' = Append(Append(outer, paramTable), bodyTable)
      /\ lexical' = Append(top, paramTable)
      /\ symbols' = (Append(symbols, own) \o given) \o copies
  BY DEF FuncDefOpen, FuncTables
<1>3. n \in Nat /\ ToSet(params) = {params[i] : i \in 1 .. n}
  <2>1. PICK l \in 0 .. MaxParams : params \in [1 .. l -> Vars]
    BY BoundAssumption DEF ParamLists
  <2>2. l \in Nat /\ n = l
    BY <2>1, BoundAssumption
  <2> QED BY <2>1, <2>2 DEF ToSet
<1>4. \A p \in ToSet(params) : EntryOf(p) \in m + 2 .. m + 1 + n
  <2> SUFFICES ASSUME NEW p \in ToSet(params) PROVE EntryOf(p) \in m + 2 .. m + 1 + n
    OBVIOUS
  <2> DEFINE j == CHOOSE i \in 1 .. n : params[i] = p
  <2>1. \E i \in 1 .. n : params[i] = p
    BY <1>3
  <2>2. j \in 1 .. n
    BY <2>1
  <2> HIDE DEF j
  <2>3. m + 1 + j \in m + 2 .. m + 1 + n
    BY <1>1, <1>3, <2>2
  <2> QED BY <1>1, <2>3 DEF j
<1>5. /\ DOMAIN paramTable = ToSet(params)
      /\ \A p \in ToSet(params) : paramTable[p] \in m + 2 .. m + 1 + n
      /\ \A x \in DOMAIN bodyTable : x = BaseName /\ n > 0 /\ bodyTable[x] = m + 1 + n + n
  <2> HIDE DEF EntryOf
  <2>1. DOMAIN paramTable = ToSet(params) /\ \A p \in ToSet(params) : paramTable[p] = EntryOf(p)
    OBVIOUS
  <2>2. ASSUME NEW x \in DOMAIN bodyTable
        PROVE  x = BaseName /\ n > 0 /\ bodyTable[x] = m + 1 + n + n
    <3>1. n # 0
      <4>1. DOMAIN <<>> = {}
        OBVIOUS
      <4> QED BY <2>2, <4>1
    <3>2. bodyTable = [y \in {BaseName} |-> NextEntry + n + n]
      BY <3>1
    <3> QED BY <1>1, <1>3, <2>2, <3>1, <3>2
  <2> HIDE DEF paramTable, bodyTable
  <2> QED BY <1>4, <2>1, <2>2
<1>6. /\ HasLength(given, n) /\ HasLength(copies, n)
      /\ own.place = "global" /\ own.level = N - 1
      /\ \A i \in 1 .. n :
           given[i].place = "param" /\ given[i].level = Len(Append(outer, paramTable)) - 1
      /\ \A i \in 1 .. n : copies[i].place = "local" /\ copies[i].level = Len(scopes') - 1
  BY <1>3 DEF HasLength, Entry, Level
<1>7. Entered(outer, scopes, N, f, m + 1) /\ Entered(top, lexical, 1, f, m + 1)
  BY <1>1, InstallEnters
<1>8. Joined(symbols', symbols, m, own, given, copies, n)
  <2> HIDE DEF own, given, copies
  <2> QED BY <1>1, <1>2, <1>6, ConcatJoins
<1> HIDE DEF EntryOf, paramTable, bodyTable, outer, top
<1>9. /\ Extended(Append(outer, paramTable), outer, N, paramTable)
      /\ Extended(scopes', Append(outer, paramTable), N + 1, bodyTable)
      /\ Extended(lexical', top, 1, paramTable)
  <2>1. HasLength(outer, N) /\ HasLength(top, 1)
    BY <1>7 DEF Entered
  <2>2. Extended(Append(outer, paramTable), outer, N, paramTable)
    BY <2>1, AppendExtends
  <2>3. HasLength(Append(outer, paramTable), N + 1)
    BY <2>2 DEF Extended
  <2> QED BY <1>2, <2>1, <2>2, <2>3, AppendExtends
<1>10. /\ HasLength(scopes', N + 2) /\ Len(scopes') = N + 2 /\ Base' = N + 1
       /\ scopes'[N + 2] = bodyTable /\ scopes'[N + 1] = paramTable
       /\ \A k \in 1 .. N - 1 : scopes'[k] = scopes[k]
       /\ scopes'[N] = WithName(scopes[N], f, m + 1)
       /\ DOMAIN scopes'[N] = DOMAIN scopes[N] \cup {f} /\ scopes'[N][f] = m + 1
       /\ \A x \in DOMAIN scopes[N] : x # f => scopes'[N][x] = scopes[N][x]
  <2> DEFINE middle == Append(outer, paramTable)
  <2>1. middle[N + 1] = paramTable /\ \A k \in 1 .. N : middle[k] = outer[k]
    BY <1>9 DEF Extended
  <2>2. /\ HasLength(scopes', N + 1 + 1) /\ scopes'[N + 1 + 1] = bodyTable
        /\ \A k \in 1 .. N + 1 : scopes'[k] = middle[k]
    BY <1>9 DEF Extended
  <2> HIDE DEF middle
  <2>3. HasLength(scopes', N + 2) /\ scopes'[N + 2] = bodyTable /\ scopes'[N + 1] = paramTable
    BY <1>1, <2>1, <2>2
  <2>4. \A k \in 1 .. N : scopes'[k] = outer[k]
    BY <1>1, <2>1, <2>2
  <2>5. Len(scopes') = N + 2 /\ Base' = N + 1
    BY <1>1, <2>3, LengthIs DEF Base
  <2> QED BY <1>1, <1>7, <2>3, <2>4, <2>5 DEF Entered
<1>11. /\ HasLength(lexical', 2) /\ lexical'[2] = paramTable
       /\ lexical'[1] = WithName(lexical[1], f, m + 1)
       /\ DOMAIN lexical'[1] = DOMAIN lexical[1] \cup {f} /\ lexical'[1][f] = m + 1
       /\ \A x \in DOMAIN lexical[1] : x # f => lexical'[1][x] = lexical[1][x]
  <2>1. HasLength(lexical', 1 + 1) /\ lexical'[1 + 1] = paramTable /\ \A k \in 1 .. 1 : lexical'[k] = top[k]
    BY <1>9 DEF Extended
  <2>2. lexical'[1] = top[1] /\ HasLength(lexical', 2) /\ lexical'[2] = paramTable
    BY <2>1
  <2> QED BY <1>7, <2>2 DEF Entered
<1>12. /\ HasLength(symbols', m + 1 + n + n) /\ Len(symbols') = m + 1 + n + n
       /\ \A i \in 1 .. m : symbols'[i] = symbols[i]
       /\ symbols'[m + 1].place = "global" /\ symbols'[m + 1].level = N - 1
       /\ \A i \in m + 2 .. m + 1 + n : symbols'[i].place = "param" /\ symbols'[i].level = N
       /\ \A i \in m + 2 + n .. m + 1 + n + n : symbols'[i].place = "local" /\ symbols'[i].level = N + 1
  <2> HIDE DEF own, given, copies
  <2>1. /\ HasLength(symbols', m + 1 + n + n)
        /\ \A i \in 1 .. m : symbols'[i] = symbols[i]
        /\ symbols'[m + 1] = own
        /\ \A i \in 1 .. n : symbols'[m + 1 + i] = given[i] /\ symbols'[m + 1 + n + i] = copies[i]
    BY <1>8 DEF Joined
  <2>2. Len(symbols') = m + 1 + n + n
    BY <2>1, LengthIs
  <2>3. ASSUME NEW i \in m + 2 .. m + 1 + n
        PROVE  symbols'[i].place = "param" /\ symbols'[i].level = N
    <3>1. i - (m + 1) \in 1 .. n /\ i = m + 1 + (i - (m + 1))
      BY <1>1, <1>3
    <3>2. symbols'[i] = given[i - (m + 1)]
      BY <2>1, <3>1
    <3>3. Len(Append(outer, paramTable)) = N + 1
      BY <1>9, LengthIs DEF Extended
    <3>4. /\ given[i - (m + 1)].place = "param"
          /\ given[i - (m + 1)].level = Len(Append(outer, paramTable)) - 1
      BY <1>6, <3>1
    <3> QED BY <1>1, <3>2, <3>3, <3>4
  <2>4. ASSUME NEW i \in m + 2 + n .. m + 1 + n + n
        PROVE  symbols'[i].place = "local" /\ symbols'[i].level = N + 1
    <3>1. i - (m + 1 + n) \in 1 .. n /\ i = m + 1 + n + (i - (m + 1 + n))
      BY <1>1, <1>3
    <3>2. Len(scopes') - 1 = N + 1
      BY <1>1, <1>10
    <3>3. symbols'[i] = copies[i - (m + 1 + n)]
      BY <2>1, <3>1
    <3>4. /\ copies[i - (m + 1 + n)].place = "local"
          /\ copies[i - (m + 1 + n)].level = Len(scopes') - 1
      BY <1>6, <3>1
    <3> QED BY <3>2, <3>3, <3>4
  <2> QED BY <1>6, <2>1, <2>2, <2>3, <2>4
<1> HIDE DEF own, given, copies
<1> QED BY <1>1, <1>3, <1>5, <1>10, <1>11, <1>12 DEF FunctionOpened, EntriesOpened

LEMMA FuncDefOpenKeeps ==
  ASSUME TablesInv, NEW f, NEW params \in ParamLists, FuncDefOpen(f, params)
  PROVE  TablesInv' /\ (Clean => Clean')
<1> DEFINE m == Len(symbols)
           N == Len(scopes)
           n == Len(params)
<1>0. FunctionOpened(f, ToSet(params), m, N, n) /\ EntriesOpened(m, N, n)
  BY FuncDefOpenIs
<1> DEFINE paramTable == scopes'[N + 1]
           bodyTable == scopes'[N + 2]
<1>1. /\ depth = 0 /\ depth' = 1 /\ Base = N /\ N \in Nat /\ N >= 1 /\ m \in Nat
  BY <1>0 DEF FunctionOpened
<1>3. n \in Nat
  BY <1>0 DEF FunctionOpened
<1>5. /\ DOMAIN paramTable = ToSet(params)
      /\ \A p \in ToSet(params) : paramTable[p] \in m + 2 .. m + 1 + n
      /\ \A x \in DOMAIN bodyTable : x = BaseName /\ n > 0 /\ bodyTable[x] = m + 1 + n + n
  BY <1>0 DEF FunctionOpened
<1>10. /\ HasLength(scopes', N + 2) /\ Len(scopes') = N + 2 /\ Base' = N + 1
       /\ scopes'[N + 2] = bodyTable /\ scopes'[N + 1] = paramTable
       /\ \A k \in 1 .. N - 1 : scopes'[k] = scopes[k]
       /\ scopes'[N] = WithName(scopes[N], f, m + 1)
       /\ DOMAIN scopes'[N] = DOMAIN scopes[N] \cup {f} /\ scopes'[N][f] = m + 1
       /\ \A x \in DOMAIN scopes[N] : x # f => scopes'[N][x] = scopes[N][x]
  BY <1>0 DEF FunctionOpened
<1>11. /\ HasLength(lexical', 2) /\ lexical'[2] = paramTable
       /\ lexical'[1] = WithName(lexical[1], f, m + 1)
       /\ DOMAIN lexical'[1] = DOMAIN lexical[1] \cup {f} /\ lexical'[1][f] = m + 1
       /\ \A x \in DOMAIN lexical[1] : x # f => lexical'[1][x] = lexical[1][x]
  BY <1>0 DEF FunctionOpened
<1>12. /\ HasLength(symbols', m + 1 + n + n) /\ Len(symbols') = m + 1 + n + n
       /\ \A i \in 1 .. m : symbols'[i] = symbols[i]
       /\ symbols'[m + 1].place = "global"
       /\ \A i \in m + 2 .. m + 1 + n : symbols'[i].place = "param"
       /\ \A i \in m + 2 + n .. m + 1 + n + n : symbols'[i].place = "local" /\ symbols'[i].level = N + 1
  BY <1>0 DEF EntriesOpened
<1> HIDE DEF paramTable, bodyTable
<1>13. Shape'
  BY <1>1, <1>10, <1>11, <1>12 DEF Shape
<1>14. \A i \in 1 .. Len(symbols') : symbols'[i].place = "local" => IsLocal(symbols'[i])
  <2> SUFFICES ASSUME NEW i \in 1 .. m + 1 + n + n, symbols'[i].place = "local"
               PROVE  symbols'[i].level >= 2
    BY <1>12 DEF IsLocal
  <2>1. i \in 1 .. m \/ i \in m + 2 + n .. m + 1 + n + n
    BY <1>1, <1>3, <1>12
  <2>2. CASE i \in 1 .. m
    BY <1>12, <2>2 DEF TablesInv, IsLocal
  <2>3. CASE i \in m + 2 + n .. m + 1 + n + n
    BY <1>1, <1>12, <2>3
  <2> QED BY <2>1, <2>2, <2>3
<1>15. EntriesExist'
  <2>1. ASSUME NEW k \in 1 .. N + 2, NEW x \in DOMAIN scopes'[k]
        PROVE  scopes'[k][x] \in 1 .. m + 1 + n + n
    <3>1. CASE k = N + 1
      <4>1. scopes'[k] = paramTable /\ x \in ToSet(params)
        BY <1>5, <1>10, <3>1
      <4> QED BY <1>1, <1>3, <1>5, <4>1
    <3>4. CASE k = N + 2
      <4>1. scopes'[k] = bodyTable
        BY <1>10, <3>4
      <4>2. n > 0 /\ scopes'[k][x] = m + 1 + n + n
        BY <1>5, <4>1
      <4> QED BY <1>1, <1>3, <4>2
    <3>2. CASE k \in 1 .. N
      <4>1. CASE k = N /\ x = f
        BY <1>1, <1>3, <1>10, <4>1
      <4>2. CASE ~(k = N /\ x = f)
        <5>1. x \in DOMAIN scopes[k] /\ scopes'[k][x] = scopes[k][x]
          BY <1>1, <1>10, <3>2, <4>2
        <5>2. scopes[k][x] \in 1 .. m
          BY <3>2, <5>1 DEF TablesInv, EntriesExist
        <5> QED BY <1>1, <1>3, <5>1, <5>2
      <4> QED BY <4>1, <4>2
    <3>3. k = N + 1 \/ k = N + 2 \/ k \in 1 .. N
      BY <1>1
    <3> QED BY <3>1, <3>2, <3>3, <3>4
  <2>2. ASSUME NEW x \in DOMAIN lexical'[1]
        PROVE  lexical'[1][x] \in 1 .. m + 1 + n + n /\ symbols'[lexical'[1][x]].place = "global"
    <3>1. CASE x = f
      BY <1>1, <1>3, <1>11, <1>12, <3>1
    <3>2. CASE x # f
      <4>1. x \in DOMAIN lexical[1] /\ lexical'[1][x] = lexical[1][x]
        BY <1>11, <3>2
      <4>2. lexical[1][x] \in 1 .. m /\ symbols[lexical[1][x]].place = "global"
        BY <4>1 DEF TablesInv, EntriesExist, Place
      <4> QED BY <1>1, <1>3, <1>12, <4>1, <4>2
    <3> QED BY <3>1, <3>2
  <2>3. ASSUME NEW k \in 2 .. 2, NEW x \in DOMAIN lexical'[k]
        PROVE  lexical'[k][x] \in 1 .. m + 1 + n + n /\ symbols'[lexical'[k][x]].place = "param"
    <3>1. k = 2 /\ lexical'[k][x] \in m + 2 .. m + 1 + n
      BY <1>5, <1>11
    <3> QED BY <1>1, <1>3, <1>12, <3>1
  <2> QED BY <1>1, <1>10, <1>12, <2>1, <2>2, <2>3 DEF EntriesExist, Place
<1>16. BodiesSame' /\ Outermost'
  <2>1. BodiesSame'
    <3>1. 2 .. 1 = {}
      OBVIOUS
    <3> QED BY <1>1, <3>1 DEF BodiesSame
  <2>2. ParamsUnderBody(paramTable, paramTable, bodyTable)
    BY <1>5 DEF ParamsUnderBody
  <2>3. N + 1 + 1 = N + 2
    BY <1>1
  <2>4. \A x \in DOMAIN paramTable : symbols'[paramTable[x]].place = "param"
    BY <1>5, <1>12
  <2> QED BY <1>10, <1>11, <2>1, <2>2, <2>3, <2>4 DEF Outermost, Place
<1>17. GlobalsFound'
  <2> SUFFICES ASSUME NEW x \in DOMAIN lexical'[1]
               PROVE  \E k \in 1 .. N + 1 : x \in DOMAIN scopes'[k]
    BY <1>10 DEF GlobalsFound
  <2>1. CASE x = f
    BY <1>1, <1>10, <2>1
  <2>2. CASE x # f
    <3>1. x \in DOMAIN lexical[1]
      BY <1>11, <2>2
    <3>2. PICK k \in 1 .. N : x \in DOMAIN scopes[k]
      BY <1>1, <3>1 DEF TablesInv, GlobalsFound
    <3>3. x \in DOMAIN scopes'[k] /\ k \in 1 .. N + 1
      BY <1>1, <1>10, <3>2
    <3> QED BY <3>3
  <2> QED BY <2>1, <2>2
<1>18. OuterRight'
  <2> SUFFICES ASSUME NEW k \in 1 .. N + 1, NEW x \in DOMAIN scopes'[k],
                      \A j \in k + 1 .. N + 1 : x \notin DOMAIN scopes'[j]
               PROVE  \/ symbols'[scopes'[k][x]].place = "param"
                      \/ x \in DOMAIN lexical'[1] /\ scopes'[k][x] = lexical'[1][x]
    BY <1>10 DEF OuterRight, Uppermost, Place
  <2>1. CASE k = N + 1
    BY <1>5, <1>10, <1>12, <2>1
  <2>2. CASE k # N + 1 /\ x = f
    <3>1. x \in DOMAIN scopes'[N] /\ k \in 1 .. N /\ N \in Nat
      BY <1>1, <1>10, <2>2
    <3>2. ~(N \in k + 1 .. N + 1)
      BY <3>1
    <3>3. k = N
      BY <3>1, <3>2
    <3> QED BY <1>10, <1>11, <2>2, <3>3
  <2>3. CASE k # N + 1 /\ x # f
    <3>1. k \in 1 .. N
      BY <1>1, <2>3
    <3>2. x \in DOMAIN scopes[k] /\ scopes'[k][x] = scopes[k][x]
      BY <1>1, <1>10, <2>3, <3>1
    <3>3. ASSUME NEW j \in k + 1 .. N PROVE x \notin DOMAIN scopes[j]
      <4>1. x \notin DOMAIN scopes'[j] /\ j \in 1 .. N
        BY <1>1, <3>1
      <4>2. CASE j = N
        BY <1>10, <4>1, <4>2
      <4>3. CASE j # N
        <5>1. j \in 1 .. N - 1
          BY <1>1, <4>1, <4>3
        <5> QED BY <1>10, <4>1, <5>1
      <4> QED BY <4>2, <4>3
    <3>4. \/ symbols[scopes[k][x]].place = "param"
          \/ x \in DOMAIN lexical[1] /\ scopes[k][x] = lexical[1][x]
      BY <1>1, <3>1, <3>2, <3>3 DEF TablesInv, OuterRight, Uppermost, Place
    <3>5. scopes[k][x] \in 1 .. m
      BY <3>1, <3>2 DEF TablesInv, EntriesExist
    <3> QED BY <1>11, <1>12, <2>3, <3>2, <3>4, <3>5
  <2> QED BY <2>1, <2>2, <2>3
<1>19. Clean => Clean'
  <2>1. Clean => N = 1 /\ scopes[1] = lexical[1]
    BY <1>1 DEF Clean
  <2>2. Clean => scopes'[1] = lexical'[1]
    BY <1>10, <1>11, <2>1
  <2> QED BY <1>1, <1>10, <2>1, <2>2 DEF Clean
<1> QED BY <1>13, <1>14, <1>15, <1>16, <1>17, <1>18, <1>19 DEF TablesInv


-----------------------------------------------------------------------------
(***************************************************************************)
(* What the tables answer.                                                 *)
(***************************************************************************)
Holds(t, k, x) == x \in DOMAIN t[k]

LEMMA UppermostExists ==
  ASSUME NEW n \in Nat, NEW t, NEW x, NEW k \in 1 .. n, Holds(t, k, x)
  PROVE  \E l \in 1 .. n : Holds(t, l, x) /\ \A j \in l + 1 .. n : ~Holds(t, j, x)
<1> DEFINE S == 1 .. n
           T == {l .. n : l \in {i \in S : Holds(t, i, x)}}
<1>1. IsWellFoundedOn(StrictSubsetOrdering(S), SUBSET S)
  <2>1. IsFiniteSet(S)
    BY FS_Interval
  <2> HIDE DEF S
  <2> QED BY <2>1, FS_FiniteSubsetsOfFinite, FS_StrictSubsetOrderingWellFounded
<1>2. T \subseteq SUBSET S /\ T # {}
  OBVIOUS
<1>3. PICK above \in T : \A other \in T : ~(<<other, above>> \in StrictSubsetOrdering(S))
  <2> HIDE DEF S, T
  <2> QED BY <1>1, <1>2, WFMin
<1>4. PICK l \in 1 .. n : Holds(t, l, x) /\ above = l .. n
  OBVIOUS
<1>5. ASSUME NEW j \in l + 1 .. n, Holds(t, j, x) PROVE FALSE
  <2>1. j .. n \in T /\ j .. n \in SUBSET S /\ above \in SUBSET S
    BY <1>2, <1>5
  <2>2. j .. n \subseteq above /\ j .. n # above
    <3>1. l \in above /\ l \notin j .. n
      BY <1>4, <1>5
    <3>2. j .. n \subseteq above
      BY <1>4
    <3> QED BY <3>1, <3>2
  <2>3. <<j .. n, above>> \in StrictSubsetOrdering(S)
    <3> HIDE DEF S, T
    <3> QED BY <2>1, <2>2 DEF StrictSubsetOrdering
  <2> QED BY <1>3, <2>1, <2>3
<1> QED BY <1>4, <1>5

LEMMA LookupFinds ==
  ASSUME NEW n, NEW t, HasLength(t, n), NEW x, NEW k \in 1 .. n, Holds(t, k, x),
         \A j \in k + 1 .. n : ~Holds(t, j, x)
  PROVE  Lookup(t, x) = t[k][x]
<1> DEFINE holding == {i \in DOMAIN t : x \in DOMAIN t[i]}
<1>1. n \in Nat /\ DOMAIN t = 1 .. n
  BY LengthIs
<1>2. k \in holding /\ \A y \in holding : y \in 1 .. n /\ k >= y
  BY <1>1 DEF Holds
<1>3. Max(holding) = k
  <2> HIDE DEF holding
  <2>1. \A z \in holding : (\A y \in holding : z >= y) => z = k
    BY <1>1, <1>2
  <2> QED BY <1>2, <2>1 DEF Max
<1> QED BY <1>2, <1>3 DEF Lookup

LEMMA LookupMisses ==
  ASSUME NEW n, NEW t, HasLength(t, n), NEW x, \A k \in 1 .. n : ~Holds(t, k, x)
  PROVE  Lookup(t, x) = None
BY LengthIs DEF Lookup, Holds

\* The code's answer and the right one: they differ after a leak only.
AnswerOk(code, lex) ==
  /\ code \in 0 .. Len(symbols)
  /\ lex # None => lex \in 1 .. Len(symbols)
  /\ code # lex => /\ ~Clean
                   /\ code # None /\ Place(code) = "param"
                   /\ lex # None => Place(lex) = "global"

LEMMA LookupRight ==
  ASSUME TablesInv, NEW x, x # BaseName
  PROVE  AnswerOk(Lookup(scopes, x), Lookup(lexical, x))
<1> DEFINE N == Len(scopes)
<1>1. /\ depth \in Nat /\ N \in Nat /\ Len(symbols) \in Nat /\ Base \in Nat /\ N - depth = Base
      /\ Base >= 1 /\ (depth > 0 => Base >= 2) /\ N = Base + depth
      /\ HasLength(scopes, N) /\ HasLength(lexical, depth + 1)
  BY LengthIs DEF TablesInv, Shape, Base
<1>2. /\ \A k \in 2 .. depth : lexical[k + 1] = scopes[Base + k]
      /\ depth > 0 => ParamsUnderBody(lexical[2], scopes[Base], scopes[Base + 1])
  BY DEF TablesInv, BodiesSame, Outermost
<1>3. /\ \A k \in 1 .. N : Holds(scopes, k, x) => scopes[k][x] \in 1 .. Len(symbols)
      /\ Holds(lexical, 1, x) =>
           lexical[1][x] \in 1 .. Len(symbols) /\ Place(lexical[1][x]) = "global"
  BY DEF TablesInv, EntriesExist, Holds
<1>4. CASE \E k \in 2 .. depth + 1 : Holds(lexical, k, x)
  <2>1. PICK k \in 2 .. depth + 1 : Holds(lexical, k, x)
    BY <1>4
  <2>2. PICK l \in 1 .. depth + 1 : Holds(lexical, l, x) /\ \A j \in l + 1 .. depth + 1 : ~Holds(lexical, j, x)
    <3>1. k \in 1 .. depth + 1 /\ depth + 1 \in Nat
      BY <1>1
    <3> QED BY <2>1, <3>1, UppermostExists
  <2>3. l >= 2
    BY <1>1, <2>1, <2>2
  <2>4. Lookup(lexical, x) = lexical[l][x]
    BY <1>1, <2>2, LookupFinds
  <2>5. ASSUME NEW j \in Base + 2 .. N, j - Base + 1 > l PROVE ~Holds(scopes, j, x)
    <3>1. j - Base \in 2 .. depth /\ j - Base + 1 \in l + 1 .. depth + 1 /\ Base + (j - Base) = j
      BY <1>1, <2>2, <2>5
    <3>2. lexical[j - Base + 1] = scopes[j]
      BY <1>2, <3>1
    <3> QED BY <2>2, <3>1, <3>2 DEF Holds
  <2>6. ASSUME NEW k1 \in 1 .. N, Holds(scopes, k1, x), \A j \in k1 + 1 .. N : ~Holds(scopes, j, x),
               scopes[k1][x] = lexical[l][x]
        PROVE  AnswerOk(Lookup(scopes, x), Lookup(lexical, x))
    <3>1. Lookup(scopes, x) = scopes[k1][x]
      BY <1>1, <2>6, LookupFinds
    <3>2. scopes[k1][x] \in 1 .. Len(symbols)
      BY <1>3, <2>6
    <3> QED BY <1>1, <2>4, <2>6, <3>1, <3>2 DEF AnswerOk
  <2>7. CASE l > 2
    <3> DEFINE u == l - 1
    <3>1. u \in 2 .. depth /\ u + 1 = l /\ Base + u \in 1 .. N /\ Base + u + 1 >= Base + 2
      BY <1>1, <2>2, <2>7
    <3>2. lexical[l] = scopes[Base + u]
      BY <1>2, <3>1
    <3>3. \A j \in Base + u + 1 .. N : ~Holds(scopes, j, x)
      BY <1>1, <2>5, <3>1
    <3> QED BY <2>2, <2>6, <3>1, <3>2, <3>3 DEF Holds
  <2>8. CASE l = 2
    <3>1. /\ depth > 0 /\ Base \in 1 .. N /\ Base + 1 \in 1 .. N
          /\ \A j \in Base + 2 .. N : ~Holds(scopes, j, x)
      BY <1>1, <2>2, <2>5, <2>8
    <3>2. /\ Holds(scopes, Base, x) \/ Holds(scopes, Base + 1, x)
          /\ Holds(scopes, Base + 1, x) => lexical[2][x] = scopes[Base + 1][x]
          /\ Holds(scopes, Base, x) /\ ~Holds(scopes, Base + 1, x) => lexical[2][x] = scopes[Base][x]
      BY <1>2, <2>2, <2>8, <3>1 DEF ParamsUnderBody, Holds
    <3>3. CASE Holds(scopes, Base + 1, x)
      <4>1. \A j \in Base + 1 + 1 .. N : ~Holds(scopes, j, x)
        BY <1>1, <3>1
      <4> QED BY <2>6, <2>8, <3>1, <3>2, <3>3, <4>1
    <3>4. CASE ~Holds(scopes, Base + 1, x)
      <4>1. \A j \in Base + 1 .. N : ~Holds(scopes, j, x)
        BY <1>1, <3>1, <3>4
      <4> QED BY <2>6, <2>8, <3>1, <3>2, <3>4, <4>1
    <3> QED BY <3>3, <3>4
  <2> QED BY <1>1, <2>2, <2>3, <2>7, <2>8
<1>5. CASE \A k \in 2 .. depth + 1 : ~Holds(lexical, k, x)
  <2>1. /\ \A j \in Base + 1 .. N : ~Holds(scopes, j, x)
        /\ depth > 0 => ~Holds(scopes, Base, x)
    <3>1. ASSUME NEW j \in Base + 2 .. N PROVE ~Holds(scopes, j, x)
      <4>1. j - Base \in 2 .. depth /\ j - Base + 1 \in 2 .. depth + 1 /\ Base + (j - Base) = j
        BY <1>1
      <4>2. lexical[j - Base + 1] = scopes[j]
        BY <1>2, <4>1
      <4> QED BY <1>5, <4>1, <4>2 DEF Holds
    <3>2. depth > 0 => ~Holds(scopes, Base, x) /\ ~Holds(scopes, Base + 1, x)
      BY <1>1, <1>2, <1>5 DEF ParamsUnderBody, Holds
    <3> QED BY <1>1, <3>1, <3>2
  <2>2. Holds(lexical, 1, x) => Lookup(lexical, x) = lexical[1][x]
    <3>1. 1 \in 1 .. depth + 1 /\ 1 + 1 = 2
      BY <1>1
    <3> QED BY <1>1, <1>5, <3>1, LookupFinds
  <2>3. ~Holds(lexical, 1, x) => Lookup(lexical, x) = None
    <3>1. ASSUME ~Holds(lexical, 1, x), NEW k \in 1 .. depth + 1 PROVE ~Holds(lexical, k, x)
      <4>1. k = 1 \/ k \in 2 .. depth + 1
        BY <1>1
      <4> QED BY <1>5, <3>1, <4>1
    <3> QED BY <1>1, <3>1, LookupMisses
  <2>4. CASE \E k \in 1 .. N : Holds(scopes, k, x)
    <3>1. PICK k \in 1 .. N : Holds(scopes, k, x)
      BY <2>4
    <3>2. PICK l \in 1 .. N : Holds(scopes, l, x) /\ \A j \in l + 1 .. N : ~Holds(scopes, j, x)
      BY <1>1, <3>1, UppermostExists
    <3>3. l \in 1 .. Base
      BY <1>1, <2>1, <3>2
    <3>4. Lookup(scopes, x) = scopes[l][x] /\ scopes[l][x] \in 1 .. Len(symbols)
      BY <1>1, <1>3, <3>2, LookupFinds
    <3>5. x \in DOMAIN scopes[l] /\ \A j \in l + 1 .. Base : x \notin DOMAIN scopes[j]
      BY <1>1, <3>2 DEF Holds
    <3>6. \/ Place(scopes[l][x]) = "param"
          \/ Holds(lexical, 1, x) /\ scopes[l][x] = lexical[1][x]
      BY <3>3, <3>5 DEF TablesInv, OuterRight, Uppermost, Holds
    <3>7. Clean => l = 1
      <4>1. CASE depth = 0
        <5>1. Base = N
          BY <1>1, <4>1
        <5>2. Clean => N = 1
          BY <4>1 DEF Clean
        <5> QED BY <1>1, <3>3, <5>1, <5>2
      <4>2. CASE depth > 0
        <5>1. Clean => Base = 2
          BY <1>1, <4>2 DEF Clean
        <5> QED BY <2>1, <3>2, <3>3, <4>2, <5>1
      <4> QED BY <1>1, <4>1, <4>2
    <3>8. Clean => Holds(lexical, 1, x) /\ lexical[1][x] = scopes[l][x]
      BY <3>2, <3>7 DEF Clean, Holds
    <3>9. Clean => Lookup(lexical, x) = Lookup(scopes, x)
      BY <2>2, <3>4, <3>8
    <3>10. CASE Holds(lexical, 1, x)
      BY <1>1, <1>3, <2>2, <3>4, <3>6, <3>9, <3>10 DEF AnswerOk, None
    <3>11. CASE ~Holds(lexical, 1, x)
      BY <1>1, <2>3, <3>4, <3>6, <3>9, <3>11 DEF AnswerOk, None
    <3> QED BY <3>10, <3>11
  <2>5. CASE \A k \in 1 .. N : ~Holds(scopes, k, x)
    <3>1. Lookup(scopes, x) = None
      BY <1>1, <2>5, LookupMisses
    <3>2. ~Holds(lexical, 1, x)
      <4> SUFFICES ASSUME Holds(lexical, 1, x) PROVE FALSE
        OBVIOUS
      <4>1. PICK k \in 1 .. Base : x \in DOMAIN scopes[k]
        BY DEF TablesInv, GlobalsFound, Holds
      <4>2. k \in 1 .. N
        BY <1>1
      <4> QED BY <2>5, <4>1, <4>2 DEF Holds
    <3> QED BY <1>1, <2>3, <3>1, <3>2 DEF AnswerOk, None
  <2> QED BY <2>4, <2>5
<1> QED BY <1>4, <1>5

\* A body does not see in its own table what the parameters' holds.
MissedParam(code, lex) ==
  depth = 1 /\ code = None /\ lex \in 1 .. Len(symbols) /\ Place(lex) = "param"

LEMMA InTopRight ==
  ASSUME TablesInv, NEW x, x # BaseName, InTop(scopes, x) # InTop(lexical, x),
         ~MissedParam(InTop(scopes, x), InTop(lexical, x))
  PROVE  /\ depth = 0 /\ ~Clean
         /\ InTop(scopes, x) # None =>
              InTop(scopes, x) \in 1 .. Len(symbols) /\ Place(InTop(scopes, x)) = "param"
         /\ InTop(lexical, x) # None =>
              InTop(lexical, x) \in 1 .. Len(symbols) /\ Place(InTop(lexical, x)) = "global"
<1> DEFINE N == Len(scopes)
<1>1. /\ depth \in Nat /\ N \in Nat /\ Base = N - depth /\ Base >= 1
      /\ Len(lexical) = depth + 1
  BY LengthIs DEF TablesInv, Shape, Base
<1>2. /\ InTop(scopes, x) = IF x \in DOMAIN scopes[N] THEN scopes[N][x] ELSE None
      /\ InTop(lexical, x) = IF x \in DOMAIN lexical[depth + 1] THEN lexical[depth + 1][x] ELSE None
  BY <1>1 DEF InTop, Last
<1>3. depth = 0
  <2>1. CASE depth > 1
    <3>1. depth \in 2 .. depth /\ Base + depth = N
      BY <1>1, <2>1
    <3>2. lexical[depth + 1] = scopes[N]
      BY <3>1 DEF TablesInv, BodiesSame
    <3> QED BY <1>2, <3>2
  <2>2. CASE depth = 1
    <3>1. N = Base + 1 /\ depth + 1 = 2 /\ Base \in 1 .. N
      BY <1>1, <2>2
    <3>2. /\ ParamsUnderBody(lexical[2], scopes[Base], scopes[N])
          /\ \A y \in DOMAIN scopes[Base] : Place(scopes[Base][y]) = "param"
      BY <2>2, <3>1 DEF TablesInv, Outermost
    <3>3. /\ x \notin DOMAIN scopes[N] /\ x \in DOMAIN scopes[Base] /\ x \in DOMAIN lexical[2]
          /\ lexical[2][x] = scopes[Base][x]
      BY <1>2, <3>1, <3>2 DEF ParamsUnderBody
    <3>4. scopes[Base][x] \in 1 .. Len(symbols)
      BY <3>1, <3>3 DEF TablesInv, EntriesExist
    <3>5. MissedParam(InTop(scopes, x), InTop(lexical, x))
      BY <1>2, <2>2, <3>1, <3>2, <3>3, <3>4 DEF MissedParam
    <3> QED BY <3>5
  <2> QED BY <1>1, <2>1, <2>2
<1>4. /\ InTop(scopes, x) = IF x \in DOMAIN scopes[N] THEN scopes[N][x] ELSE None
      /\ InTop(lexical, x) = IF x \in DOMAIN lexical[1] THEN lexical[1][x] ELSE None
      /\ Base = N /\ N \in 1 .. N
  BY <1>1, <1>2, <1>3
<1>5. ~Clean
  BY <1>3, <1>4 DEF Clean
<1>6. x \in DOMAIN scopes[N] =>
        \/ Place(scopes[N][x]) = "param"
        \/ x \in DOMAIN lexical[1] /\ scopes[N][x] = lexical[1][x]
  <2>1. \A j \in N + 1 .. N : x \notin DOMAIN scopes[j]
    BY <1>1
  <2> QED BY <1>4, <2>1 DEF TablesInv, OuterRight, Uppermost
<1>7. /\ x \in DOMAIN scopes[N] => scopes[N][x] \in 1 .. Len(symbols)
      /\ x \in DOMAIN lexical[1] =>
           lexical[1][x] \in 1 .. Len(symbols) /\ Place(lexical[1][x]) = "global"
  BY <1>4 DEF TablesInv, EntriesExist
<1>8. InTop(scopes, x) # None =>
        InTop(scopes, x) \in 1 .. Len(symbols) /\ Place(InTop(scopes, x)) = "param"
  BY <1>4, <1>6, <1>7
<1>9. InTop(lexical, x) # None =>
        InTop(lexical, x) \in 1 .. Len(symbols) /\ Place(InTop(lexical, x)) = "global"
  BY <1>4, <1>7
<1> QED BY <1>3, <1>5, <1>8, <1>9

-----------------------------------------------------------------------------
(***************************************************************************)
(* The statements parsed so far.  No function that has ended, no leak.     *)
(***************************************************************************)
NoEnd == \A i \in 1 .. Len(program) : program[i].k # "end"

ProgramInv ==
  /\ HasLength(program, Len(program))
  /\ comma /\ rejected = "no" =>
       Len(program) >= 1 /\ \E heads : program[Len(program)] = [k |-> "decl", nodes |-> heads]

ScopesInv == TablesInv /\ ProgramInv /\ (NoEnd => Clean)

LEMMA EmitExtends ==
  ASSUME ProgramInv, NEW stmt, Emit(stmt)
  PROVE  /\ HasLength(program', Len(program')) /\ Len(program') >= 1
         /\ program'[Len(program')] = stmt
         /\ NoEnd' => NoEnd /\ stmt.k # "end"
<1> DEFINE n == Len(program)
<1>1. HasLength(program, n) /\ n \in Nat
  BY LengthIs DEF ProgramInv
<1>2. Extended(program', program, n, stmt)
  BY <1>1, AppendExtends DEF Emit
<1>3. HasLength(program', n + 1) /\ program'[n + 1] = stmt /\ \A i \in 1 .. n : program'[i] = program[i]
  BY <1>2 DEF Extended
<1>4. Len(program') = n + 1
  BY <1>3, LengthIs
<1>5. NoEnd' => NoEnd /\ stmt.k # "end"
  <2>1. n + 1 \in 1 .. n + 1 /\ \A i \in 1 .. n : i \in 1 .. n + 1
    BY <1>1
  <2> QED BY <1>3, <1>4, <2>1 DEF NoEnd
<1> QED BY <1>1, <1>3, <1>4, <1>5

\* A step of the parser, as far as the statements go.
Grows == ProgramInv' /\ (NoEnd' => NoEnd)

\* A declarator: the name is installed, or the compiler stops.
Declares(name, init) ==
  /\ rejected = "no" /\ UNCHANGED depth
  /\ answers' = {DeclareQuery(name)} \cup {LookupQuery(n) : n \in {init} \ {None}}
  /\ \/ /\ rejected' = "undefined" /\ UNCHANGED <<symbols, scopes, lexical>>
        /\ init # None /\ Lookup(scopes, init) = None
     \/ /\ rejected' = "redefined" /\ UNCHANGED <<symbols, scopes, lexical>>
        /\ InTop(scopes, name) # None
     \/ rejected' = "no" /\ InstallVar(name)

\* A name that is looked up: the tables stay as they are.
LooksUp(name) ==
  /\ rejected = "no" /\ UNCHANGED <<symbols, scopes, lexical, depth>>
  /\ answers' = {LookupQuery(name)}
  /\ rejected' \in {"no", "undefined", "constant"}
  /\ rejected' = "undefined" => Lookup(scopes, name) = None

LEMMA DeclStmtStep ==
  ASSUME ProgramInv, NEW name, NEW init, DeclStmt(name, init)
  PROVE  Declares(name, init) /\ Grows
<1>1. CASE program' = program /\ rejected' # "no"
  BY <1>1 DEF DeclStmt, DeclStmtNode, Declares, Grows, ProgramInv, NoEnd, Reject, Redefines, Parsing
<1>2. CASE Emit([k |-> "decl", nodes |-> <<Node(init)>>]) /\ rejected' = "no"
  <2>1. [k |-> "decl", nodes |-> <<Node(init)>>].k = "decl"
    OBVIOUS
  <2>2. Grows
    BY <1>2, EmitExtends DEF Grows, ProgramInv
  <2> QED BY <1>2, <2>2 DEF DeclStmt, DeclStmtNode, Declares, Reject, Redefines, Parsing
<1> QED BY <1>1, <1>2 DEF DeclStmt, DeclStmtNode, Reject, Parsing

\* The last of n elements is replaced.
Replaced(t, s, n, e) ==
  t = [i \in 1 .. n |-> t[i]] /\ t[n] = e /\ \A i \in 1 .. n : i # n => t[i] = s[i]

LEMMA ExceptReplaces ==
  ASSUME NEW n \in Nat, n >= 1, NEW s, s = [i \in 1 .. n |-> s[i]], NEW e
  PROVE  Replaced([s EXCEPT ![n] = e], s, n, e)
BY DEF Replaced

\* The last statement, a declaration, gets another node.
NodeAdded(n, node) ==
  /\ n \in Nat /\ n >= 1 /\ HasLength(program', n) /\ Len(program') = n
  /\ \A i \in 1 .. n : i # n => program'[i] = program[i]
  /\ \E heads : /\ program[n] = [k |-> "decl", nodes |-> heads]
                /\ program'[n] = [k |-> "decl", nodes |-> Append(heads, node)]

LEMMA CommaExtends ==
  ASSUME ProgramInv, comma, rejected = "no", NEW node, NEW n, n = Len(program),
         program' = [program EXCEPT ![Len(program)].nodes = Append(@, node)]
  PROVE  NodeAdded(n, node)
<1>1. HasLength(program, n) /\ n \in Nat /\ n >= 1
  BY LengthIs DEF ProgramInv
<1>2. PICK heads : program[n] = [k |-> "decl", nodes |-> heads]
  BY DEF ProgramInv
<1> DEFINE new == [k |-> "decl", nodes |-> Append(heads, node)]
<1>3. program' = [program EXCEPT ![n] = new]
  <2>1. program' = [program EXCEPT ![n] = [program[n] EXCEPT !.nodes = Append(@, node)]]
    OBVIOUS
  <2>2. [program[n] EXCEPT !.nodes = Append(@, node)] = new
    BY <1>2
  <2> QED BY <2>1, <2>2
<1> HIDE DEF new
<1>4. program = [i \in 1 .. n |-> program[i]]
  BY <1>1 DEF HasLength
<1>5. /\ program' = [i \in 1 .. n |-> program'[i]]
      /\ program'[n] = new
      /\ \A i \in 1 .. n : i # n => program'[i] = program[i]
  <2>1. Replaced([program EXCEPT ![n] = new], program, n, new)
    BY <1>1, <1>4, ExceptReplaces
  <2> QED BY <1>3, <2>1 DEF Replaced
<1>6. HasLength(program', n) /\ Len(program') = n
  <2>1. HasLength(program', n)
    BY <1>1, <1>5 DEF HasLength
  <2> QED BY <2>1, LengthIs
<1> QED BY <1>1, <1>2, <1>5, <1>6 DEF new, NodeAdded

LEMMA CommaStep ==
  ASSUME ProgramInv, NEW name, NEW init, CommaDeclarator(name, init)
  PROVE  Declares(name, init) /\ Grows
<1>1. rejected = "no" /\ comma /\ comma' = comma
  BY DEF CommaDeclarator
<1>2. CASE program' = program /\ rejected' # "no"
  BY <1>2 DEF CommaDeclarator, DeclStmtNode, Declares, Grows, ProgramInv, NoEnd, Reject, Redefines
<1>3. CASE /\ program' = [program EXCEPT ![Len(program)].nodes = Append(@, Node(init))]
           /\ rejected' = "no"
  <2>1. PICK n, node : n = Len(program) /\ node = Node(init)
    OBVIOUS
  <2>2. NodeAdded(n, node)
    BY <1>1, <1>3, <2>1, CommaExtends
  <2>3. PICK heads : /\ program[n] = [k |-> "decl", nodes |-> heads]
                     /\ program'[n] = [k |-> "decl", nodes |-> Append(heads, node)]
    BY <2>2 DEF NodeAdded
  <2>4. /\ n \in Nat /\ n >= 1 /\ HasLength(program', n) /\ Len(program') = n
        /\ \A i \in 1 .. n : i # n => program'[i] = program[i]
    BY <2>2 DEF NodeAdded
  <2>5. ProgramInv'
    BY <2>3, <2>4 DEF ProgramInv
  <2>6. NoEnd' => NoEnd
    <3>1. program[n].k # "end"
      BY <2>3
    <3> QED BY <2>1, <2>4, <3>1 DEF NoEnd
  <2> QED BY <1>3, <2>5, <2>6 DEF CommaDeclarator, DeclStmtNode, Declares, Grows, Reject, Redefines
<1> QED BY <1>2, <1>3 DEF CommaDeclarator, DeclStmtNode, Reject

LEMMA LValStep ==
  ASSUME ProgramInv, NEW name, Use(name) \/ Assign(name)
  PROVE  LooksUp(name) /\ Grows
<1>1. comma' = FALSE /\ rejected = "no" /\ UNCHANGED depth
  BY DEF Use, Assign, Parsing
<1>2. PICK kind \in {"use", "assign"} : LVal(name, kind)
  BY DEF Use, Assign
<1>3. LooksUp(name)
  BY <1>1, <1>2 DEF LVal, LooksUp, Reject
<1>4. CASE program' = program
  BY <1>1, <1>3, <1>4 DEF Grows, ProgramInv, NoEnd
<1>5. CASE \E s : Emit([k |-> kind, sym |-> s])
  BY <1>1, <1>3, <1>5, EmitExtends DEF Grows, ProgramInv
<1> QED BY <1>2, <1>3, <1>4, <1>5 DEF LVal, Reject

\* Blocks and functions ask nothing of the tables.
LEMMA BlockStep ==
  ASSUME ProgramInv,
         \/ BlockStmtOpen \/ BlockStmtClose \/ FuncDefClose
         \/ \E f \in Funcs, params \in ParamLists : FuncDefOpen(f, params)
  PROVE  /\ Grows /\ answers' = {} /\ rejected = "no" /\ rejected' = "no"
         /\ FuncDefClose => ~NoEnd'
<1>1. comma' = FALSE /\ answers' = {} /\ rejected = "no" /\ rejected' = "no"
  BY DEF BlockStmtOpen, BlockStmtClose, FuncDefClose, FuncDefOpen, Parsing
<1>2. ASSUME NEW stmt, Emit(stmt) PROVE Grows
  BY <1>1, <1>2, EmitExtends DEF Grows, ProgramInv
<1>3. CASE FuncDefClose
  <2> DEFINE begun == Last(SelectSeq(program, LAMBDA s : s.k = "func"))
             stmt == [k |-> "end", func |-> begun.sym, sym |-> Lookup(scopes, begun.name)]
  <2>1. Emit(stmt)
    BY <1>3 DEF FuncDefClose
  <2>2. stmt.k = "end"
    OBVIOUS
  <2> HIDE DEF stmt
  <2> QED BY <1>1, <1>2, <2>1, <2>2, EmitExtends
<1>4. CASE BlockStmtOpen
  BY <1>1, <1>2, <1>4 DEF BlockStmtOpen, BlockStmtClose, FuncDefClose, PushTable, PopTable
<1>5. CASE BlockStmtClose
  BY <1>1, <1>2, <1>5 DEF BlockStmtClose, FuncDefClose
<1>6. CASE \E f \in Funcs, params \in ParamLists : FuncDefOpen(f, params)
  <2>1. PICK f \in Funcs, params \in ParamLists : FuncDefOpen(f, params)
    BY <1>6
  <2>2. Grows
    BY <1>2, <2>1 DEF FuncDefOpen
  <2>3. ~FuncDefClose
    <3>1. ~(depth > 0)
      BY <2>1 DEF FuncDefOpen, InFunction
    <3> QED BY <3>1 DEF FuncDefClose
  <2> QED BY <1>1, <2>2, <2>3
<1> QED BY <1>3, <1>4, <1>5, <1>6

-----------------------------------------------------------------------------
(***************************************************************************)
(* The invariant of the specification.                                     *)
(***************************************************************************)
LEMMA TablesStay ==
  ASSUME UNCHANGED <<symbols, scopes, lexical, depth>>
  PROVE  (TablesInv => TablesInv') /\ (Clean => Clean')
BY DEF TablesInv, Shape, EntriesExist, BodiesSame, GlobalsFound, OuterRight, Uppermost,
       Outermost, ParamsUnderBody, Clean, Base, Place, IsLocal

LEMMA ScopesInit == Init => ScopesInv
<1> SUFFICES ASSUME Init PROVE ScopesInv
  OBVIOUS
<1>1. /\ symbols = <<>> /\ scopes = << <<>> >> /\ lexical = << <<>> >> /\ program = <<>>
      /\ depth = 0 /\ comma = FALSE
  BY DEF Init
<1>2. /\ Len(scopes) = 1 /\ Len(symbols) = 0 /\ Len(program) = 0 /\ Base = 1
      /\ scopes[1] = <<>> /\ lexical[1] = <<>> /\ DOMAIN <<>> = {}
  BY <1>1 DEF Base
<1>3. /\ HasLength(scopes, 1) /\ HasLength(lexical, 1)
      /\ HasLength(symbols, 0) /\ HasLength(program, 0)
  <2>1. \A e : HasLength(<<e>>, 1)
    BY DEF HasLength
  <2>2. HasLength(<<>>, 0)
    BY DEF HasLength
  <2> QED BY <1>1, <2>1, <2>2
<1>4. Shape /\ EntriesExist /\ BodiesSame /\ GlobalsFound /\ OuterRight /\ Outermost
  BY <1>1, <1>2, <1>3 DEF Shape, EntriesExist, BodiesSame, GlobalsFound, OuterRight, Outermost
<1>5. Clean /\ ProgramInv
  BY <1>1, <1>2, <1>3 DEF Clean, ProgramInv
<1> QED BY <1>2, <1>4, <1>5 DEF ScopesInv, TablesInv

LEMMA DeclaresKeeps ==
  ASSUME TablesInv, NEW name, NEW init, Declares(name, init)
  PROVE  TablesInv' /\ (Clean => Clean')
BY InstallVarKeeps, TablesStay DEF Declares

LEMMA ScopesStep == ScopesInv /\ [Next]_vars => ScopesInv'
<1> SUFFICES ASSUME TablesInv, ProgramInv, NoEnd => Clean, [Next]_vars
             PROVE  TablesInv' /\ ProgramInv' /\ (NoEnd' => Clean')
  BY DEF ScopesInv
<1>1. ASSUME NEW name \in Vars, NEW init \in Vars \cup {None},
             DeclStmt(name, init) \/ CommaDeclarator(name, init)
      PROVE  TablesInv' /\ ProgramInv' /\ (NoEnd' => Clean')
  <2>1. Declares(name, init) /\ Grows
    BY <1>1, DeclStmtStep, CommaStep
  <2> QED BY <2>1, DeclaresKeeps DEF Grows
<1>2. ASSUME NEW name \in Vars, Use(name) \/ Assign(name)
      PROVE  TablesInv' /\ ProgramInv' /\ (NoEnd' => Clean')
  <2>1. LooksUp(name) /\ Grows
    BY <1>2, LValStep
  <2> QED BY <2>1, TablesStay DEF Grows, LooksUp
<1>3. CASE BlockStmtOpen
  BY <1>3, BlockStep, BlockOpenKeeps DEF Grows
<1>4. CASE BlockStmtClose
  BY <1>4, BlockStep, CloseKeeps DEF Grows
<1>5. CASE \E f \in Funcs, params \in ParamLists : FuncDefOpen(f, params)
  BY <1>5, BlockStep, FuncDefOpenKeeps DEF Grows
<1>6. CASE FuncDefClose
  BY <1>6, BlockStep, CloseKeeps DEF Grows
<1>7. CASE UNCHANGED vars
  <2>1. ProgramInv' /\ (NoEnd' => NoEnd)
    BY <1>7 DEF vars, ProgramInv, NoEnd
  <2> QED BY <1>7, <2>1, TablesStay DEF vars
<1> QED BY <1>1, <1>2, <1>3, <1>4, <1>5, <1>6, <1>7 DEF Next

\* The tables are what the proofs below take them for, in every state.
THEOREM TablesCorrect == Spec => []ScopesInv
BY ScopesInit, ScopesStep, PTL DEF Spec

(***************************************************************************)
(* Whatever a body declares becomes a local variable, however many tables  *)
(* the functions before it left open: Id::genCode gives it a place on the  *)
(* stack.                                                                  *)
(***************************************************************************)
THEOREM BodiesAreLocal == Spec => []LocalsAreLocal
<1>1. ScopesInv => LocalsAreLocal
  <2> SUFFICES ASSUME TablesInv PROVE LocalsAreLocal
    BY DEF ScopesInv
  <2>1. DOMAIN symbols = 1 .. Len(symbols)
    BY LengthIs DEF TablesInv, Shape
  <2> QED BY <2>1 DEF TablesInv, LocalsAreLocal
<1> QED BY <1>1, TablesCorrect, PTL

-----------------------------------------------------------------------------
(***************************************************************************)
(* The answers.                                                            *)
(***************************************************************************)
LEMMA DeclaresExtends ==
  ASSUME TablesInv, NEW name, NEW init, Declares(name, init)
  PROVE  /\ depth' = depth
         /\ \A i \in 1 .. Len(symbols) : symbols'[i] = symbols[i]
<1>1. HasLength(symbols, Len(symbols))
  BY DEF TablesInv, Shape
<1>2. CASE InstallVar(name)
  BY <1>1, <1>2, AppendExtends DEF InstallVar, Extended, Declares
<1> QED BY <1>2 DEF Declares

\* What is not declared in a body is not found in one.
LEMMA GlobalsAreOutside ==
  ASSUME TablesInv', NEW e, e # None => symbols'[e].place = "global"
  PROVE  ~InBody(e)'
<1> SUFFICES ASSUME e # None, NEW k \in 2 .. Len(lexical'), e \in Range(lexical'[k])
             PROVE  FALSE
  BY DEF InBody
<1>1. Len(lexical') = depth' + 1
  BY LengthIs DEF TablesInv, Shape
<1>2. PICK x \in DOMAIN lexical'[k] : e = lexical'[k][x]
  BY DEF Range
<1>3. symbols'[e].place \in {"local", "param"}
  BY <1>1, <1>2 DEF TablesInv, EntriesExist, Place
<1> QED BY <1>3

\* A leak needs a function that has ended.
LEMMA LeakNeedsEnd ==
  ASSUME NoEnd => Clean, ProgramInv', NoEnd' => NoEnd, ~Clean
  PROVE  Stmts("end")' # {}
<1>1. PICK i \in 1 .. Len(program') : program'[i].k = "end"
  BY DEF NoEnd
<1>2. DOMAIN program' = 1 .. Len(program')
  BY LengthIs DEF ProgramInv
<1> QED BY <1>1, <1>2 DEF Stmts

\* A step between states with correct tables.
Steps ==
  /\ TablesInv /\ TablesInv' /\ ProgramInv' /\ (NoEnd => Clean) /\ (NoEnd' => NoEnd)
  /\ \A i \in 1 .. Len(symbols) : symbols'[i] = symbols[i]

LEMMA NamesAreNames == \A x \in Names : x # BaseName
BY NamesAssumption

LEMMA LookupAnswered ==
  ASSUME Steps, NEW x \in Names, NEW code, NEW lex,
         code = Lookup(scopes, x), lex = Lookup(lexical, x), code # lex
  PROVE  /\ Stmts("end")' # {} /\ ~InBody(lex)'
         /\ code # None /\ symbols'[code].place = "param"
<1>1. AnswerOk(code, lex) /\ Len(symbols) \in Nat
  BY LookupRight, NamesAreNames, LengthIs DEF Steps, TablesInv, Shape
<1>2. code \in 1 .. Len(symbols) /\ symbols[code].place = "param" /\ ~Clean
  BY <1>1 DEF AnswerOk, Place, None
<1>3. lex # None => symbols'[lex].place = "global"
  BY <1>1 DEF AnswerOk, Place, Steps
<1>4. ~InBody(lex)'
  BY <1>3, GlobalsAreOutside DEF Steps
<1>5. Stmts("end")' # {}
  BY <1>2, LeakNeedsEnd DEF Steps
<1> QED BY <1>2, <1>4, <1>5 DEF Steps, None

LEMMA InTopAnswered ==
  ASSUME Steps, NEW x \in Names, NEW code, NEW lex,
         code = InTop(scopes, x), lex = InTop(lexical, x), code # lex, ~MissedParam(code, lex)
  PROVE  /\ Stmts("end")' # {} /\ ~InBody(lex)' /\ depth = 0
         /\ code # None => symbols'[code].place = "param"
<1>1. /\ depth = 0 /\ ~Clean
      /\ code # None => code \in 1 .. Len(symbols) /\ symbols[code].place = "param"
      /\ lex # None => lex \in 1 .. Len(symbols) /\ symbols[lex].place = "global"
  BY InTopRight, NamesAreNames DEF Steps, Place
<1>2. ~InBody(lex)'
  BY <1>1, GlobalsAreOutside DEF Steps
<1>3. Stmts("end")' # {}
  BY <1>1, LeakNeedsEnd DEF Steps
<1> QED BY <1>1, <1>2, <1>3 DEF Steps

\* An undefined name is undefined in the source text, too.
LEMMA UndefinedIsUndefined ==
  ASSUME Steps, NEW x \in Names, Lookup(scopes, x) = None
  PROVE  Lookup(lexical, x) = None
BY LookupAnswered

AnswersInv == OnlyParamsLeak /\ RejectsOnlyErrors

LEMMA DeclaresAnswers ==
  ASSUME Steps, NEW name \in Vars, NEW init \in Vars \cup {None}, Declares(name, init)
  PROVE  AnswersInv'
<1>0. name \in Names /\ (init # None => init \in Names)
  BY DEF Names
<1>1. depth' = depth /\ rejected = "no"
  BY DEF Declares
<1> DEFINE declare == DeclareQuery(name)
<1>2. ASSUME NEW q \in answers', q.code # q.lex
      PROVE  \/ /\ q.what = "declare" /\ depth' = 1
                /\ q.code = None /\ symbols'[q.lex].place = "param"
             \/ /\ Stmts("end")' # {} /\ ~InBody(q.lex)'
                /\ \/ q.code # None /\ symbols'[q.code].place = "param"
                   \/ q.code = None /\ q.what = "declare" /\ depth' = 0
  <2>1. CASE q = declare
    <3>1. q.what = "declare" /\ q.code = InTop(scopes, name) /\ q.lex = InTop(lexical, name)
      BY <2>1 DEF DeclareQuery
    <3>2. CASE MissedParam(q.code, q.lex)
      <4>1. depth = 1 /\ q.code = None /\ q.lex \in 1 .. Len(symbols) /\ symbols[q.lex].place = "param"
        BY <3>2 DEF MissedParam, Place
      <4> QED BY <1>1, <3>1, <4>1 DEF Steps
    <3>3. CASE ~MissedParam(q.code, q.lex)
      <4>1. /\ Stmts("end")' # {} /\ ~InBody(q.lex)' /\ depth = 0
            /\ q.code # None => symbols'[q.code].place = "param"
        BY <1>0, <1>2, <3>1, <3>3, InTopAnswered
      <4> QED BY <1>1, <3>1, <4>1
    <3> QED BY <3>2, <3>3
  <2>2. CASE init # None /\ q = LookupQuery(init)
    <3>1. q.code = Lookup(scopes, init) /\ q.lex = Lookup(lexical, init)
      BY <2>2 DEF LookupQuery
    <3> QED BY <1>0, <1>2, <2>2, <3>1, LookupAnswered
  <2> QED BY <2>1, <2>2 DEF Declares
<1>3. OnlyParamsLeak'
  BY <1>2 DEF OnlyParamsLeak
<1>4. rejected' = "undefined" => \E q \in answers' : q.code = None /\ q.lex = None
  <2> SUFFICES ASSUME rejected' = "undefined"
               PROVE  \E q \in answers' : q.code = None /\ q.lex = None
    OBVIOUS
  <2>1. init # None /\ Lookup(scopes, init) = None
    BY DEF Declares
  <2>2. LookupQuery(init).code = None /\ LookupQuery(init).lex = None
    BY <1>0, <2>1, UndefinedIsUndefined DEF LookupQuery
  <2>3. LookupQuery(init) \in answers'
    BY <2>1 DEF Declares
  <2> QED BY <2>2, <2>3
<1>5. rejected' = "redefined" => \E q \in answers' :
        /\ q.what = "declare" /\ q.code # None
        /\ q.lex # None \/ (depth' = 0 /\ symbols'[q.code].place = "param")
  <2> SUFFICES ASSUME rejected' = "redefined"
               PROVE  \E q \in answers' :
                        /\ q.what = "declare" /\ q.code # None
                        /\ q.lex # None \/ (depth' = 0 /\ symbols'[q.code].place = "param")
    OBVIOUS
  <2>1. /\ declare.what = "declare" /\ declare.code = InTop(scopes, name)
        /\ declare.lex = InTop(lexical, name)
    BY DEF DeclareQuery
  <2>2. declare.code # None /\ declare \in answers'
    BY <2>1 DEF Declares
  <2> HIDE DEF declare
  <2>3. declare.lex # None \/ (depth' = 0 /\ symbols'[declare.code].place = "param")
    BY <1>0, <1>1, <2>1, <2>2, InTopAnswered DEF MissedParam
  <2> QED BY <2>1, <2>2, <2>3
<1> QED BY <1>3, <1>4, <1>5 DEF AnswersInv, RejectsOnlyErrors

LEMMA LooksUpAnswers ==
  ASSUME Steps, NEW name \in Names, LooksUp(name)
  PROVE  AnswersInv'
<1> DEFINE q == LookupQuery(name)
<1>1. q.code = Lookup(scopes, name) /\ q.lex = Lookup(lexical, name) /\ answers' = {q}
  BY DEF LookupQuery, LooksUp
<1> HIDE DEF q
<1>2. OnlyParamsLeak'
  BY <1>1, LookupAnswered DEF OnlyParamsLeak
<1>3. rejected' = "undefined" => q.code = None /\ q.lex = None
  BY <1>1, UndefinedIsUndefined DEF LooksUp
<1>4. RejectsOnlyErrors'
  BY <1>1, <1>3 DEF RejectsOnlyErrors, LooksUp
<1> QED BY <1>2, <1>4 DEF AnswersInv

LEMMA AnswersStep == ScopesInv /\ ScopesInv' /\ AnswersInv /\ [Next]_vars => AnswersInv'
<1> SUFFICES ASSUME ScopesInv, ScopesInv', AnswersInv, [Next]_vars PROVE AnswersInv'
  OBVIOUS
<1>1. /\ TablesInv /\ TablesInv' /\ ProgramInv /\ ProgramInv' /\ (NoEnd => Clean)
  BY DEF ScopesInv
<1>2. ASSUME NEW name \in Vars, NEW init \in Vars \cup {None},
             DeclStmt(name, init) \/ CommaDeclarator(name, init)
      PROVE  AnswersInv'
  <2>1. Declares(name, init) /\ Grows
    BY <1>1, <1>2, DeclStmtStep, CommaStep
  <2>2. Steps
    BY <1>1, <2>1, DeclaresExtends DEF Steps, Grows
  <2> QED BY <2>1, <2>2, DeclaresAnswers
<1>3. ASSUME NEW name \in Vars, Use(name) \/ Assign(name) PROVE AnswersInv'
  <2>1. LooksUp(name) /\ Grows
    BY <1>1, <1>3, LValStep
  <2>2. Steps
    BY <1>1, <2>1 DEF Steps, Grows, LooksUp
  <2>3. name \in Names
    BY DEF Names
  <2> QED BY <2>1, <2>2, <2>3, LooksUpAnswers
<1>4. CASE \/ BlockStmtOpen \/ BlockStmtClose \/ FuncDefClose
           \/ \E f \in Funcs, params \in ParamLists : FuncDefOpen(f, params)
  <2>1. answers' = {} /\ rejected' = "no"
    BY <1>1, <1>4, BlockStep
  <2> QED BY <2>1 DEF AnswersInv, OnlyParamsLeak, RejectsOnlyErrors
<1>5. CASE UNCHANGED vars
  BY <1>5 DEF vars, AnswersInv, OnlyParamsLeak, RejectsOnlyErrors, Stmts, InBody
<1> QED BY <1>2, <1>3, <1>4, <1>5 DEF Next

LEMMA AnswersCorrect == Spec => []AnswersInv
<1>1. Init => AnswersInv
  BY DEF Init, AnswersInv, OnlyParamsLeak, RejectsOnlyErrors
<1> QED BY <1>1, AnswersStep, TablesCorrect, PTL DEF Spec

(***************************************************************************)
(* A name is resolved as the source text would have it, until a function   *)
(* has ended; after that, the parameters that stay in "identifiers" may    *)
(* answer for a name no body declares, and nothing else goes wrong.  Only  *)
(* a parameter declared again in the body goes unnoticed at any time.      *)
(***************************************************************************)
THEOREM LeaksAreParams == Spec => []OnlyParamsLeak
BY AnswersCorrect, PTL DEF AnswersInv

(***************************************************************************)
(* The parser stops the compiler for an undefined name only if the program *)
(* has none by that name, and for a redefinition only if there is one or a *)
(* leaked parameter is in the way outside functions.                       *)
(***************************************************************************)
THEOREM RejectionsAreErrors == Spec => []RejectsOnlyErrors
BY AnswersCorrect, PTL DEF AnswersInv

-----------------------------------------------------------------------------
(***************************************************************************)
(* The parsed program and the tables.  A function's entry is older than    *)
(* those its body declares and younger than all before it (InOrder); what  *)
(* an open body sees of its own is younger than every function.            *)
(***************************************************************************)
IsFunc(i) == program[i].k = "func"
HasFunc == \E i \in 1 .. Len(program) : IsFunc(i)

\* Statement i is where genCode sets the address of entry e.
Sets(i, e) ==
  \/ program[i].k = "decl" /\ \E l \in 1 .. Len(program[i].nodes) : program[i].nodes[l].sym = e
  \/ IsFunc(i) /\ \E j \in 1 .. program[i].params :
       \/ e = program[i].sym + j
       \/ j = program[i].params /\ e = program[i].sym + program[i].params + j

\* An entry that statement i may name: set there or before, and a local of no
\* function but the last one.
Reachable(e, i) ==
  /\ e \in 1 .. Len(symbols)
  /\ \E j \in 1 .. i : Sets(j, e)
  /\ Place(e) = "local" => \A j \in 1 .. i : IsFunc(j) => program[j].sym < e

NodeOk(node, i) ==
  /\ node.sym \in 1 .. Len(symbols) /\ Place(node.sym) # "param"
  /\ node.init # None => Reachable(node.init, i)

DeclOk(i) ==
  /\ Len(program[i].nodes) \in Nat /\ Len(program[i].nodes) >= 1
  /\ HasLength(program[i].nodes, Len(program[i].nodes))
  /\ \A l \in 1 .. Len(program[i].nodes) : NodeOk(program[i].nodes[l], i)

FirstFunc(i) == \A j \in 1 .. i - 1 : ~IsFunc(j)

ParamOk(e, i) ==
  /\ e \in 1 .. Len(symbols) /\ Place(e) = "param"
  /\ symbols[e].level = 1 <=> FirstFunc(i)

FuncOk(i) ==
  /\ program[i].params \in Nat /\ program[i].sym \in 1 .. Len(symbols)
  /\ \A j \in 1 .. program[i].params :
       /\ ParamOk(program[i].sym + j, i)
       /\ program[i].sym + program[i].params + j \in 1 .. Len(symbols)
       /\ Place(program[i].sym + program[i].params + j) = "local"

Kinds == {"decl", "func", "use", "assign", "open", "close", "end"}

StmtOk(i) ==
  /\ program[i].k \in Kinds
  /\ program[i].k = "decl" => DeclOk(i)
  /\ program[i].k = "func" => FuncOk(i)
  /\ program[i].k \in {"use", "assign"} => Reachable(program[i].sym, i)

StmtsOk == \A i \in 1 .. Len(program) : StmtOk(i)

SymbolsOk == \A e \in 1 .. Len(symbols) :
  /\ symbols[e].level \in Nat /\ Place(e) \in {"global", "local", "param"}
  /\ Place(e) # "global" => symbols[e].level > 0

InOrder ==
  \A i, j \in 1 .. Len(program) : \A e \in 1 .. Len(symbols) : IsFunc(i) /\ Sets(j, e) =>
    IF i <= j THEN program[i].sym < e ELSE e < program[i].sym

FuncsInOrder ==
  \A i, j \in 1 .. Len(program) :
    i < j /\ IsFunc(i) /\ IsFunc(j) => program[i].sym < program[j].sym

IsSet(e) == \E j \in 1 .. Len(program) : Sets(j, e)
Youngest(e) == \A i \in 1 .. Len(program) : IsFunc(i) => program[i].sym < e

EntriesSet ==
  \A k \in 1 .. Len(scopes) : \A x \in DOMAIN scopes[k] : x \notin Funcs => IsSet(scopes[k][x])
BodiesYoung ==
  \A k \in Base + 1 .. Len(scopes) : \A x \in DOMAIN scopes[k] : Youngest(scopes[k][x])
OutsideNoLocals ==
  \A k \in 1 .. Base : \A x \in DOMAIN scopes[k] : Place(scopes[k][x]) # "local"

TablesOk == EntriesSet /\ BodiesYoung /\ OutsideNoLocals

\* Every function leaves a table behind.
TablesLeft == IF HasFunc THEN Base >= 2 ELSE depth = 0 /\ Len(scopes) = 1

ParsedInv == StmtsOk /\ SymbolsOk /\ InOrder /\ FuncsInOrder /\ TablesOk /\ TablesLeft

-----------------------------------------------------------------------------
\* The lengths, which every lemma below needs.
LEMMA Lengths ==
  ASSUME ScopesInv
  PROVE  /\ Len(program) \in Nat /\ Len(symbols) \in Nat /\ Len(scopes) \in Nat /\ depth \in Nat
         /\ HasLength(program, Len(program)) /\ DOMAIN program = 1 .. Len(program)
         /\ HasLength(symbols, Len(symbols)) /\ DOMAIN symbols = 1 .. Len(symbols)
         /\ HasLength(scopes, Len(scopes))
         /\ Base = Len(scopes) - depth /\ Base \in Nat /\ Base >= 1
         /\ depth > 0 => Base >= 2
BY LengthIs DEF ScopesInv, TablesInv, Shape, ProgramInv, Base

\* What has been parsed stays, but for the last declaration, which may get
\* another declarator.
Stays(i) ==
  /\ IsFunc(i) <=> program'[i].k = "func"
  /\ IsFunc(i) => program'[i] = program[i]
  /\ \A e : Sets(i, e) => Sets(i, e)'

ParsedStays ==
  /\ Len(program) \in Nat /\ Len(program') \in Nat /\ Len(program) <= Len(program')
  /\ Len(symbols) \in Nat /\ Len(symbols') \in Nat /\ Len(symbols) <= Len(symbols')
  /\ \A i \in 1 .. Len(program) : Stays(i)
  /\ \A e \in 1 .. Len(symbols) : symbols'[e] = symbols[e]

LEMMA ReachableStays ==
  ASSUME ParsedStays, NEW i \in 1 .. Len(program), NEW e, Reachable(e, i)
  PROVE  Reachable(e, i)'
<1>1. \A j \in 1 .. i : j \in 1 .. Len(program) /\ Stays(j)
  BY DEF ParsedStays
<1>2. e \in 1 .. Len(symbols') /\ symbols'[e] = symbols[e]
  BY DEF ParsedStays, Reachable
<1>3. \E j \in 1 .. i : Sets(j, e)'
  <2>1. PICK j \in 1 .. i : Sets(j, e)
    BY DEF Reachable
  <2>2. Sets(j, e)'
    BY <1>1, <2>1 DEF Stays
  <2> QED BY <2>2
<1>4. symbols'[e].place = "local" =>
        \A j \in 1 .. i : program'[j].k = "func" => program'[j].sym < e
  BY <1>1, <1>2 DEF Stays, Reachable, IsFunc, Place
<1> QED BY <1>2, <1>3, <1>4 DEF Reachable, IsFunc, Place

LEMMA NodeStays ==
  ASSUME ParsedStays, NEW i \in 1 .. Len(program), NEW node, NodeOk(node, i)
  PROVE  NodeOk(node, i)'
<1>1. node.sym \in 1 .. Len(symbols') /\ symbols'[node.sym] = symbols[node.sym]
  BY DEF ParsedStays, NodeOk
<1> QED BY <1>1, ReachableStays DEF NodeOk, Place

LEMMA StmtStays ==
  ASSUME ParsedStays, NEW i \in 1 .. Len(program), program'[i] = program[i], StmtOk(i)
  PROVE  StmtOk(i)'
<1>1. \A j \in 1 .. i : j \in 1 .. Len(program) /\ Stays(j)
  BY DEF ParsedStays
<1>2. program[i].k = "decl" => DeclOk(i)'
  BY NodeStays DEF StmtOk, DeclOk
<1>3. ASSUME program[i].k = "func" PROVE FuncOk(i)'
  <2>1. FuncOk(i)
    BY <1>3 DEF StmtOk
  <2>2. \A e \in 1 .. Len(symbols) : e \in 1 .. Len(symbols') /\ symbols'[e] = symbols[e]
    BY DEF ParsedStays
  <2>3. ASSUME NEW e, ParamOk(e, i) PROVE ParamOk(e, i)'
    <3>1. \A j \in 1 .. i - 1 : IsFunc(j) <=> IsFunc(j)'
      BY <1>1 DEF Stays, IsFunc
    <3> QED BY <2>2, <2>3, <3>1 DEF ParamOk, FirstFunc, Place
  <2> QED BY <2>1, <2>2, <2>3 DEF FuncOk, Place
<1>4. program[i].k \in {"use", "assign"} => Reachable(program[i].sym, i)'
  BY ReachableStays DEF StmtOk
<1> QED BY <1>2, <1>3, <1>4 DEF StmtOk

(***************************************************************************)
(* A statement that sets no address.                                       *)
(***************************************************************************)
Plain(stmt) == stmt.k \in {"use", "assign", "open", "close", "end"}

StatementAdded(stmt) ==
  /\ Len(program') = Len(program) + 1 /\ program'[Len(program) + 1] = stmt
  /\ \A i \in 1 .. Len(program) : program'[i] = program[i]

SamePlaces ==
  /\ \A e : IsSet(e) => IsSet(e)'
  /\ \A e : Youngest(e) => Youngest(e)'
  /\ HasFunc <=> HasFunc'

LEMMA PlainStmt ==
  ASSUME ScopesInv, ParsedInv, NEW stmt, Plain(stmt), StatementAdded(stmt), UNCHANGED symbols,
         stmt.k \in {"use", "assign"} => Reachable(stmt.sym, Len(program))
  PROVE  StmtsOk' /\ SymbolsOk' /\ InOrder' /\ FuncsInOrder' /\ SamePlaces
<1>1. PICK n \in Nat : n = Len(program) /\ Len(symbols) \in Nat
  BY Lengths
<1>2. Len(program') = n + 1 /\ program'[n + 1] = stmt /\ \A i \in 1 .. n : program'[i] = program[i]
  BY <1>1 DEF StatementAdded
<1>3. \A i \in 1 .. n : (IsFunc(i)' <=> IsFunc(i)) /\ \A e : Sets(i, e)' <=> Sets(i, e)
  BY <1>2 DEF IsFunc, Sets
<1>4. ~IsFunc(n + 1)' /\ \A e : ~Sets(n + 1, e)'
  BY <1>2 DEF Plain, IsFunc, Sets
<1>5. ParsedStays
  BY <1>1, <1>2, <1>3 DEF ParsedStays, Stays, IsFunc
<1>6. \A i \in 1 .. n + 1 : i \in 1 .. n \/ i = n + 1
  BY <1>1
<1>7. StmtOk(n + 1)'
  <2>1. ASSUME stmt.k \in {"use", "assign"} PROVE Reachable(stmt.sym, n + 1)'
    <3>1. Reachable(stmt.sym, n)
      BY <1>1, <2>1
    <3>2. n \in 1 .. n
      BY <1>1, <3>1 DEF Reachable
    <3>3. Reachable(stmt.sym, n)'
      BY <1>1, <1>5, <3>1, <3>2, ReachableStays
    <3> QED BY <1>1, <1>4, <1>6, <3>3 DEF Reachable, IsFunc
  <2> QED BY <1>2, <2>1 DEF StmtOk, Plain, Kinds
<1>8. StmtsOk'
  <2>1. ASSUME NEW i \in 1 .. n PROVE StmtOk(i)'
    BY <1>1, <1>2, <1>5, StmtStays DEF ParsedInv, StmtsOk
  <2> QED BY <1>2, <1>6, <1>7, <2>1 DEF StmtsOk
<1>9. SymbolsOk'
  BY DEF ParsedInv, SymbolsOk, Place
<1>10. InOrder'
  <2> SUFFICES ASSUME NEW i \in 1 .. n + 1, NEW j \in 1 .. n + 1, NEW e \in 1 .. Len(symbols),
                      IsFunc(i)', Sets(j, e)'
               PROVE  IF i <= j THEN program'[i].sym < e ELSE e < program'[i].sym
    BY <1>2 DEF InOrder, IsFunc
  <2>1. i \in 1 .. n /\ j \in 1 .. n /\ IsFunc(i) /\ Sets(j, e) /\ program'[i] = program[i]
    BY <1>2, <1>3, <1>4, <1>6
  <2> QED BY <1>1, <2>1 DEF ParsedInv, InOrder
<1>11. FuncsInOrder'
  <2> SUFFICES ASSUME NEW i \in 1 .. n + 1, NEW j \in 1 .. n + 1, i < j, IsFunc(i)', IsFunc(j)'
               PROVE  program'[i].sym < program'[j].sym
    BY <1>2 DEF FuncsInOrder, IsFunc
  <2>1. i \in 1 .. n /\ j \in 1 .. n /\ IsFunc(i) /\ IsFunc(j)
    BY <1>2, <1>3, <1>4, <1>6
  <2> QED BY <1>1, <1>2, <2>1 DEF ParsedInv, FuncsInOrder
<1>12. SamePlaces
  <2>1. \A i \in 1 .. n : i \in 1 .. n + 1
    BY <1>1
  <2>2. ASSUME NEW e, IsSet(e) PROVE IsSet(e)'
    BY <1>1, <1>2, <1>3, <2>1, <2>2 DEF IsSet
  <2>3. ASSUME NEW e, Youngest(e), NEW i \in 1 .. n + 1, IsFunc(i)' PROVE program'[i].sym < e
    BY <1>1, <1>2, <1>3, <1>4, <1>6, <2>3 DEF Youngest
  <2>4. HasFunc <=> HasFunc'
    BY <1>1, <1>2, <1>3, <1>4, <1>6, <2>1 DEF HasFunc
  <2> QED BY <1>2, <2>2, <2>3, <2>4 DEF SamePlaces, Youngest, IsFunc
<1> QED BY <1>8, <1>9, <1>10, <1>11, <1>12

-----------------------------------------------------------------------------
(***************************************************************************)
(* What the parser does to the tables.                                     *)
(***************************************************************************)
LEMMA NothingParsed ==
  ASSUME ParsedInv, UNCHANGED <<symbols, scopes, program, depth>>
  PROVE  ParsedInv'
<1>1. \A i : IsFunc(i)' <=> IsFunc(i)
  BY DEF IsFunc
<1>2. \A i, e : Sets(i, e)' <=> Sets(i, e)
  BY <1>1 DEF Sets
<1>3. \A i, e : Reachable(e, i)' <=> Reachable(e, i)
  BY <1>1, <1>2 DEF Reachable, Place
<1>4. \A i : DeclOk(i)' <=> DeclOk(i)
  BY <1>3 DEF DeclOk, NodeOk, Place
<1>5. \A i : FuncOk(i)' <=> FuncOk(i)
  BY <1>1 DEF FuncOk, ParamOk, FirstFunc, Place
<1>6. StmtsOk'
  BY <1>3, <1>4, <1>5 DEF ParsedInv, StmtsOk, StmtOk
<1>7. SymbolsOk' /\ InOrder' /\ FuncsInOrder'
  BY <1>1, <1>2 DEF ParsedInv, SymbolsOk, Place, InOrder, FuncsInOrder
<1>8. TablesOk' /\ TablesLeft'
  BY <1>1, <1>2 DEF ParsedInv, TablesOk, EntriesSet, BodiesYoung, OutsideNoLocals,
                    TablesLeft, IsSet, Youngest, HasFunc, Base, Place
<1> QED BY <1>6, <1>7, <1>8 DEF ParsedInv

\* Tables are opened empty, and dropped.
LEMMA TablesKept ==
  ASSUME ScopesInv, ScopesInv', ParsedInv, SamePlaces, UNCHANGED symbols, Base' = Base,
         \A k \in 1 .. Len(scopes') :
           scopes'[k] = <<>> \/ (k \in 1 .. Len(scopes) /\ scopes'[k] = scopes[k]),
         UNCHANGED <<scopes, depth>> \/ depth > 0
  PROVE  TablesOk' /\ TablesLeft'
<1>1. /\ Len(scopes) \in Nat /\ Base \in Nat /\ depth \in Nat
      /\ Len(scopes') \in Nat /\ depth' \in Nat /\ Base' = Len(scopes') - depth'
      /\ Base = Len(scopes) - depth
  <2>1. Len(scopes) \in Nat /\ Base \in Nat /\ depth \in Nat /\ Base = Len(scopes) - depth
    BY Lengths
  <2>2. Len(scopes') \in Nat /\ depth' \in Nat /\ Base' = Len(scopes') - depth'
    BY LengthIs DEF ScopesInv, TablesInv, Shape, Base
  <2> QED BY <2>1, <2>2
<1>2. DOMAIN <<>> = {}
  OBVIOUS
<1>3. TablesOk'
  <2>1. ASSUME NEW k \in 1 .. Len(scopes'), NEW x \in DOMAIN scopes'[k]
        PROVE  k \in 1 .. Len(scopes) /\ x \in DOMAIN scopes[k] /\ scopes'[k][x] = scopes[k][x]
    BY <1>2
  <2>2. ASSUME NEW k \in 1 .. Len(scopes'), NEW x \in DOMAIN scopes'[k], x \notin Funcs,
               NEW e, e = scopes'[k][x]
        PROVE  IsSet(e)'
    <3>1. IsSet(e)
      BY <2>1, <2>2 DEF ParsedInv, TablesOk, EntriesSet
    <3> QED BY <3>1 DEF SamePlaces
  <2>3. ASSUME NEW k \in Base + 1 .. Len(scopes'), NEW x \in DOMAIN scopes'[k],
               NEW e, e = scopes'[k][x]
        PROVE  Youngest(e)'
    <3>1. k \in 1 .. Len(scopes')
      BY <1>1
    <3>2. k \in Base + 1 .. Len(scopes)
      BY <1>1, <2>1, <3>1
    <3>3. Youngest(e)
      BY <2>1, <2>3, <3>1, <3>2 DEF ParsedInv, TablesOk, BodiesYoung
    <3> QED BY <3>3 DEF SamePlaces
  <2>4. ASSUME NEW k \in 1 .. Base, NEW x \in DOMAIN scopes'[k]
        PROVE  symbols'[scopes'[k][x]].place # "local"
    <3>1. k \in 1 .. Len(scopes')
      BY <1>1
    <3>2. x \in DOMAIN scopes[k] /\ scopes'[k][x] = scopes[k][x]
      BY <2>1, <3>1
    <3> QED BY <3>2 DEF ParsedInv, TablesOk, OutsideNoLocals, Place
  <2>5. EntriesSet'
    BY <2>2 DEF EntriesSet, IsSet
  <2>6. BodiesYoung'
    BY <2>3 DEF BodiesYoung, Youngest, IsFunc
  <2>7. OutsideNoLocals'
    BY <2>4 DEF OutsideNoLocals, Place
  <2> QED BY <2>5, <2>6, <2>7 DEF TablesOk
<1>4. TablesLeft'
  <2>1. CASE HasFunc
    <3>1. HasFunc' /\ Base >= 2
      BY <2>1 DEF ParsedInv, TablesLeft, SamePlaces
    <3> QED BY <3>1 DEF TablesLeft
  <2>2. CASE ~HasFunc
    <3>1. ~HasFunc' /\ depth = 0 /\ Len(scopes) = 1
      BY <2>2 DEF ParsedInv, TablesLeft, SamePlaces
    <3> QED BY <3>1 DEF TablesLeft
  <2> QED BY <2>1, <2>2
<1> QED BY <1>3, <1>4

LEMMA LookupReachable ==
  ASSUME ScopesInv, ParsedInv, NEW x, x \notin Funcs, Lookup(scopes, x) # None
  PROVE  Reachable(Lookup(scopes, x), Len(program))
<1>1. /\ Len(scopes) \in Nat /\ Base \in Nat /\ HasLength(scopes, Len(scopes))
      /\ Len(program) \in Nat
  BY Lengths
<1>2. \E k \in 1 .. Len(scopes) : Holds(scopes, k, x)
  BY <1>1, LookupMisses
<1>3. PICK k \in 1 .. Len(scopes) :
        Holds(scopes, k, x) /\ \A j \in k + 1 .. Len(scopes) : ~Holds(scopes, j, x)
  BY <1>1, <1>2, UppermostExists
<1>4. PICK e : e = scopes[k][x]
  OBVIOUS
<1>5. Lookup(scopes, x) = e
  BY <1>1, <1>3, <1>4, LookupFinds
<1>6. x \in DOMAIN scopes[k]
  BY <1>3 DEF Holds
<1>7. e \in 1 .. Len(symbols)
  BY <1>4, <1>6 DEF ScopesInv, TablesInv, EntriesExist
<1>8. IsSet(e)
  BY <1>4, <1>6 DEF ParsedInv, TablesOk, EntriesSet
<1>9. Place(e) = "local" => Youngest(e)
  <2>1. k \in 1 .. Base \/ k \in Base + 1 .. Len(scopes)
    BY <1>1
  <2> QED BY <1>4, <1>6, <2>1 DEF ParsedInv, TablesOk, BodiesYoung, OutsideNoLocals
<1> QED BY <1>5, <1>7, <1>8, <1>9 DEF Reachable, IsSet, Youngest

LEMMA EmitAdds ==
  ASSUME ScopesInv, NEW stmt, Emit(stmt)
  PROVE  StatementAdded(stmt) /\ Len(program') \in Nat
<1>1. PICK n \in Nat : n = Len(program) /\ HasLength(program, n)
  BY Lengths
<1>2. Extended(program', program, n, stmt)
  BY <1>1, AppendExtends DEF Emit
<1> QED BY <1>1, <1>2, LengthIs DEF Extended, StatementAdded

\* Variables and functions have different names.
NamesDiffer == Vars \cap Funcs = {}

LEMMA UseKeeps ==
  ASSUME NamesDiffer, ScopesInv, ScopesInv', ParsedInv, NEW name \in Vars, Use(name) \/ Assign(name)
  PROVE  ParsedInv'
<1>1. PICK kind \in {"use", "assign"} : LVal(name, kind)
  BY DEF Use, Assign
<1>2. UNCHANGED <<symbols, scopes, depth>>
  BY <1>1 DEF LVal, Reject, Use, Assign
<1>3. CASE UNCHANGED program
  BY <1>2, <1>3, NothingParsed
<1>4. CASE ~UNCHANGED program
  <2>1. PICK e : e = Lookup(scopes, name)
    OBVIOUS
  <2>2. e # None /\ Emit([k |-> kind, sym |-> e])
    BY <1>1, <1>4, <2>1 DEF LVal, Reject
  <2>3. Reachable(e, Len(program))
    BY <2>1, <2>2, LookupReachable DEF NamesDiffer
  <2>4. PICK stmt : stmt = [k |-> kind, sym |-> e]
    OBVIOUS
  <2>5. StatementAdded(stmt) /\ Plain(stmt) /\ stmt.sym = e
    BY <2>2, <2>4, EmitAdds DEF Plain
  <2>6. StmtsOk' /\ SymbolsOk' /\ InOrder' /\ FuncsInOrder' /\ SamePlaces
    BY <1>2, <2>3, <2>5, PlainStmt
  <2>7. Base' = Base
    BY <1>2 DEF Base
  <2>8. TablesOk' /\ TablesLeft'
    BY <1>2, <2>6, <2>7, TablesKept
  <2> QED BY <2>6, <2>8 DEF ParsedInv
<1> QED BY <1>3, <1>4

LEMMA BlockKeeps ==
  ASSUME ScopesInv, ScopesInv', ParsedInv, BlockStmtOpen \/ BlockStmtClose \/ FuncDefClose
  PROVE  ParsedInv'
<1>1. PICK stmt : Emit(stmt) /\ stmt.k \in {"open", "close", "end"}
  <2>1. CASE BlockStmtOpen
    BY <2>1 DEF BlockStmtOpen
  <2>2. CASE BlockStmtClose
    BY <2>2 DEF BlockStmtClose
  <2>3. CASE FuncDefClose
    BY <2>3 DEF FuncDefClose
  <2> QED BY <2>1, <2>2, <2>3
<1>2. UNCHANGED symbols /\ depth > 0
  <2>1. depth \in Nat
    BY Lengths
  <2> QED BY <2>1 DEF BlockStmtOpen, BlockStmtClose, FuncDefClose, InFunction
<1>3. StmtsOk' /\ SymbolsOk' /\ InOrder' /\ FuncsInOrder' /\ SamePlaces
  <2>1. StatementAdded(stmt) /\ Plain(stmt)
    BY <1>1, EmitAdds DEF Plain
  <2> QED BY <1>1, <1>2, <2>1, PlainStmt
<1>4. PICK N \in Nat : N = Len(scopes) /\ HasLength(scopes, N) /\ N >= 1 /\ depth \in Nat /\ Base = N - depth
  BY <1>2, Lengths
<1>5. Base' = Base /\ \A k \in 1 .. Len(scopes') :
        scopes'[k] = <<>> \/ (k \in 1 .. Len(scopes) /\ scopes'[k] = scopes[k])
  <2>1. CASE BlockStmtOpen
    <3>1. Extended(scopes', scopes, N, <<>>) /\ depth' = depth + 1
      BY <1>4, <2>1, AppendExtends DEF BlockStmtOpen, PushTable
    <3>2. Len(scopes') = N + 1
      BY <3>1, LengthIs DEF Extended
    <3>3. \A k \in 1 .. N + 1 : k \in 1 .. N \/ k = N + 1
      BY <1>4
    <3> QED BY <1>4, <3>1, <3>2, <3>3 DEF Extended, Base
  <2>2. CASE BlockStmtClose \/ FuncDefClose
    <3>1. Shortened(scopes', scopes, N) /\ depth' = depth - 1
      BY <1>4, <2>2, FrontShortens DEF BlockStmtClose, FuncDefClose, PopTable
    <3>2. Len(scopes') = N - 1
      BY <3>1, LengthIs DEF Shortened
    <3>3. \A k \in 1 .. N - 1 : k \in 1 .. N
      BY <1>4
    <3> QED BY <1>4, <3>1, <3>2, <3>3 DEF Shortened, Base
  <2> QED BY <2>1, <2>2
<1>6. TablesOk' /\ TablesLeft'
  BY <1>2, <1>3, <1>5, TablesKept
<1> QED BY <1>3, <1>6 DEF ParsedInv

LEMMA SetsExist ==
  ASSUME StmtsOk, NEW j \in 1 .. Len(program), NEW e, Sets(j, e)
  PROVE  e \in 1 .. Len(symbols)
BY DEF StmtsOk, StmtOk, Sets, IsFunc, DeclOk, NodeOk, FuncOk, ParamOk

LEMMA FuncSyms ==
  ASSUME StmtsOk, NEW j \in 1 .. Len(program), IsFunc(j)
  PROVE  program[j].sym \in 1 .. Len(symbols) /\ program[j].params \in Nat
BY DEF StmtsOk, StmtOk, IsFunc, FuncOk

\* A declarator was added: a new statement, or one more node of the last.
DeclaratorAdded(n, last, entry) ==
  /\ n = Len(program) /\ last = Len(program') /\ (last = n + 1 \/ last = n)
  /\ last = n => n >= 1 /\ program[n].k = "decl"
  /\ \A i \in 1 .. n : i # last => program'[i] = program[i]
  /\ program'[last].k = "decl"
  /\ \A e : Sets(last, e)' <=> e = entry \/ (last = n /\ Sets(n, e))

LEMMA DeclaratorStays ==
  ASSUME NEW n \in Nat, NEW last, NEW entry, DeclaratorAdded(n, last, entry),
         NEW i \in 1 .. n
  PROVE  Stays(i)
<1>1. CASE i # last
  <2>1. program'[i] = program[i]
    BY <1>1 DEF DeclaratorAdded
  <2> QED BY <2>1 DEF Stays, Sets, IsFunc
<1>2. CASE i = last
  <2>1. last = n /\ i = n
    BY <1>2 DEF DeclaratorAdded
  <2> QED BY <2>1 DEF DeclaratorAdded, Stays, IsFunc
<1> QED BY <1>1, <1>2

LEMMA DeclaredKeeps ==
  ASSUME ScopesInv, ScopesInv', ParsedInv, NEW name, InstallVar(name), UNCHANGED depth,
         NEW n \in Nat, NEW last, DeclaratorAdded(n, last, Len(symbols) + 1), DeclOk(last)'
  PROVE  ParsedInv'
<1>1. PICK m \in Nat : m = Len(symbols) /\ HasLength(symbols, m)
  BY Lengths
<1>2. PICK N \in Nat : /\ N = Len(scopes) /\ HasLength(scopes, N) /\ Base = N - depth
                       /\ Base \in Nat /\ Base >= 1 /\ (depth > 0 => Base >= 2) /\ depth \in Nat
  BY Lengths
<1>3. /\ n = Len(program) /\ last = Len(program') /\ (last = n + 1 \/ last = n) /\ last \in Nat
      /\ last = n => n >= 1 /\ program[n].k = "decl"
      /\ \A i \in 1 .. n : i # last => program'[i] = program[i]
      /\ program'[last].k = "decl"
      /\ \A e : Sets(last, e)' <=> e = m + 1 \/ (last = n /\ Sets(n, e))
  BY <1>1 DEF DeclaratorAdded
<1>4. /\ Entered(scopes', scopes, N, name, m + 1)
      /\ Extended(symbols', symbols, m, Entry(name, scopes, IF InFunction THEN "local" ELSE "global"))
  BY <1>1, <1>2, InstallEnters, AppendExtends DEF InstallVar, NextEntry
<1>5. /\ Len(scopes') = N /\ Base' = Base
      /\ \A k \in 1 .. N - 1 : scopes'[k] = scopes[k]
      /\ DOMAIN scopes'[N] = DOMAIN scopes[N] \cup {name} /\ scopes'[N][name] = m + 1
      /\ \A x \in DOMAIN scopes[N] : x # name => scopes'[N][x] = scopes[N][x]
  BY <1>2, <1>4, LengthIs DEF Entered, Base
<1>6. /\ Len(symbols') = m + 1 /\ \A e \in 1 .. m : symbols'[e] = symbols[e]
      /\ symbols'[m + 1].place = (IF depth > 0 THEN "local" ELSE "global")
      /\ symbols'[m + 1].level = N - 1
  BY <1>2, <1>4, LengthIs DEF Extended, Entry, Level, InFunction
<1>7. \A i \in 1 .. n : Stays(i)
  BY DeclaratorStays
<1>8. ParsedStays
  <2>1. n <= last /\ m <= m + 1 /\ m + 1 \in Nat
    BY <1>1, <1>3
  <2> QED BY <1>1, <1>3, <1>6, <1>7, <2>1 DEF ParsedStays
<1>9. \A i \in 1 .. last : i = last \/ (i \in 1 .. n /\ i # last /\ program'[i] = program[i])
  BY <1>3
<1>10. StmtsOk'
  <2>1. StmtOk(last)'
    BY <1>3 DEF StmtOk, Kinds
  <2>2. ASSUME NEW i \in 1 .. n, i # last PROVE StmtOk(i)'
    <3>1. program'[i] = program[i] /\ i \in 1 .. Len(program) /\ StmtOk(i)
      BY <1>3, <2>2 DEF ParsedInv, StmtsOk
    <3> QED BY <1>8, <3>1, StmtStays
  <2> QED BY <1>3, <1>9, <2>1, <2>2 DEF StmtsOk
<1>11. SymbolsOk'
  <2> SUFFICES ASSUME NEW e \in 1 .. m + 1
               PROVE  /\ symbols'[e].level \in Nat /\ symbols'[e].place \in {"global", "local", "param"}
                      /\ symbols'[e].place # "global" => symbols'[e].level > 0
    BY <1>6 DEF SymbolsOk, Place
  <2>1. CASE e \in 1 .. m
    BY <1>1, <1>6, <2>1 DEF ParsedInv, SymbolsOk, Place
  <2>2. CASE e = m + 1
    BY <1>2, <1>6, <2>2
  <2> QED BY <2>1, <2>2
<1>12. \A i \in 1 .. last : IsFunc(i)' =>
         i \in 1 .. n /\ IsFunc(i) /\ program'[i] = program[i] /\ program[i].sym \in 1 .. m
  <2> SUFFICES ASSUME NEW i \in 1 .. last, IsFunc(i)'
               PROVE  i \in 1 .. n /\ IsFunc(i) /\ program'[i] = program[i] /\ program[i].sym \in 1 .. m
    OBVIOUS
  <2>1. i # last
    BY <1>3 DEF IsFunc
  <2>2. i \in 1 .. n /\ program'[i] = program[i]
    BY <1>9, <2>1
  <2>3. IsFunc(i)
    BY <2>2 DEF IsFunc
  <2> QED BY <1>1, <1>3, <2>2, <2>3, FuncSyms DEF ParsedInv
<1>13. \A j \in 1 .. last : \A e : Sets(j, e)' =>
         (e \in 1 .. m /\ j \in 1 .. n /\ Sets(j, e)) \/ (e = m + 1 /\ j = last)
  <2> SUFFICES ASSUME NEW j \in 1 .. last, NEW e, Sets(j, e)'
               PROVE  (e \in 1 .. m /\ j \in 1 .. n /\ Sets(j, e)) \/ (e = m + 1 /\ j = last)
    OBVIOUS
  <2>1. CASE j # last
    <3>1. j \in 1 .. n /\ Sets(j, e)
      BY <1>9, <2>1 DEF Sets, IsFunc
    <3> QED BY <1>1, <1>3, <3>1, SetsExist DEF ParsedInv
  <2>2. CASE j = last /\ e # m + 1
    <3>1. j = n /\ j \in 1 .. n /\ Sets(n, e)
      BY <1>3, <2>2
    <3> QED BY <1>1, <1>3, <3>1, SetsExist DEF ParsedInv
  <2>3. CASE j = last /\ e = m + 1
    BY <2>3
  <2> QED BY <2>1, <2>2, <2>3
<1>14. InOrder'
  <2> SUFFICES ASSUME NEW i \in 1 .. last, NEW j \in 1 .. last, NEW e \in 1 .. m + 1,
                      IsFunc(i)', Sets(j, e)'
               PROVE  IF i <= j THEN program'[i].sym < e ELSE e < program'[i].sym
    BY <1>3, <1>6 DEF InOrder, IsFunc
  <2>1. i \in 1 .. n /\ IsFunc(i) /\ program'[i] = program[i] /\ program[i].sym \in 1 .. m
    BY <1>12
  <2>2. CASE e \in 1 .. m /\ j \in 1 .. n /\ Sets(j, e)
    BY <1>1, <1>3, <2>1, <2>2 DEF ParsedInv, InOrder
  <2>3. CASE e = m + 1 /\ j = last
    BY <1>3, <2>1, <2>3
  <2> QED BY <1>13, <2>2, <2>3
<1>15. FuncsInOrder'
  <2> SUFFICES ASSUME NEW i \in 1 .. last, NEW j \in 1 .. last, i < j, IsFunc(i)', IsFunc(j)'
               PROVE  program'[i].sym < program'[j].sym
    BY <1>3 DEF FuncsInOrder, IsFunc
  <2> QED BY <1>3, <1>12 DEF ParsedInv, FuncsInOrder
<1>16. ASSUME NEW e, IsSet(e) \/ e = m + 1 PROVE IsSet(e)'
  <2>1. CASE e = m + 1
    <3>1. last \in 1 .. last
      BY <1>3
    <3> QED BY <1>3, <2>1, <3>1 DEF IsSet
  <2>2. CASE IsSet(e)
    <3>1. PICK j \in 1 .. n : Sets(j, e)
      BY <1>3, <2>2 DEF IsSet
    <3>2. Sets(j, e)' /\ j \in 1 .. last
      BY <1>3, <1>7, <3>1 DEF Stays
    <3> QED BY <1>3, <3>2 DEF IsSet
  <2> QED BY <1>16, <2>1, <2>2
<1>17. ASSUME NEW e, Youngest(e) \/ e = m + 1 PROVE Youngest(e)'
  <2> SUFFICES ASSUME NEW i \in 1 .. last, IsFunc(i)' PROVE program'[i].sym < e
    BY <1>3 DEF Youngest, IsFunc
  <2>1. i \in 1 .. n /\ IsFunc(i) /\ program'[i] = program[i] /\ program[i].sym \in 1 .. m
    BY <1>12
  <2> QED BY <1>3, <1>17, <2>1 DEF Youngest
<1>18. ASSUME NEW k \in 1 .. N, NEW x \in DOMAIN scopes'[k]
       PROVE  \/ k = N /\ x = name /\ scopes'[k][x] = m + 1
              \/ x \in DOMAIN scopes[k] /\ scopes'[k][x] = scopes[k][x]
  <2>1. k = N \/ k \in 1 .. N - 1
    BY <1>2
  <2> QED BY <1>5, <2>1
<1>19. TablesOk'
  <2>1. ASSUME NEW k \in 1 .. N, NEW x \in DOMAIN scopes'[k], x \notin Funcs,
               NEW e, e = scopes'[k][x]
        PROVE  IsSet(e)'
    <3>1. IsSet(e) \/ e = m + 1
      BY <1>2, <1>18, <2>1 DEF ParsedInv, TablesOk, EntriesSet
    <3> QED BY <1>16, <3>1
  <2>2. ASSUME NEW k \in Base + 1 .. N, NEW x \in DOMAIN scopes'[k],
               NEW e, e = scopes'[k][x]
        PROVE  Youngest(e)'
    <3>1. k \in 1 .. N
      BY <1>2
    <3>2. Youngest(e) \/ e = m + 1
      BY <1>2, <1>18, <2>2, <3>1 DEF ParsedInv, TablesOk, BodiesYoung
    <3> QED BY <1>17, <3>2
  <2>3. ASSUME NEW k \in 1 .. Base, NEW x \in DOMAIN scopes'[k]
        PROVE  symbols'[scopes'[k][x]].place # "local"
    <3>1. k \in 1 .. N
      BY <1>2
    <3>2. CASE k = N /\ scopes'[k][x] = m + 1
      <4>1. depth = 0
        BY <1>2, <3>2
      <4> QED BY <1>6, <3>2, <4>1
    <3>3. CASE x \in DOMAIN scopes[k] /\ scopes'[k][x] = scopes[k][x]
      <4>1. scopes[k][x] \in 1 .. m
        BY <1>1, <1>2, <3>1, <3>3 DEF ScopesInv, TablesInv, EntriesExist
      <4>2. symbols[scopes[k][x]].place # "local"
        BY <3>3 DEF ParsedInv, TablesOk, OutsideNoLocals, Place
      <4> QED BY <1>6, <3>3, <4>1, <4>2
    <3> QED BY <1>18, <3>1, <3>2, <3>3
  <2>4. EntriesSet'
    BY <1>5, <2>1 DEF EntriesSet, IsSet
  <2>5. BodiesYoung'
    BY <1>5, <2>2 DEF BodiesYoung, Youngest, IsFunc
  <2>6. OutsideNoLocals'
    BY <1>5, <2>3 DEF OutsideNoLocals, Place
  <2> QED BY <2>4, <2>5, <2>6 DEF TablesOk
<1>20. TablesLeft'
  <2>1. HasFunc' => HasFunc
    BY <1>3, <1>12 DEF HasFunc
  <2>2. HasFunc => HasFunc'
    <3> SUFFICES ASSUME NEW i \in 1 .. n, IsFunc(i) PROVE HasFunc'
      BY <1>3 DEF HasFunc
    <3>1. IsFunc(i)' /\ i \in 1 .. last
      BY <1>3, <1>7 DEF Stays, IsFunc
    <3> QED BY <1>3, <3>1 DEF HasFunc
  <2>3. CASE HasFunc
    <3>1. HasFunc' /\ Base >= 2
      BY <2>2, <2>3 DEF ParsedInv, TablesLeft
    <3> QED BY <1>5, <3>1 DEF TablesLeft
  <2>4. CASE ~HasFunc
    <3>1. ~HasFunc' /\ depth = 0 /\ Len(scopes) = 1
      BY <2>1, <2>4 DEF ParsedInv, TablesLeft
    <3> QED BY <1>2, <1>5, <3>1 DEF TablesLeft
  <2> QED BY <2>3, <2>4
<1> QED BY <1>10, <1>11, <1>14, <1>15, <1>19, <1>20 DEF ParsedInv

\* The node of a declarator: its initialiser was found.
LEMMA NewNodeOk ==
  ASSUME ScopesInv, ParsedInv, NEW name, InstallVar(name),
         NEW n \in Nat, NEW last, DeclaratorAdded(n, last, Len(symbols) + 1),
         NEW init, init # None => init \notin Funcs /\ Lookup(scopes, init) # None,
         NEW node, node = Node(init)
  PROVE  node.sym = Len(symbols) + 1 /\ NodeOk(node, last)'
         /\ \A i \in 1 .. n : \A other : NodeOk(other, i) => NodeOk(other, i)'
<1>1. PICK m \in Nat : m = Len(symbols) /\ HasLength(symbols, m)
  BY Lengths
<1>2. Extended(symbols', symbols, m, Entry(name, scopes, IF InFunction THEN "local" ELSE "global"))
  BY <1>1, AppendExtends DEF InstallVar
<1>3. /\ Len(symbols') = m + 1 /\ \A e \in 1 .. m : symbols'[e] = symbols[e]
      /\ symbols'[m + 1].place # "param"
  BY <1>2, LengthIs DEF Extended, Entry
<1>4. n = Len(program) /\ last = Len(program') /\ (last = n + 1 \/ last = n) /\ last \in Nat
  BY DEF DeclaratorAdded
<1>5. ParsedStays
  BY <1>1, <1>3, <1>4, DeclaratorStays DEF ParsedStays
<1>6. node.sym = m + 1 /\ node.init = IF init = None THEN None ELSE Lookup(scopes, init)
  BY <1>1 DEF Node, NextEntry
<1>7. ASSUME node.init # None PROVE Reachable(node.init, last)'
  <2>1. PICK e : e = node.init /\ e = Lookup(scopes, init) /\ init # None
    BY <1>6, <1>7
  <2>2. Reachable(e, n)
    BY <1>4, <2>1, LookupReachable
  <2>3. n \in 1 .. Len(program)
    BY <1>4, <2>2 DEF Reachable
  <2>4. Reachable(e, n)'
    BY <1>5, <2>2, <2>3, ReachableStays
  <2>5. \A j \in 1 .. n : j \in 1 .. last
    BY <1>4
  <2>6. \A j \in 1 .. last : j \in 1 .. n \/ program'[j].k = "decl"
    BY <1>4 DEF DeclaratorAdded
  <2>7. Reachable(e, last)'
    BY <2>4, <2>5, <2>6 DEF Reachable, IsFunc
  <2> QED BY <2>1, <2>7
<1>8. NodeOk(node, last)'
  BY <1>1, <1>3, <1>6, <1>7 DEF NodeOk, Place
<1> QED BY <1>1, <1>4, <1>5, <1>6, <1>8, NodeStays

LEMMA DeclKeeps ==
  ASSUME NamesDiffer, ScopesInv, ScopesInv', ParsedInv,
         NEW name \in Vars, NEW init \in Vars \cup {None},
         DeclStmt(name, init) \/ CommaDeclarator(name, init)
  PROVE  ParsedInv'
<1>1. UNCHANGED depth /\ rejected = "no"
  BY DEF DeclStmt, CommaDeclarator, DeclStmtNode, Parsing
<1>2. CASE UNCHANGED <<symbols, scopes, program>>
  BY <1>1, <1>2, NothingParsed
<1>3. CASE ~UNCHANGED <<symbols, scopes, program>>
  <2>1. InstallVar(name) /\ (init # None => Lookup(scopes, init) # None)
    BY <1>3 DEF DeclStmt, CommaDeclarator, DeclStmtNode, Reject
  <2>2. init # None => init \notin Funcs /\ Lookup(scopes, init) # None
    BY <2>1 DEF NamesDiffer
  <2>3. PICK n \in Nat : n = Len(program)
    BY Lengths
  <2>4. PICK node : node = Node(init)
    OBVIOUS
  <2>5. PICK m : m = Len(symbols) + 1
    OBVIOUS
  <2>6. node.sym = m
    BY <2>4, <2>5 DEF Node, NextEntry
  <2>7. CASE DeclStmt(name, init)
    <3>1. PICK stmt : stmt = [k |-> "decl", nodes |-> <<node>>]
      OBVIOUS
    <3>2. Emit(stmt)
      BY <1>3, <2>4, <2>7, <3>1 DEF DeclStmt, DeclStmtNode, Reject
    <3>3. /\ Len(program') = n + 1 /\ program'[n + 1] = stmt
          /\ \A i \in 1 .. n : program'[i] = program[i]
      BY <2>3, <3>2, EmitAdds DEF StatementAdded
    <3>4. /\ stmt.k = "decl" /\ Len(stmt.nodes) = 1 /\ HasLength(stmt.nodes, 1) /\ stmt.nodes[1] = node
          /\ \A l \in 1 .. 1 : stmt.nodes[l] = node
      BY <3>1 DEF HasLength
    <3>5. DeclaratorAdded(n, n + 1, m)
      BY <2>3, <2>6, <3>3, <3>4 DEF DeclaratorAdded, Sets, IsFunc
    <3>6. NodeOk(node, n + 1)'
      BY <2>1, <2>2, <2>3, <2>4, <2>5, <3>5, NewNodeOk
    <3>7. DeclOk(n + 1)'
      BY <3>3, <3>4, <3>6 DEF DeclOk
    <3> QED BY <1>1, <2>1, <2>3, <2>5, <3>5, <3>7, DeclaredKeeps
  <2>8. CASE CommaDeclarator(name, init)
    <3>1. /\ comma
          /\ program' = [program EXCEPT ![Len(program)].nodes = Append(@, node)]
      BY <1>3, <2>4, <2>8 DEF CommaDeclarator, DeclStmtNode, Reject
    <3>2. ProgramInv
      BY DEF ScopesInv
    <3>3. NodeAdded(n, node)
      BY <1>1, <2>3, <3>1, <3>2, CommaExtends
    <3>4. PICK heads : /\ program[n] = [k |-> "decl", nodes |-> heads]
                       /\ program'[n] = [k |-> "decl", nodes |-> Append(heads, node)]
      BY <3>3 DEF NodeAdded
    <3>5. /\ n >= 1 /\ Len(program') = n
          /\ \A i \in 1 .. n : i # n => program'[i] = program[i]
      BY <3>3 DEF NodeAdded
    <3>6. DeclOk(n)
      BY <2>3, <3>4, <3>5 DEF ParsedInv, StmtsOk, StmtOk
    <3>7. PICK l \in Nat : /\ l = Len(heads) /\ l >= 1 /\ HasLength(heads, l)
                           /\ \A j \in 1 .. l : NodeOk(heads[j], n)
      BY <3>4, <3>6 DEF DeclOk
    <3>8. PICK more : more = Append(heads, node)
      OBVIOUS
    <3>9. /\ HasLength(more, l + 1) /\ Len(more) = l + 1 /\ more[l + 1] = node
          /\ \A j \in 1 .. l : more[j] = heads[j]
      <4>1. Extended(more, heads, l, node)
        BY <3>7, <3>8, AppendExtends
      <4> QED BY <4>1, LengthIs DEF Extended
    <3>10. /\ program'[n].k = "decl" /\ program'[n].nodes = more
          /\ program[n].k = "decl" /\ program[n].nodes = heads
      BY <3>4, <3>8
    <3>11. \A j \in 1 .. l + 1 : j \in 1 .. l \/ j = l + 1
      BY <3>7
    <3>12. \A e : Sets(n, e)' <=> e = m \/ Sets(n, e)
      <4>1. ASSUME NEW e
            PROVE  Sets(n, e)' <=> \E j \in 1 .. l + 1 : more[j].sym = e
        BY <3>9, <3>10 DEF Sets, IsFunc
      <4>2. ASSUME NEW e
            PROVE  Sets(n, e) <=> \E j \in 1 .. l : heads[j].sym = e
        BY <3>7, <3>10 DEF Sets, IsFunc
      <4>3. \A j \in 1 .. l : j \in 1 .. l + 1
        BY <3>7
      <4>4. l + 1 \in 1 .. l + 1
        BY <3>7
      <4> QED BY <2>6, <3>9, <3>11, <4>1, <4>2, <4>3, <4>4
    <3>13. DeclaratorAdded(n, n, m)
      BY <2>3, <3>5, <3>10, <3>12 DEF DeclaratorAdded
    <3>14. NodeOk(node, n)' /\ \A other : NodeOk(other, n) => NodeOk(other, n)'
      <4>1. n \in 1 .. n
        BY <3>5
      <4> QED BY <2>1, <2>2, <2>3, <2>4, <2>5, <3>13, <4>1, NewNodeOk
    <3>15. \A j \in 1 .. l + 1 : NodeOk(more[j], n)'
      BY <3>7, <3>9, <3>11, <3>14
    <3>16. DeclOk(n)'
      BY <3>7, <3>9, <3>10, <3>15 DEF DeclOk
    <3> QED BY <1>1, <2>1, <2>3, <2>5, <3>13, <3>16, DeclaredKeeps
  <2> QED BY <2>7, <2>8
<1> QED BY <1>2, <1>3

LEMMA FuncKeeps ==
  ASSUME ScopesInv, ParsedInv, NEW f \in Funcs, NEW params \in ParamLists, FuncDefOpen(f, params)
  PROVE  ParsedInv'
<1>1. PICK m, N, n, q : /\ m = Len(symbols) /\ N = Len(scopes) /\ n = Len(params)
                        /\ q = Len(program)
  OBVIOUS
<1>2. FunctionOpened(f, ToSet(params), m, N, n) /\ EntriesOpened(m, N, n)
  BY <1>1, FuncDefOpenIs DEF ScopesInv
<1>3. /\ m \in Nat /\ N \in Nat /\ N >= 1 /\ n \in Nat /\ q \in Nat
      /\ depth = 0 /\ Base = N /\ Base' = N + 1 /\ NextEntry = m + 1
  BY <1>1, <1>2, Lengths DEF FunctionOpened
<1>4. PICK stmt : stmt = [k |-> "func", name |-> f, sym |-> m + 1, params |-> n]
  OBVIOUS
<1>5. stmt.k = "func" /\ stmt.sym = m + 1 /\ stmt.params = n
  BY <1>4
<1>6. /\ Len(program') = q + 1 /\ program'[q + 1] = stmt
      /\ \A i \in 1 .. q : program'[i] = program[i]
  <2>1. Emit(stmt)
    BY <1>1, <1>3, <1>4 DEF FuncDefOpen
  <2> QED BY <1>1, <2>1, EmitAdds DEF StatementAdded
<1>7. /\ Len(symbols') = m + 1 + n + n
      /\ \A e \in 1 .. m : symbols'[e] = symbols[e]
      /\ symbols'[m + 1].place = "global" /\ symbols'[m + 1].level = N - 1
      /\ \A e \in m + 2 .. m + 1 + n : symbols'[e].place = "param" /\ symbols'[e].level = N
      /\ \A e \in m + 2 + n .. m + 1 + n + n : symbols'[e].place = "local" /\ symbols'[e].level = N + 1
  BY <1>2 DEF EntriesOpened
<1>8. \A i \in 1 .. q : (IsFunc(i)' <=> IsFunc(i)) /\ \A e : Sets(i, e)' <=> Sets(i, e)
  BY <1>6 DEF IsFunc, Sets
<1>9. IsFunc(q + 1)' /\ \A e : Sets(q + 1, e)' <=>
        e \in m + 2 .. m + 1 + n \/ (n > 0 /\ e = m + 1 + n + n)
  <2>1. IsFunc(q + 1)'
    BY <1>5, <1>6 DEF IsFunc
  <2>2. ASSUME NEW e
        PROVE  Sets(q + 1, e)' <=> \E j \in 1 .. n : e = m + 1 + j \/ (j = n /\ e = m + 1 + n + j)
    BY <1>5, <1>6 DEF Sets, IsFunc
  <2>3. ASSUME NEW e \in m + 2 .. m + 1 + n
        PROVE  \E j \in 1 .. n : e = m + 1 + j
    <3>1. e - (m + 1) \in 1 .. n /\ e = m + 1 + (e - (m + 1))
      BY <1>3
    <3> QED BY <3>1
  <2>4. /\ \A j \in 1 .. n : m + 1 + j \in m + 2 .. m + 1 + n /\ n > 0
        /\ n > 0 => n \in 1 .. n
    BY <1>3
  <2> QED BY <2>1, <2>2, <2>3, <2>4
<1>10. ParsedStays
  BY <1>1, <1>3, <1>6, <1>7, <1>8 DEF ParsedStays, Stays, IsFunc
<1>11. \A i \in 1 .. q + 1 : i \in 1 .. q \/ i = q + 1
  BY <1>3
<1>12. \A e \in 1 .. m + 1 + n + n :
         \/ e \in 1 .. m \/ e = m + 1
         \/ e \in m + 2 .. m + 1 + n \/ e \in m + 2 + n .. m + 1 + n + n
  BY <1>3
<1>13. \A i \in 1 .. q : IsFunc(i) => program[i].sym \in 1 .. m
  BY <1>1, FuncSyms DEF ParsedInv
<1>14. \A i \in 1 .. q : \A e : Sets(i, e) => e \in 1 .. m
  BY <1>1, SetsExist DEF ParsedInv
<1>15. N = 1 <=> \A i \in 1 .. q : ~IsFunc(i)
  BY <1>1, <1>3 DEF ParsedInv, TablesLeft, HasFunc
<1>16. StmtsOk'
  <2>1. ASSUME NEW i \in 1 .. q PROVE StmtOk(i)'
    BY <1>1, <1>6, <1>10, StmtStays DEF ParsedInv, StmtsOk
  <2>2. ASSUME NEW j \in 1 .. n
        PROVE  /\ ParamOk(m + 1 + j, q + 1)'
               /\ m + 1 + n + j \in 1 .. m + 1 + n + n
               /\ symbols'[m + 1 + n + j].place = "local"
    <3>1. /\ m + 1 + j \in m + 2 .. m + 1 + n /\ m + 1 + j \in 1 .. m + 1 + n + n
          /\ m + 1 + n + j \in m + 2 + n .. m + 1 + n + n /\ m + 1 + n + j \in 1 .. m + 1 + n + n
          /\ q + 1 - 1 = q
      BY <1>3
    <3>2. N = 1 <=> \A i \in 1 .. q : ~IsFunc(i)'
      BY <1>8, <1>15
    <3>3. ASSUME NEW e, e = m + 1 + j
          PROVE  ParamOk(e, q + 1)'
      <4>1. e \in 1 .. Len(symbols') /\ symbols'[e].place = "param" /\ symbols'[e].level = N
        BY <1>7, <3>1, <3>3
      <4>2. FirstFunc(q + 1)' <=> \A i \in 1 .. q : ~IsFunc(i)'
        <5>1. ASSUME FirstFunc(q + 1)', NEW i \in 1 .. q PROVE ~IsFunc(i)'
          <6>1. i \in 1 .. q + 1 - 1
            BY <3>1
          <6> QED BY <1>3, <5>1, <6>1 DEF FirstFunc, IsFunc
        <5>2. ASSUME \A i \in 1 .. q : ~IsFunc(i)' PROVE FirstFunc(q + 1)'
          <6> SUFFICES ASSUME NEW i \in 1 .. q + 1 - 1 PROVE ~IsFunc(i)'
            BY <1>3 DEF FirstFunc, IsFunc
          <6> QED BY <3>1, <5>2
        <5> QED BY <5>1, <5>2
      <4>3. symbols'[e].level = 1 <=> FirstFunc(q + 1)'
        BY <3>2, <4>1, <4>2
      <4> QED BY <4>1, <4>3 DEF ParamOk, Place
    <3>4. ParamOk(m + 1 + j, q + 1)'
      BY <3>3
    <3>5. symbols'[m + 1 + n + j].place = "local"
      BY <1>7, <3>1
    <3> QED BY <3>1, <3>4, <3>5
  <2>3. FuncOk(q + 1)'
    <3>1. m + 1 \in 1 .. Len(symbols')
      BY <1>3, <1>7
    <3>2. program'[q + 1].params = n /\ program'[q + 1].sym = m + 1
      BY <1>5, <1>6
    <3>3. \A j \in 1 .. n :
            /\ ParamOk(m + 1 + j, q + 1)'
            /\ m + 1 + n + j \in 1 .. Len(symbols')
            /\ symbols'[m + 1 + n + j].place = "local"
      BY <1>7, <2>2
    <3> QED BY <1>3, <3>1, <3>2, <3>3 DEF FuncOk, Place
  <2>4. StmtOk(q + 1)'
    BY <1>5, <1>6, <2>3 DEF StmtOk, Kinds
  <2> QED BY <1>6, <1>11, <2>1, <2>4 DEF StmtsOk
<1>17. SymbolsOk'
  <2> SUFFICES ASSUME NEW e \in 1 .. m + 1 + n + n
               PROVE  /\ symbols'[e].level \in Nat /\ symbols'[e].place \in {"global", "local", "param"}
                      /\ symbols'[e].place # "global" => symbols'[e].level > 0
    BY <1>7 DEF SymbolsOk, Place
  <2>1. CASE e \in 1 .. m
    BY <1>1, <1>7, <2>1 DEF ParsedInv, SymbolsOk, Place
  <2>2. CASE e = m + 1
    BY <1>3, <1>7, <2>2
  <2>3. CASE e \in m + 2 .. m + 1 + n
    BY <1>3, <1>7, <2>3
  <2>4. CASE e \in m + 2 + n .. m + 1 + n + n
    BY <1>3, <1>7, <2>4
  <2> QED BY <1>12, <2>1, <2>2, <2>3, <2>4
<1>18. InOrder'
  <2> SUFFICES ASSUME NEW i \in 1 .. q + 1, NEW j \in 1 .. q + 1, NEW e \in 1 .. m + 1 + n + n,
                      IsFunc(i)', Sets(j, e)'
               PROVE  IF i <= j THEN program'[i].sym < e ELSE e < program'[i].sym
    BY <1>6, <1>7 DEF InOrder, IsFunc
  <2>1. CASE i \in 1 .. q /\ j \in 1 .. q
    BY <1>1, <1>6, <1>8, <1>14, <2>1 DEF ParsedInv, InOrder
  <2>2. CASE i = q + 1 /\ j \in 1 .. q
    <3>1. e \in 1 .. m
      BY <1>8, <1>14, <2>2
    <3> QED BY <1>3, <1>5, <1>6, <2>2, <3>1
  <2>3. CASE i \in 1 .. q /\ j = q + 1
    <3>1. program'[i].sym \in 1 .. m
      BY <1>6, <1>8, <1>13, <2>3
    <3>2. e \in m + 2 .. m + 1 + n + n
      BY <1>3, <1>9, <2>3
    <3> QED BY <1>3, <2>3, <3>1, <3>2
  <2>4. CASE i = q + 1 /\ j = q + 1
    <3>1. e \in m + 2 .. m + 1 + n + n
      BY <1>3, <1>9, <2>4
    <3> QED BY <1>3, <1>5, <1>6, <2>4, <3>1
  <2> QED BY <1>11, <2>1, <2>2, <2>3, <2>4
<1>19. FuncsInOrder'
  <2> SUFFICES ASSUME NEW i \in 1 .. q + 1, NEW j \in 1 .. q + 1, i < j, IsFunc(i)', IsFunc(j)'
               PROVE  program'[i].sym < program'[j].sym
    BY <1>6 DEF FuncsInOrder, IsFunc
  <2>1. i \in 1 .. q /\ IsFunc(i) /\ program'[i] = program[i] /\ program[i].sym \in 1 .. m
    BY <1>3, <1>6, <1>8, <1>13
  <2>2. CASE j \in 1 .. q
    BY <1>1, <1>6, <1>8, <2>1, <2>2 DEF ParsedInv, FuncsInOrder
  <2>3. CASE j = q + 1
    BY <1>3, <1>5, <1>6, <2>1, <2>3
  <2> QED BY <1>11, <2>2, <2>3
<1>20. ASSUME NEW e, IsSet(e) \/ e \in m + 2 .. m + 1 + n \/ (n > 0 /\ e = m + 1 + n + n)
       PROVE  IsSet(e)'
  <2>1. CASE e \in m + 2 .. m + 1 + n \/ (n > 0 /\ e = m + 1 + n + n)
    <3>1. q + 1 \in 1 .. q + 1
      BY <1>3
    <3> QED BY <1>6, <1>9, <2>1, <3>1 DEF IsSet
  <2>2. CASE IsSet(e)
    <3>1. PICK j \in 1 .. q : Sets(j, e)
      BY <1>1, <2>2 DEF IsSet
    <3>2. Sets(j, e)' /\ j \in 1 .. q + 1
      BY <1>3, <1>8, <3>1
    <3> QED BY <1>6, <3>2 DEF IsSet
  <2> QED BY <1>20, <2>1, <2>2
<1>21. /\ scopes'[N][f] = m + 1 /\ DOMAIN scopes'[N] = DOMAIN scopes[N] \cup {f}
       /\ \A k \in 1 .. N - 1 : scopes'[k] = scopes[k]
       /\ \A x \in DOMAIN scopes[N] : x # f => scopes'[N][x] = scopes[N][x]
       /\ Len(scopes') = N + 2
       /\ \A x \in DOMAIN scopes'[N + 1] : scopes'[N + 1][x] \in m + 2 .. m + 1 + n
       /\ \A x \in DOMAIN scopes'[N + 2] : n > 0 /\ scopes'[N + 2][x] = m + 1 + n + n
  BY <1>2 DEF FunctionOpened
<1>22. ASSUME NEW k \in 1 .. N, NEW x \in DOMAIN scopes'[k]
       PROVE  \/ x = f /\ scopes'[k][x] = m + 1
              \/ x \in DOMAIN scopes[k] /\ scopes'[k][x] = scopes[k][x]
  <2>1. k = N \/ k \in 1 .. N - 1
    BY <1>3
  <2> QED BY <1>21, <2>1
<1>23. TablesOk'
  <2>1. ASSUME NEW k \in 1 .. N + 2, NEW x \in DOMAIN scopes'[k], x \notin Funcs,
               NEW e, e = scopes'[k][x]
        PROVE  IsSet(e)'
    <3>1. CASE k \in 1 .. N
      <4>1. x \in DOMAIN scopes[k] /\ e = scopes[k][x]
        BY <1>22, <2>1, <3>1
      <4>2. IsSet(e)
        BY <1>1, <2>1, <3>1, <4>1 DEF ParsedInv, TablesOk, EntriesSet
      <4> QED BY <1>20, <4>2
    <3>2. CASE k = N + 1 \/ k = N + 2
      <4>1. e \in m + 2 .. m + 1 + n \/ (n > 0 /\ e = m + 1 + n + n)
        BY <1>21, <2>1, <3>2
      <4> QED BY <1>20, <4>1
    <3>3. k \in 1 .. N \/ k = N + 1 \/ k = N + 2
      BY <1>3
    <3> QED BY <3>1, <3>2, <3>3
  <2>2. ASSUME NEW k \in N + 1 + 1 .. N + 2, NEW x \in DOMAIN scopes'[k],
               NEW e, e = scopes'[k][x]
        PROVE  Youngest(e)'
    <3>1. k = N + 2
      BY <1>3
    <3>2. e \in m + 2 + n .. m + 1 + n + n
      BY <1>3, <1>21, <2>2, <3>1
    <3> SUFFICES ASSUME NEW i \in 1 .. q + 1, IsFunc(i)' PROVE program'[i].sym < e
      BY <1>6 DEF Youngest, IsFunc
    <3>3. CASE i = q + 1
      BY <1>3, <1>5, <1>6, <3>2, <3>3
    <3>4. CASE i \in 1 .. q
      <4>1. program'[i].sym \in 1 .. m
        BY <1>6, <1>8, <1>13, <3>4
      <4> QED BY <1>3, <3>2, <4>1
    <3> QED BY <1>11, <3>3, <3>4
  <2>3. ASSUME NEW k \in 1 .. N + 1, NEW x \in DOMAIN scopes'[k]
        PROVE  symbols'[scopes'[k][x]].place # "local"
    <3>1. CASE k = N + 1
      BY <1>7, <1>21, <3>1
    <3>2. CASE k \in 1 .. N /\ scopes'[k][x] = m + 1
      BY <1>7, <3>2
    <3>3. CASE k \in 1 .. N /\ x \in DOMAIN scopes[k] /\ scopes'[k][x] = scopes[k][x]
      <4>1. scopes[k][x] \in 1 .. m
        BY <1>1, <3>3 DEF ScopesInv, TablesInv, EntriesExist
      <4>2. symbols[scopes[k][x]].place # "local"
        BY <1>3, <3>3 DEF ParsedInv, TablesOk, OutsideNoLocals, Place
      <4> QED BY <1>7, <3>3, <4>1, <4>2
    <3>4. k = N + 1 \/ k \in 1 .. N
      BY <1>3
    <3> QED BY <1>22, <3>1, <3>2, <3>3, <3>4
  <2>4. EntriesSet'
    BY <1>3, <1>21, <2>1 DEF EntriesSet, IsSet, Sets, IsFunc
  <2>5. BodiesYoung'
    BY <1>3, <1>21, <2>2 DEF BodiesYoung, Youngest, IsFunc
  <2>6. OutsideNoLocals'
    BY <1>3, <1>21, <2>3 DEF OutsideNoLocals, Place
  <2> QED BY <2>4, <2>5, <2>6 DEF TablesOk
<1>24. TablesLeft'
  <2>1. HasFunc'
    <3>1. q + 1 \in 1 .. q + 1
      BY <1>3
    <3> QED BY <1>6, <1>9, <3>1 DEF HasFunc
  <2> QED BY <1>3, <2>1 DEF TablesLeft
<1> QED BY <1>16, <1>17, <1>18, <1>19, <1>23, <1>24 DEF ParsedInv

LEMMA ParsedInit == Init => ParsedInv
<1> SUFFICES ASSUME Init PROVE ParsedInv
  OBVIOUS
<1>1. /\ Len(program) = 0 /\ Len(symbols) = 0 /\ Len(scopes) = 1 /\ depth = 0 /\ Base = 1
      /\ \A k \in 1 .. 1 : DOMAIN scopes[k] = {}
  BY DEF Init, Base
<1> QED BY <1>1 DEF ParsedInv, StmtsOk, SymbolsOk, InOrder, FuncsInOrder, TablesOk, TablesLeft, HasFunc,
                      EntriesSet, BodiesYoung, OutsideNoLocals

LEMMA ParsedStep ==
  ASSUME NamesDiffer, ScopesInv, ScopesInv', ParsedInv, [Next]_vars
  PROVE  ParsedInv'
<1>1. CASE \E name \in Vars, init \in Vars \cup {None} :
             DeclStmt(name, init) \/ CommaDeclarator(name, init)
  BY <1>1, DeclKeeps
<1>2. CASE \E name \in Vars : Use(name) \/ Assign(name)
  BY <1>2, UseKeeps
<1>3. CASE BlockStmtOpen \/ BlockStmtClose \/ FuncDefClose
  BY <1>3, BlockKeeps
<1>4. CASE \E f \in Funcs, params \in ParamLists : FuncDefOpen(f, params)
  BY <1>4, FuncKeeps
<1>5. CASE UNCHANGED vars
  BY <1>5, NothingParsed DEF vars
<1> QED BY <1>1, <1>2, <1>3, <1>4, <1>5 DEF Next

-----------------------------------------------------------------------------
(***************************************************************************)
(* The addresses.  Each was set at its entry's statement, in the function  *)
(* that generates that statement, and every statement that is done has set *)
(* its own.                                                                *)
(***************************************************************************)
\* f is the function after statement j: the last that begins up to there.
LastFunc(j, f) ==
  \/ f = None /\ \A i \in 1 .. j : ~IsFunc(i)
  \/ \E i \in 1 .. j : /\ IsFunc(i) /\ f = program[i].sym
                       /\ \A h \in 1 .. j : IsFunc(h) => h <= i

Home(s, j) ==
  /\ j <= next /\ Sets(j, s)
  /\ \E f : LastFunc(j, f) /\ addr[s] = AddrOf(s, f)

IsDecl(j) == j \in 1 .. Len(program) /\ program[j].k = "decl"

Before == ~generating => next = 1 /\ left = 0 /\ func = None /\ addr = <<>> /\ accesses = {}

Position ==
  /\ next \in 1 .. Len(program) + 1
  /\ LastFunc(next - 1, func)
  /\ IsDecl(next) => left \in 1 .. Len(program[next].nodes)

AddressesSet ==
  /\ DOMAIN addr = 1 .. Len(symbols)
  /\ \A s \in 1 .. Len(symbols) : addr[s] # NullAddr => \E j \in 1 .. Len(program) : Home(s, j)
  /\ \A j \in 1 .. next - 1 : \A s : Sets(j, s) => addr[s] # NullAddr
  /\ IsDecl(next) => \A l \in left + 1 .. Len(program[next].nodes) :
                       addr[program[next].nodes[l].sym] # NullAddr

StorageInv ==
  /\ ScopesInv /\ ParsedInv
  /\ Before
  /\ generating => Position /\ AddressesSet
  /\ AccessesWork

-----------------------------------------------------------------------------
LEMMA AddressSet ==
  ASSUME ParsedInv, NEW s \in 1 .. Len(symbols), NEW f
  PROVE  /\ AddrOf(s, f) # NullAddr
         /\ symbols[s].level = 0 => AddrOf(s, f) = GlobalAddr
         /\ symbols[s].level = 1 => AddrOf(s, f) = ValueAddr(f)
         /\ symbols[s].level >= 2 => AddrOf(s, f) = StackAddr(f)
<1>1. symbols[s].level \in Nat
  BY DEF ParsedInv, SymbolsOk
<1>2. /\ symbols[s].level = 0 => AddrOf(s, f) = GlobalAddr
      /\ symbols[s].level = 1 => AddrOf(s, f) = ValueAddr(f)
      /\ symbols[s].level >= 2 => AddrOf(s, f) = StackAddr(f)
  BY <1>1 DEF AddrOf, IsGlobal, IsLocal, IsParam
<1>3. GlobalAddr # NullAddr /\ ValueAddr(f) # NullAddr /\ StackAddr(f) # NullAddr
  <2>1. GlobalAddr.at = "global" /\ ValueAddr(f).at = "value" /\ StackAddr(f).at = "stack"
    BY DEF GlobalAddr, ValueAddr, StackAddr
  <2>2. NullAddr.at = "null"
    BY DEF NullAddr
  <2> QED BY <2>1, <2>2
<1>4. symbols[s].level = 0 \/ symbols[s].level = 1 \/ symbols[s].level >= 2
  BY <1>1
<1> QED BY <1>2, <1>3, <1>4

\* There is one last function.
LEMMA LastFuncOne ==
  ASSUME NEW j \in Nat, NEW k \in Nat, j <= k, NEW f, NEW g,
         LastFunc(j, f), LastFunc(k, g), \A i \in 1 .. k : IsFunc(i) => i <= j,
         \A i \in 1 .. k : IsFunc(i) => program[i].sym # None
  PROVE  f = g
<1>1. \A i \in 1 .. k : IsFunc(i) => i \in 1 .. j
  OBVIOUS
<1>2. \A i \in 1 .. j : i \in 1 .. k
  OBVIOUS
<1>3. CASE \A i \in 1 .. k : ~IsFunc(i)
  BY <1>2, <1>3 DEF LastFunc
<1>4. CASE \E i \in 1 .. k : IsFunc(i)
  <2>1. PICK a \in 1 .. j : /\ IsFunc(a) /\ f = program[a].sym
                            /\ \A h \in 1 .. j : IsFunc(h) => h <= a
    BY <1>1, <1>4 DEF LastFunc
  <2>2. PICK b \in 1 .. k : /\ IsFunc(b) /\ g = program[b].sym
                            /\ \A h \in 1 .. k : IsFunc(h) => h <= b
    BY <1>4 DEF LastFunc
  <2>3. a <= b /\ b <= a
    BY <1>1, <1>2, <2>1, <2>2
  <2>4. a = b
    BY <2>3
  <2> QED BY <2>1, <2>2, <2>4
<1> QED BY <1>3, <1>4

\* The address of a parameter was set at its function.
LEMMA ParamHome ==
  ASSUME StorageInv, generating, NEW s \in 1 .. Len(symbols), Place(s) = "param", addr[s] # NullAddr
  PROVE  \E j \in 1 .. Len(program) :
           IsFunc(j) /\ ParamOk(s, j) /\ addr[s] = AddrOf(s, program[j].sym)
<1>1. PICK j \in 1 .. Len(program) : Home(s, j)
  BY DEF StorageInv, AddressesSet
<1>2. PICK f : LastFunc(j, f) /\ addr[s] = AddrOf(s, f)
  BY <1>1 DEF Home
<1>3. IsFunc(j)
  <2>1. program[j].k = "decl" => DeclOk(j)
    BY DEF StorageInv, ParsedInv, StmtsOk, StmtOk
  <2> QED BY <1>1, <2>1 DEF Home, Sets, DeclOk, NodeOk
<1>4. ParamOk(s, j)
  <2>1. FuncOk(j)
    BY <1>3 DEF StorageInv, ParsedInv, StmtsOk, StmtOk, IsFunc
  <2> QED BY <1>1, <1>3, <2>1 DEF Home, Sets, FuncOk, IsFunc
<1>5. f = program[j].sym
  <2>1. PICK i \in 1 .. j : IsFunc(i) /\ f = program[i].sym /\ \A h \in 1 .. j : IsFunc(h) => h <= i
    BY <1>2, <1>3 DEF LastFunc
  <2>2. i = j
    BY <1>3, <2>1
  <2> QED BY <2>1, <2>2
<1> QED BY <1>2, <1>3, <1>4, <1>5

\* An entry that the next statement may name has an address it may use.
LEMMA ReachableUsable ==
  ASSUME StorageInv, generating, next \in 1 .. Len(program), ~IsFunc(next),
         NEW s, Reachable(s, next), addr[s] # NullAddr
  PROVE  Usable(s) \/ ParamElsewhere(s) \/ (Place(s) = "global" /\ ~IsGlobal(symbols[s]))
<1>1. /\ s \in 1 .. Len(symbols) /\ symbols[s].level \in Nat
      /\ Place(s) \in {"global", "local", "param"}
      /\ Place(s) = "param" => symbols[s].level > 0
  BY DEF StorageInv, ParsedInv, SymbolsOk, Reachable
<1>2. PICK j \in 1 .. Len(program) : Home(s, j)
  BY <1>1 DEF StorageInv, AddressesSet
<1>3. PICK f : LastFunc(j, f) /\ addr[s] = AddrOf(s, f)
  BY <1>2 DEF Home
<1>6. CASE Place(s) = "param"
  <2>1. PICK g : addr[s] = AddrOf(s, g)
    BY <1>3
  <2>2. CASE symbols[s].level = 1
    <3>1. addr[s].at = "value"
      BY <1>1, <2>1, <2>2, AddressSet DEF StorageInv, ValueAddr
    <3> QED BY <1>6, <3>1 DEF ParamElsewhere, Place
  <2>3. CASE symbols[s].level >= 2
    <3>1. addr[s] = StackAddr(g)
      BY <1>1, <2>1, <2>3, AddressSet DEF StorageInv
    <3>2. addr[s].at = "stack" /\ addr[s].func = g
      BY <3>1 DEF StackAddr
    <3>3. g = func => Usable(s)
      BY <3>1 DEF Usable
    <3> QED BY <1>6, <3>2, <3>3 DEF ParamElsewhere, Place
  <2> QED BY <1>1, <1>6, <2>2, <2>3
<1>4. CASE Place(s) = "global"
  <2>1. CASE symbols[s].level = 0
    BY <1>1, <1>3, <2>1, AddressSet DEF StorageInv, Usable
  <2> QED BY <1>4, <2>1 DEF IsGlobal
<1>5. CASE Place(s) = "local"
  <2>1. symbols[s].level >= 2
    BY <1>1, <1>5 DEF StorageInv, ScopesInv, TablesInv, IsLocal, Place
  <2>2. \A i \in 1 .. Len(program) : i <= next /\ IsFunc(i) => i <= j
    <3>1. SUFFICES ASSUME NEW i \in 1 .. Len(program), i <= next, IsFunc(i), ~(i <= j) PROVE FALSE
      OBVIOUS
    <3>2. program[i].sym < s
      BY <1>5, <3>1 DEF Reachable
    <3>3. s < program[i].sym
      BY <1>1, <1>2, <3>1 DEF StorageInv, ParsedInv, InOrder, Home
    <3>4. program[i].sym \in Nat /\ s \in Nat
      BY <1>1, <3>1, FuncSyms DEF StorageInv, ParsedInv
    <3> QED BY <3>2, <3>3, <3>4
  <2>3. f = func
    <3>1. CASE j <= next - 1
      <4>1. PICK k \in Nat : k = next - 1
        OBVIOUS
      <4>2. LastFunc(k, func)
        BY <4>1 DEF StorageInv, Position
      <4>3. \A i \in 1 .. k : IsFunc(i) => i <= j /\ program[i].sym # None
        BY <2>2, <4>1, FuncSyms DEF StorageInv, ParsedInv, None
      <4> QED BY <1>3, <3>1, <4>1, <4>2, <4>3, LastFuncOne
    <3>2. CASE j = next
      <4>1. PICK k \in Nat : k = next - 1
        OBVIOUS
      <4>2. LastFunc(k, func)
        BY <4>1 DEF StorageInv, Position
      <4>3. \A i \in 1 .. j : IsFunc(i) => i <= k /\ program[i].sym # None
        <5>1. \A i \in 1 .. j : i \in 1 .. k \/ i = next
          BY <3>2, <4>1
        <5> QED BY <3>2, <4>1, <5>1, FuncSyms DEF StorageInv, ParsedInv, None
      <4> QED BY <1>3, <3>2, <4>1, <4>2, <4>3, LastFuncOne
    <3> QED BY <1>2, <3>1, <3>2 DEF Home
  <2> QED BY <1>1, <1>3, <2>1, <2>3, AddressSet DEF StorageInv, Usable
<1> QED BY <1>1, <1>4, <1>5, <1>6

-----------------------------------------------------------------------------
\* genCode leaves the program and its tables alone.
ParsedSame ==
  /\ ScopesInv' /\ ParsedInv'
  /\ UNCHANGED <<program, symbols>>
  /\ \A j, e : Sets(j, e)' <=> Sets(j, e)
  /\ \A j, f : LastFunc(j, f)' <=> LastFunc(j, f)
  /\ \A s, f : AddrOf(s, f)' = AddrOf(s, f)

LEMMA NothingChanges ==
  ScopesInv /\ ParsedInv /\ UNCHANGED vars => ScopesInv' /\ ParsedInv'
<1> SUFFICES ASSUME ScopesInv, ParsedInv, UNCHANGED vars PROVE ScopesInv' /\ ParsedInv'
  OBVIOUS
<1>1. ScopesInv'
  BY ScopesStep
<1>2. ParsedInv'
  BY NothingParsed DEF vars
<1> QED BY <1>1, <1>2

LEMMA GeneratesSame ==
  ASSUME StorageInv, UNCHANGED vars
  PROVE  ParsedSame
<1>1. ScopesInv' /\ ParsedInv'
  BY NothingChanges DEF StorageInv
<1>2. UNCHANGED <<program, symbols>>
  BY DEF vars
<1>3. \A j, e : Sets(j, e)' <=> Sets(j, e)
  BY <1>2 DEF Sets, IsFunc
<1>4. \A j, f : LastFunc(j, f)' <=> LastFunc(j, f)
  BY <1>2 DEF LastFunc, IsFunc
<1>5. \A s, f : AddrOf(s, f)' = AddrOf(s, f)
  BY <1>2 DEF AddrOf, IsGlobal, IsLocal, IsParam
<1> QED BY <1>1, <1>2, <1>3, <1>4, <1>5 DEF ParsedSame

LEMMA DeclaratorsLeft ==
  ASSUME ScopesInv, ParsedInv, NEW i
  PROVE  /\ IsDecl(i) => Declarators(i) \in 1 .. Len(program[i].nodes)
         /\ IsDecl(i) => Declarators(i) = Len(program[i].nodes) /\ Declarators(i) \in Nat
         /\ IsDecl(i) => Len(program[i].nodes) \in Nat
<1>1. DOMAIN program = 1 .. Len(program)
  BY Lengths
<1> QED BY <1>1 DEF Declarators, IsDecl, ParsedInv, StmtsOk, StmtOk, DeclOk

\* What a step does to the addresses: statement "next" may set some.
AddressesGrow ==
  /\ DOMAIN addr' = 1 .. Len(symbols)
  /\ \A s \in 1 .. Len(symbols) :
       \/ addr'[s] = addr[s]
       \/ Sets(next, s) /\ \E f : LastFunc(next, f) /\ addr'[s] = AddrOf(s, f)

LEMMA HomesKept ==
  ASSUME StorageInv, generating, ParsedSame, next \in 1 .. Len(program),
         next' = next \/ next' = next + 1, AddressesGrow
  PROVE  /\ \A s \in 1 .. Len(symbols') :
              addr'[s] # NullAddr => \E j \in 1 .. Len(program') : Home(s, j)'
         /\ \A s \in 1 .. Len(symbols) : addr[s] # NullAddr => addr'[s] # NullAddr
<1>1. Len(program) \in Nat
  BY Lengths DEF StorageInv
<1>2. UNCHANGED <<program, symbols>>
  BY DEF ParsedSame
<1>3. ASSUME NEW s \in 1 .. Len(symbols'), addr'[s] # NullAddr
      PROVE  \E j \in 1 .. Len(program') : Home(s, j)'
  <2>1. CASE addr'[s] = addr[s]
    <3>1. PICK j \in 1 .. Len(program) : Home(s, j)
      BY <1>2, <1>3, <2>1 DEF StorageInv, AddressesSet
    <3>2. PICK f : LastFunc(j, f) /\ addr[s] = AddrOf(s, f)
      BY <3>1 DEF Home
    <3>3. LastFunc(j, f)' /\ addr'[s] = AddrOf(s, f)' /\ Sets(j, s)'
      BY <2>1, <3>1, <3>2 DEF ParsedSame, Home
    <3>4. j <= next'
      BY <1>1, <3>1 DEF Home
    <3>5. Home(s, j)'
      BY <3>3, <3>4 DEF Home
    <3> QED BY <1>2, <3>5
  <2>2. CASE Sets(next, s) /\ \E f : LastFunc(next, f) /\ addr'[s] = AddrOf(s, f)
    <3>1. PICK f : LastFunc(next, f) /\ addr'[s] = AddrOf(s, f)
      BY <2>2
    <3>2. PICK j : j = next
      OBVIOUS
    <3>3. LastFunc(j, f)' /\ addr'[s] = AddrOf(s, f)' /\ Sets(j, s)'
      BY <2>2, <3>1, <3>2 DEF ParsedSame
    <3>4. j <= next' /\ j \in 1 .. Len(program')
      BY <1>1, <1>2, <3>2
    <3>5. Home(s, j)'
      BY <3>3, <3>4 DEF Home
    <3> QED BY <3>4, <3>5
  <2> QED BY <1>2, <1>3, <2>1, <2>2 DEF AddressesGrow
<1>4. ASSUME NEW s \in 1 .. Len(symbols), addr[s] # NullAddr PROVE addr'[s] # NullAddr
  BY <1>4, AddressSet DEF AddressesGrow, StorageInv
<1> QED BY <1>3, <1>4

\* "next" is done.
LEMMA StatementDone ==
  ASSUME StorageInv, generating, generating', ParsedSame, next \in 1 .. Len(program), Advance,
         LastFunc(next, func'), AddressesGrow,
         \A s : Sets(next, s) => addr'[s] # NullAddr
  PROVE  Before' /\ Position' /\ AddressesSet'
<1>1. Len(program) \in Nat /\ next' = next + 1 /\ UNCHANGED <<program, symbols>>
  BY Lengths DEF StorageInv, Advance, ParsedSame
<1>2. PICK n : n = next + 1
  OBVIOUS
<1>3. n \in 1 .. Len(program) + 1 /\ n - 1 = next /\ next' = n
  BY <1>1, <1>2
<1>4. IsDecl(n)' => IsDecl(n)
  BY <1>1 DEF IsDecl
<1>5. IsDecl(n) => left' \in 1 .. Len(program[n].nodes) /\ left' = Len(program[n].nodes)
                   /\ left' \in Nat
  <2>1. left' = Declarators(n)
    BY <1>2 DEF Advance
  <2> QED BY <2>1, DeclaratorsLeft DEF StorageInv
<1>6. Position'
  <2>1. PICK k, g : k = next /\ g = func' /\ LastFunc(k, g)'
    BY DEF ParsedSame
  <2>2. k = next' - 1
    BY <1>1, <2>1
  <2>3. LastFunc(next - 1, func)'
    BY <2>1, <2>2 DEF LastFunc
  <2> QED BY <1>1, <1>3, <1>4, <1>5, <2>3 DEF Position
<1>7. AddressesSet'
  <2>1. ASSUME NEW j \in 1 .. next, NEW s, Sets(j, s) PROVE addr'[s] # NullAddr
    <3>1. CASE j = next
      BY <2>1, <3>1
    <3>2. CASE j \in 1 .. next - 1
      <4>1. j \in 1 .. Len(program)
        BY <1>1, <3>2
      <4>2. s \in 1 .. Len(symbols) /\ addr[s] # NullAddr
        BY <2>1, <3>2, <4>1, SetsExist DEF StorageInv, ParsedInv, AddressesSet
      <4> QED BY <4>2, HomesKept, <1>1
    <3>3. j = next \/ j \in 1 .. next - 1
      BY <1>1
    <3> QED BY <3>1, <3>2, <3>3
  <2>2. IsDecl(n) => \A l \in left' + 1 .. Len(program[n].nodes) : FALSE
    BY <1>5
  <2> QED BY <1>1, <1>3, <1>4, <2>1, <2>2, HomesKept DEF AddressesSet, AddressesGrow, ParsedSame
<1>8. Before'
  BY DEF Before
<1> QED BY <1>6, <1>7, <1>8

\* The declaration goes on.
LEMMA DeclaratorDone ==
  ASSUME StorageInv, generating, generating', ParsedSame, IsDecl(next), UNCHANGED <<next, func>>,
         left' = left - 1, left > 1, AddressesGrow,
         addr'[program[next].nodes[left].sym] # NullAddr
  PROVE  Before' /\ Position' /\ AddressesSet'
<1>1. /\ Len(program) \in Nat /\ UNCHANGED <<program, symbols>>
      /\ next \in 1 .. Len(program) /\ next \in Nat
  BY Lengths DEF StorageInv, ParsedSame, IsDecl
<1>2. PICK n : n = Len(program[next].nodes)
  OBVIOUS
<1>3. n \in Nat /\ left \in 1 .. n /\ left' \in 1 .. n
  BY <1>2, DeclaratorsLeft DEF StorageInv, Position
<1>4. Position'
  <2>1. PICK k, g : k = next - 1 /\ g = func /\ LastFunc(k, g)'
    BY DEF ParsedSame, StorageInv, Position
  <2>2. LastFunc(next - 1, func)'
    BY <2>1 DEF LastFunc
  <2>3. next' \in 1 .. Len(program') + 1 /\ left' \in 1 .. Len(program'[next'].nodes)
    BY <1>1, <1>2, <1>3
  <2> QED BY <2>2, <2>3 DEF Position
<1>5. AddressesSet'
  <2>1. ASSUME NEW j \in 1 .. next - 1, NEW s, Sets(j, s) PROVE addr'[s] # NullAddr
    <3>1. j \in 1 .. Len(program)
      BY <1>1
    <3>2. s \in 1 .. Len(symbols) /\ addr[s] # NullAddr
      BY <2>1, <3>1, SetsExist DEF StorageInv, ParsedInv, AddressesSet
    <3> QED BY <1>1, <3>2, HomesKept
  <2>2. ASSUME NEW l \in left' + 1 .. n PROVE addr'[program[next].nodes[l].sym] # NullAddr
    <3>1. l = left \/ l \in left + 1 .. n
      BY <1>3
    <3>2. CASE l \in left + 1 .. n
      <4>1. PICK s : s = program[next].nodes[l].sym
        OBVIOUS
      <4>2. addr[s] # NullAddr
        BY <1>2, <3>2, <4>1 DEF StorageInv, AddressesSet
      <4>3. l \in 1 .. n
        BY <1>3
      <4>4. s \in 1 .. Len(symbols)
        BY <1>1, <1>2, <4>1, <4>3
           DEF StorageInv, ParsedInv, StmtsOk, StmtOk, DeclOk, NodeOk, IsDecl
      <4> QED BY <1>1, <4>1, <4>2, <4>4, HomesKept
    <3> QED BY <3>1, <3>2
  <2>3. \A j, s : Sets(j, s)' <=> Sets(j, s)
    BY DEF ParsedSame
  <2> QED BY <1>1, <1>2, <2>1, <2>2, <2>3, HomesKept DEF AddressesSet, AddressesGrow
<1>6. Before'
  BY DEF Before
<1> QED BY <1>4, <1>5, <1>6

\* A load or store of an entry the statement may name.
LEMMA AccessWorks ==
  ASSUME StorageInv, generating, ParsedSame, next \in 1 .. Len(program), ~IsFunc(next),
         next' = next \/ next' = next + 1, UNCHANGED func,
         NEW s, Reachable(s, next),
         addr'[s] = addr[s] \/ Sets(next, s)
  PROVE  \/ Usable(s)' \/ InThisDeclaration(s)' \/ ParamElsewhere(s)'
         \/ symbols'[s].place = "global" /\ ~IsGlobal(symbols'[s])
<1>1. /\ Len(program) \in Nat /\ UNCHANGED <<program, symbols>>
      /\ DOMAIN program = 1 .. Len(program)
  BY Lengths DEF StorageInv, ParsedSame
<1>2. PICK j \in 1 .. next : Sets(j, s)
  BY DEF Reachable
<1>3. CASE Sets(next, s)
  <2>1. PICK l \in 1 .. Len(program[next].nodes) : program[next].nodes[l].sym = s
    BY <1>3 DEF Sets
  <2>2. program[next].k = "decl"
    BY <1>3 DEF Sets
  <2>3. DOMAIN program[next].nodes = 1 .. Len(program[next].nodes)
    <3>1. DeclOk(next)
      BY <2>2 DEF StorageInv, ParsedInv, StmtsOk, StmtOk
    <3> QED BY <3>1, LengthIs DEF DeclOk
  <2>4. s \in {node.sym : node \in Range(program[next].nodes)}
    BY <2>1, <2>3 DEF Range
  <2>5. InThisDeclaration(s)'
    <3>1. PICK i : i = next
      OBVIOUS
    <3>2. i \in DOMAIN program' /\ program'[i].k = "decl"
      BY <1>1, <2>2, <3>1
    <3>3. s \in {node.sym : node \in Range(program'[i].nodes)}
      BY <1>1, <2>4, <3>1
    <3>4. i = next' \/ i = next' - 1
      BY <1>1, <3>1
    <3> QED BY <3>2, <3>3, <3>4 DEF InThisDeclaration, Stmts, Range
  <2> QED BY <2>5
<1>4. CASE ~Sets(next, s)
  <2>1. j \in 1 .. next - 1
    BY <1>1, <1>2, <1>4
  <2>2. addr[s] # NullAddr /\ addr'[s] = addr[s]
    BY <1>2, <1>4, <2>1 DEF StorageInv, AddressesSet
  <2>3. Usable(s) \/ ParamElsewhere(s) \/ (Place(s) = "global" /\ ~IsGlobal(symbols[s]))
    BY <2>2, ReachableUsable
  <2>4. (Usable(s) => Usable(s)') /\ (ParamElsewhere(s) => ParamElsewhere(s)')
    BY <1>1, <2>2 DEF Usable, ParamElsewhere, StackAddr
  <2> QED BY <1>1, <2>3, <2>4 DEF Place
<1> QED BY <1>3, <1>4

-----------------------------------------------------------------------------
LEMMA StartKeeps ==
  ASSUME StorageInv, StartGenCode
  PROVE  StorageInv'
<1>1. ParsedSame
  BY GeneratesSame DEF StartGenCode
<1>2. /\ ~generating /\ generating' /\ program # <<>> /\ left' = Declarators(1)
      /\ addr' = [s \in DOMAIN symbols |-> NullAddr]
      /\ UNCHANGED <<program, symbols>> /\ UNCHANGED <<next, func, accesses>>
  BY DEF StartGenCode, vars
<1>3. next = 1 /\ func = None /\ accesses = {}
  BY <1>2 DEF StorageInv, Before
<1>4. Len(program) \in Nat /\ DOMAIN symbols = 1 .. Len(symbols)
  BY Lengths DEF StorageInv
<1>5. Position'
  <2>1. IsDecl(1)' => left' \in 1 .. Len(program'[1].nodes)
    <3>1. PICK i : i = 1
      OBVIOUS
    <3>2. IsDecl(i) => left' \in 1 .. Len(program[i].nodes)
      BY <1>2, <3>1, DeclaratorsLeft DEF StorageInv
    <3> QED BY <1>2, <3>1, <3>2 DEF IsDecl
  <2>2. LastFunc(next - 1, func)'
    <3>1. next' = 1 /\ func' = None /\ next' - 1 = 0 /\ \A i \in 1 .. 0 : FALSE
      BY <1>2, <1>3
    <3> QED BY <3>1 DEF LastFunc
  <2> QED BY <1>2, <1>3, <1>4, <2>1, <2>2 DEF Position, IsDecl
<1>6. AddressesSet'
  <2>1. \A s \in 1 .. Len(symbols') : addr'[s] = NullAddr
    BY <1>2, <1>4
  <2>2. DOMAIN addr' = 1 .. Len(symbols')
    BY <1>2, <1>4
  <2>3. \A j \in 1 .. next' - 1 : FALSE
    BY <1>2, <1>3
  <2>4. IsDecl(next)' => \A l \in left' + 1 .. Len(program'[next'].nodes) : FALSE
    <3>1. PICK i : i = next'
      OBVIOUS
    <3>2. i = 1 /\ left' = Declarators(i)
      BY <1>2, <1>3, <3>1
    <3>3. IsDecl(i) => left' = Len(program[i].nodes) /\ left' \in Nat
      BY <3>2, DeclaratorsLeft DEF StorageInv
    <3> QED BY <1>2, <3>1, <3>3 DEF IsDecl
  <2> QED BY <2>1, <2>2, <2>3, <2>4 DEF AddressesSet
<1>7. Before' /\ AccessesWork'
  BY <1>2, <1>3 DEF Before, AccessesWork
<1> QED BY <1>1, <1>5, <1>6, <1>7 DEF StorageInv, ParsedSame

LEMMA GenDeclKeeps ==
  ASSUME StorageInv, GenDeclStmt
  PROVE  StorageInv'
<1>1. ParsedSame
  BY GeneratesSame DEF GenDeclStmt
<1>2. /\ Len(program) \in Nat /\ DOMAIN program = 1 .. Len(program)
      /\ UNCHANGED <<program, symbols>>
  BY <1>1, Lengths DEF StorageInv, ParsedSame
<1>3. /\ generating /\ generating' /\ UNCHANGED func
      /\ next \in 1 .. Len(program) /\ program[next].k = "decl" /\ IsDecl(next)
  BY <1>2 DEF GenDeclStmt, AtStmt, IsDecl
<1>4. PICK n : n = Len(program[next].nodes)
  OBVIOUS
<1>5. n \in Nat /\ left \in 1 .. n
  BY <1>3, <1>4, DeclaratorsLeft DEF StorageInv, Position
<1>6. PICK node : node = program[next].nodes[left]
  OBVIOUS
<1>7. NodeOk(node, next) /\ Sets(next, node.sym) /\ node.sym \in 1 .. Len(symbols)
  <2>1. NodeOk(node, next)
    BY <1>3, <1>4, <1>5, <1>6 DEF StorageInv, ParsedInv, StmtsOk, StmtOk, DeclOk
  <2>2. Sets(next, node.sym)
    BY <1>3, <1>4, <1>5, <1>6 DEF Sets
  <2> QED BY <2>1, <2>2 DEF NodeOk
<1>8. /\ addr' = [addr EXCEPT ![node.sym] = AddrOf(node.sym, func)]
      /\ accesses' = IF node.init # None /\ IsLocal(symbols[node.sym]) THEN {node.init} ELSE {}
  BY <1>6 DEF GenDeclStmt, Stmt
<1>9. DOMAIN addr = 1 .. Len(symbols)
  BY <1>3 DEF StorageInv, AddressesSet
<1>10. LastFunc(next, func)
  <2>1. LastFunc(next - 1, func)
    BY <1>3 DEF StorageInv, Position
  <2>2. ~IsFunc(next)
    BY <1>3 DEF IsFunc
  <2>3. next \in Nat /\ \A i \in 1 .. next : i \in 1 .. next - 1 \/ i = next
    BY <1>2, <1>3
  <2>4. \A i \in 1 .. next - 1 : i \in 1 .. next
    BY <2>3
  <2> QED BY <2>1, <2>2, <2>3, <2>4 DEF LastFunc
<1>11. addr'[node.sym] = AddrOf(node.sym, func) /\ addr'[node.sym] # NullAddr
  BY <1>7, <1>8, <1>9, AddressSet DEF StorageInv
<1>12. AddressesGrow
  BY <1>7, <1>8, <1>9, <1>10, <1>11 DEF AddressesGrow
<1>13. next' = next \/ next' = next + 1
  BY DEF GenDeclStmt, Advance
<1>14. Before' /\ Position' /\ AddressesSet'
  <2>1. CASE left > 1
    <3>1. left' = left - 1 /\ UNCHANGED next
      BY <2>1 DEF GenDeclStmt
    <3> QED BY <1>1, <1>3, <1>6, <1>11, <1>12, <2>1, <3>1, DeclaratorDone
  <2>2. CASE ~(left > 1)
    <3>1. Advance
      BY <2>2 DEF GenDeclStmt
    <3>2. ASSUME NEW s, Sets(next, s) PROVE addr'[s] # NullAddr
      <4>1. PICK l \in 1 .. n : program[next].nodes[l].sym = s
        BY <1>3, <1>4, <3>2 DEF Sets, IsFunc
      <4>2. l = left \/ l \in left + 1 .. n
        BY <1>5, <2>2
      <4>3. CASE l = left
        BY <1>6, <1>11, <4>1, <4>3
      <4>4. CASE l \in left + 1 .. n
        <5>1. addr[s] # NullAddr
          BY <1>3, <1>4, <4>1, <4>4 DEF StorageInv, AddressesSet
        <5>2. s \in 1 .. Len(symbols)
          BY <1>3, <3>2, SetsExist DEF StorageInv, ParsedInv
        <5> QED BY <1>1, <1>3, <1>12, <1>13, <5>1, <5>2, HomesKept
      <4> QED BY <4>2, <4>3, <4>4
    <3>3. LastFunc(next, func')
      BY <1>3, <1>10
    <3> QED BY <1>1, <1>3, <1>12, <3>1, <3>2, <3>3, StatementDone
  <2> QED BY <2>1, <2>2
<1>15. AccessesWork'
  <2> SUFFICES ASSUME NEW s \in accesses'
               PROVE  \/ Usable(s)' \/ InThisDeclaration(s)' \/ ParamElsewhere(s)'
                      \/ symbols'[s].place = "global" /\ ~IsGlobal(symbols'[s])
    BY DEF AccessesWork, IsGlobal
  <2>1. node.init # None /\ s = node.init
    BY <1>8
  <2>2. Reachable(s, next)
    BY <1>7, <2>1 DEF NodeOk
  <2>3. addr'[s] = addr[s] \/ Sets(next, s)
    BY <1>7, <1>12, <2>2 DEF AddressesGrow, Reachable
  <2>4. ~IsFunc(next)
    BY <1>3 DEF IsFunc
  <2> QED BY <1>1, <1>3, <1>13, <2>2, <2>3, <2>4, AccessWorks
<1> QED BY <1>1, <1>3, <1>14, <1>15 DEF StorageInv, ParsedSame

LEMMA GenFunctionKeeps ==
  ASSUME StorageInv, GenFunctionDef
  PROVE  StorageInv'
<1>1. ParsedSame
  BY GeneratesSame DEF GenFunctionDef
<1>2. /\ Len(program) \in Nat /\ DOMAIN program = 1 .. Len(program)
      /\ DOMAIN symbols = 1 .. Len(symbols)
  BY Lengths DEF StorageInv
<1>3. /\ generating /\ generating' /\ Advance /\ accesses' = {}
      /\ next \in 1 .. Len(program) /\ IsFunc(next)
  BY <1>2 DEF GenFunctionDef, AtStmt, IsFunc
<1>4. PICK m, n : m = program[next].sym /\ n = program[next].params
  OBVIOUS
<1>5. func' = m /\ m \in Nat /\ n \in Nat
  BY <1>3, <1>4, FuncSyms DEF GenFunctionDef, Stmt, StorageInv, ParsedInv
<1>6. LastFunc(next, func')
  <2>1. next \in 1 .. next /\ \A h \in 1 .. next : h <= next
    BY <1>2, <1>3
  <2> QED BY <1>3, <1>4, <1>5, <2>1 DEF LastFunc
<1>7. \A s : s \in Params \cup Copies <=> Sets(next, s)
  <2>1. \A s : Sets(next, s) <=> \E j \in 1 .. n : s = m + j \/ (j = n /\ s = m + n + j)
    BY <1>3, <1>4 DEF Sets, IsFunc
  <2>2. Params = {m + j : j \in 1 .. n} /\ Copies = IF n = 0 THEN {} ELSE {m + n + n}
    BY <1>4 DEF Params, Copies, Stmt
  <2>3. n = 0 \/ n \in 1 .. n
    BY <1>5
  <2>4. n = 0 => \A j \in 1 .. n : FALSE
    OBVIOUS
  <2> QED BY <2>1, <2>2, <2>3, <2>4
<1>8. addr' = [s \in 1 .. Len(symbols) |-> IF Sets(next, s) THEN AddrOf(s, m) ELSE addr[s]]
  BY <1>2, <1>4, <1>7 DEF GenFunctionDef, Stmt
<1>9. AddressesGrow
  BY <1>5, <1>6, <1>8 DEF AddressesGrow
<1>10. ASSUME NEW s, Sets(next, s) PROVE addr'[s] # NullAddr
  <2>1. s \in 1 .. Len(symbols)
    BY <1>3, <1>10, SetsExist DEF StorageInv, ParsedInv
  <2> QED BY <1>8, <1>10, <2>1, AddressSet DEF StorageInv
<1>11. Before' /\ Position' /\ AddressesSet'
  BY <1>1, <1>3, <1>6, <1>9, <1>10, StatementDone
<1>12. AccessesWork'
  BY <1>3 DEF AccessesWork
<1> QED BY <1>1, <1>3, <1>11, <1>12 DEF StorageInv, ParsedSame

LEMMA GenOtherKeeps ==
  ASSUME StorageInv, GenAccess \/ GenNothing
  PROVE  StorageInv'
<1>1. ParsedSame
  BY GeneratesSame DEF GenAccess, GenNothing
<1>2. Len(program) \in Nat /\ DOMAIN program = 1 .. Len(program)
  BY Lengths DEF StorageInv
<1>3. /\ generating /\ generating' /\ Advance /\ UNCHANGED <<func, addr>>
      /\ next \in 1 .. Len(program)
      /\ program[next].k \in {"use", "assign", "open", "close", "end"}
  BY <1>2 DEF GenAccess, GenNothing, AtStmt
<1>4. ~IsFunc(next) /\ \A s : ~Sets(next, s)
  BY <1>3 DEF IsFunc, Sets
<1>5. LastFunc(next, func')
  <2>1. LastFunc(next - 1, func) /\ func' = func
    BY <1>3 DEF StorageInv, Position
  <2>2. next \in Nat /\ \A i \in 1 .. next : i \in 1 .. next - 1 \/ i = next
    BY <1>2, <1>3
  <2>3. \A i \in 1 .. next - 1 : i \in 1 .. next
    BY <2>2
  <2> QED BY <1>4, <2>1, <2>2, <2>3 DEF LastFunc
<1>6. AddressesGrow
  BY <1>3 DEF AddressesGrow, StorageInv, AddressesSet
<1>7. Before' /\ Position' /\ AddressesSet'
  BY <1>1, <1>3, <1>4, <1>5, <1>6, StatementDone
<1>8. AccessesWork'
  <2>1. CASE GenNothing
    BY <2>1 DEF GenNothing, AccessesWork
  <2>2. CASE GenAccess
    <3>1. PICK s : accesses' = {s} /\ s = program[next].sym
      BY <2>2 DEF GenAccess, Stmt
    <3>2. program[next].k \in {"use", "assign"}
      BY <2>2 DEF GenAccess, AtStmt
    <3>3. Reachable(s, next)
      BY <1>3, <3>1, <3>2 DEF StorageInv, ParsedInv, StmtsOk, StmtOk
    <3>4. next' = next + 1 /\ addr'[s] = addr[s] /\ UNCHANGED func
      BY <1>3 DEF Advance
    <3>5. \/ Usable(s)' \/ InThisDeclaration(s)' \/ ParamElsewhere(s)'
          \/ symbols'[s].place = "global" /\ ~IsGlobal(symbols'[s])
      BY <1>1, <1>3, <1>4, <3>3, <3>4, AccessWorks
    <3> QED BY <3>1, <3>5 DEF AccessesWork, IsGlobal
  <2> QED BY <2>1, <2>2
<1> QED BY <1>1, <1>3, <1>7, <1>8 DEF StorageInv, ParsedSame

LEMMA StorageStarts == StorageInit => StorageInv
<1> SUFFICES ASSUME StorageInit PROVE StorageInv
  OBVIOUS
<1>1. ScopesInv /\ ParsedInv
  BY ScopesInit, ParsedInit DEF StorageInit
<1> QED BY <1>1 DEF StorageInit, StorageInv, Before, AccessesWork

LEMMA StorageStep == NamesDiffer /\ StorageInv /\ [StorageNext]_allVars => StorageInv'
<1> SUFFICES ASSUME NamesDiffer, StorageInv, [StorageNext]_allVars PROVE StorageInv'
  OBVIOUS
<1>1. CASE Parse
  <2>1. ScopesInv'
    BY <1>1, ScopesStep DEF Parse, StorageInv
  <2>2. ParsedInv'
    BY <1>1, <2>1, ParsedStep DEF Parse, StorageInv
  <2>3. ~generating' /\ accesses' = {} /\ Before'
    BY <1>1 DEF Parse, StorageInv, Before, storageVars
  <2> QED BY <2>1, <2>2, <2>3 DEF StorageInv, AccessesWork
<1>2. CASE StartGenCode
  BY <1>2, StartKeeps
<1>3. CASE GenDeclStmt
  BY <1>3, GenDeclKeeps
<1>4. CASE GenFunctionDef
  BY <1>4, GenFunctionKeeps
<1>5. CASE GenAccess \/ GenNothing
  BY <1>5, GenOtherKeeps
<1>6. CASE UNCHANGED allVars
  <2>1. ParsedSame /\ UNCHANGED storageVars
    BY <1>6, GeneratesSame DEF allVars
  <2>2. Before' /\ (generating' => Position')
    BY <2>1 DEF storageVars, StorageInv, Before, Position, ParsedSame, IsDecl, LastFunc, IsFunc
  <2>3. ASSUME generating PROVE AddressesSet'
    <3>1. ASSUME NEW s \in 1 .. Len(symbols'), addr'[s] # NullAddr
          PROVE  \E j \in 1 .. Len(program') : Home(s, j)'
      <4>1. PICK j \in 1 .. Len(program) : Home(s, j)
        BY <2>1, <2>3, <3>1 DEF storageVars, StorageInv, AddressesSet, ParsedSame
      <4>2. Home(s, j)'
        BY <2>1, <4>1 DEF storageVars, ParsedSame, Home
      <4> QED BY <2>1, <4>2 DEF ParsedSame
    <3>2. \A j, s : Sets(j, s)' <=> Sets(j, s)
      BY <2>1 DEF ParsedSame
    <3> QED BY <2>1, <2>3, <3>1, <3>2
            DEF storageVars, StorageInv, AddressesSet, ParsedSame, IsDecl
  <2>4. AccessesWork'
    BY <2>1 DEF storageVars, StorageInv, AccessesWork, ParsedSame, Usable, InThisDeclaration,
                ParamElsewhere, Stmts, IsGlobal
  <2> QED BY <2>1, <2>2, <2>3, <2>4 DEF storageVars, StorageInv, ParsedSame
<1> QED BY <1>1, <1>2, <1>3, <1>4, <1>5, <1>6 DEF StorageNext

LEMMA AddressesCorrect ==
  ASSUME NamesDiffer
  PROVE  StorageSpec => []StorageInv
<1>1. StorageInv /\ [StorageNext]_allVars => StorageInv'
  BY StorageStep
<1> QED BY <1>1, StorageStarts, PTL DEF StorageSpec

(***************************************************************************)
(* genCode finds an address for every entry a statement loads or stores,   *)
(* and it is one of the current function, with the exceptions that         *)
(* AccessesWork names.  A function's name is no variable's: the parser     *)
(* would let a statement use one, and a function has no address.           *)
(***************************************************************************)
THEOREM AddressesWork ==
  ASSUME NamesDiffer
  PROVE  StorageSpec => []AccessesWork
BY AddressesCorrect, PTL DEF StorageInv

LEMMA ParamsArrive == StorageInv => OnlyFirstParamsArrive
<1> SUFFICES ASSUME StorageInv, NEW s \in DOMAIN addr, Place(s) = "param", addr[s] # NullAddr
             PROVE  addr[s].at = "value" <=>
                      \A i \in Stmts("func") : addr[s].func <= program[i].sym
  BY DEF OnlyFirstParamsArrive, Place
<1>1. generating
  BY DEF StorageInv, Before
<1>2. /\ Len(program) \in Nat /\ DOMAIN program = 1 .. Len(program) /\ s \in 1 .. Len(symbols)
      /\ Len(symbols) \in Nat
  BY <1>1, Lengths DEF StorageInv, AddressesSet
<1>3. PICK j \in 1 .. Len(program) :
        IsFunc(j) /\ ParamOk(s, j) /\ addr[s] = AddrOf(s, program[j].sym)
  BY <1>1, <1>2, ParamHome
<1>4. PICK f : f = program[j].sym
  OBVIOUS
<1>8. \A i \in Stmts("func") : i \in 1 .. Len(program) /\ IsFunc(i)
  BY <1>2 DEF Stmts, IsFunc
<1>9. \A i \in 1 .. Len(program) : IsFunc(i) => i \in Stmts("func") /\ program[i].sym \in Nat
  BY <1>2, FuncSyms DEF Stmts, IsFunc, StorageInv, ParsedInv
<1>10. symbols[s].level \in Nat /\ symbols[s].level > 0
  BY <1>2 DEF StorageInv, ParsedInv, SymbolsOk
<1>11. CASE symbols[s].level = 1
  <2>1. addr[s].at = "value" /\ addr[s].func = f
    BY <1>2, <1>3, <1>4, <1>11, AddressSet DEF StorageInv, ValueAddr
  <2>2. ASSUME NEW i \in Stmts("func") PROVE f <= program[i].sym
    <3>1. j = i \/ j < i
      <4>1. ~(i \in 1 .. j - 1)
        BY <1>3, <1>8, <1>11, <2>2 DEF ParamOk, FirstFunc
      <4> QED BY <1>2, <1>8, <2>2, <4>1
    <3>2. j < i => program[j].sym < program[i].sym
      BY <1>3, <1>8, <2>2 DEF StorageInv, ParsedInv, FuncsInOrder
    <3> QED BY <1>3, <1>4, <1>8, <1>9, <2>2, <3>1, <3>2
  <2> QED BY <2>1, <2>2
<1>12. CASE symbols[s].level >= 2
  <2>1. addr[s].at = "stack" /\ addr[s].func = f
    BY <1>2, <1>3, <1>4, <1>12, AddressSet DEF StorageInv, StackAddr
  <2>2. PICK i \in 1 .. j - 1 : IsFunc(i)
    BY <1>3, <1>12 DEF ParamOk, FirstFunc
  <2>3. i \in 1 .. Len(program) /\ i < j
    BY <1>2, <2>2
  <2>4. program[i].sym < program[j].sym /\ i \in Stmts("func")
    BY <1>3, <1>9, <2>2, <2>3 DEF StorageInv, ParsedInv, FuncsInOrder
  <2> QED BY <1>3, <1>4, <1>9, <2>1, <2>2, <2>3, <2>4
<1> QED BY <1>10, <1>11, <1>12

(***************************************************************************)
(* DeclStmt::genCode and FunctionDef::genCode take the parameters of the   *)
(* first function for values, and give those of every later one the        *)
(* address of a stack slot instead.                                        *)
(***************************************************************************)
THEOREM FirstParamsArrive ==
  ASSUME NamesDiffer
  PROVE  StorageSpec => []OnlyFirstParamsArrive
BY AddressesCorrect, ParamsArrive, PTL

-----------------------------------------------------------------------------
(***************************************************************************)
(* The semantic checks reject only wrong programs, see every error but     *)
(* those of seven kinds and fold constants to their value, for every       *)
(* literal, every signature and programs of every size.                    *)
(***************************************************************************)
\* What the checker knows of a tree, against its source text: its constants,
\* and the errors that stop it.
OkTrees == {t \in Subtrees :
  /\ ~t.stops /\ t.errors = {} =>
       t.cbcai = (t.constant /\ ~t.named) /\ (t.cbcai => t.cbcaivalue = t.value)
  /\ t.stops => t.errors # {}
  /\ ~t.stops => t.errors \subseteq {"hidden zero divisor"}
  /\ t.constant => t.type = "int" /\ t.errors = {}}

TreesOk == operands \in Seq(OkTrees) /\ Len(operands) <= MaxOperands

\* The globals of Ast.cpp against the function the source text is in.
FunctionsOk ==
  /\ current \in {NoFunction} \cup [ret : {"int", "void"}, returned : BOOLEAN]
  /\ returnType \in {"null", "int", "void"}
  /\ funcs \in Nat /\ intFuncs \in Nat /\ hasMain \in BOOLEAN /\ funcReturned \in BOOLEAN
  /\ (returnType = "null") = (funcs = 0)
  /\ Inside => returnType = current.ret

\* While no function of type int has ended, funcReturned means what it says.
ReturnsOk ==
  /\ current.returned => funcReturned
  /\ returnType = "int" /\ ~Inside => intFuncs > 0
  /\ verdict = "open" /\ intFuncs = 0 /\ funcReturned =>
       Inside /\ current.ret = "int" /\ current.returned

VerdictOk ==
  /\ verdict \in {"open", "rejected", "accepted"}
  /\ verdict = "rejected" => errors # {}
  /\ verdict # "rejected" => errors \subseteq Unseen

CheckInv == TreesOk /\ FunctionsOk /\ ReturnsOk /\ VerdictOk

-----------------------------------------------------------------------------
(***************************************************************************)
(* Every node makes a good tree of good subtrees.                          *)
(***************************************************************************)
LEMMA MeaningInt ==
  ASSUME NEW op \in Operators, NEW a \in Int, NEW b \in Int
  PROVE  Meaning(op, a, b) \in Int
<1>1. Magnitude(a) \in Nat /\ Magnitude(b) \in Nat /\ (b # 0 => Magnitude(b) > 0)
  BY DEF Magnitude
<1>2. b # 0 => Magnitude(a) \div Magnitude(b) \in Int
  BY <1>1
<1>3. Quotient(a, b) \in Int
  BY <1>2 DEF Quotient
<1>4. b * Quotient(a, b) \in Int /\ a * b \in Int
  BY <1>3
<1>5. CASE op = "add"
  BY <1>5 DEF Meaning
<1>6. CASE op = "sub"
  BY <1>6 DEF Meaning
<1>7. CASE op = "mul"
  BY <1>4, <1>7 DEF Meaning
<1>8. CASE op = "div"
  BY <1>3, <1>8 DEF Meaning
<1>9. CASE op = "mod"
  BY <1>4, <1>9 DEF Meaning
<1> QED BY <1>5, <1>6, <1>7, <1>8, <1>9 DEF Operators

LEMMA SignInt ==
  ASSUME NEW f \in {"neg", "pos", "not"}, NEW v \in Int
  PROVE  SignOf(f, v) \in Int
<1>1. CASE f = "neg"
  BY <1>1 DEF SignOf
<1>2. CASE f = "pos"
  BY <1>2 DEF SignOf
<1>3. CASE f = "not"
  BY <1>3 DEF SignOf
<1> QED BY <1>1, <1>2, <1>3

LEMMA LeavesOk ==
  /\ \A v \in Literals : ConstantTree(v) \in OkTrees
  /\ Tree("id", "int", FALSE, {}) \in OkTrees
  /\ \A v \in Named : ConstIdTree(v) \in OkTrees
<1>1. \A v \in Literals : ConstantTree(v) \in Subtrees
  BY SourceAssumption DEF ConstantTree, Subtrees
<1>2. Tree("id", "int", FALSE, {}) \in Subtrees
  BY DEF Tree, Subtrees
<1>3. \A v \in Named : ConstIdTree(v) \in Subtrees
  BY SourceAssumption DEF ConstIdTree, Subtrees
<1> QED BY <1>1, <1>2, <1>3 DEF ConstantTree, Tree, ConstIdTree, OkTrees

LEMMA BinaryOk ==
  ASSUME NEW op \in Operators, NEW l \in OkTrees, NEW r \in OkTrees
  PROVE  BinaryTree(op, l, r) \in OkTrees
<1> DEFINE t == BinaryTree(op, l, r)
<1>1. /\ l.cbcaivalue \in Int /\ r.cbcaivalue \in Int /\ l.value \in Int /\ r.value \in Int
      /\ l \in Subtrees /\ r \in Subtrees
  BY DEF OkTrees, Subtrees
<1>2. /\ Meaning(op, l.value, r.value) \in Int
      /\ Fold(op, l.cbcaivalue, r.cbcaivalue) \in Int
      /\ Fold(op, l.cbcaivalue, r.cbcaivalue) = Meaning(op, l.cbcaivalue, r.cbcaivalue)
  BY <1>1, MeaningInt DEF Fold
<1>3. /\ t.sym = "temp" /\ t.type = "int"
      /\ t.cbcai = (l.cbcai /\ r.cbcai)
      /\ t.cbcaivalue = IF l.cbcai /\ r.cbcai THEN Fold(op, l.cbcaivalue, r.cbcaivalue) ELSE 0
      /\ t.stops = BinaryStops(op, l, r)
      /\ t.constant = (l.constant /\ r.constant /\ ~ByZero(op, r))
      /\ t.value = IF l.constant /\ r.constant THEN Meaning(op, l.value, r.value) ELSE 0
      /\ t.named = (l.named \/ r.named)
      /\ t.errors = BinaryErrors(op, l, r)
  BY DEF BinaryTree
<1>4. t \in Subtrees
  <2>1. BinaryErrors(op, l, r) \subseteq TreeErrors
    BY <1>1 DEF BinaryErrors, ZeroError, TreeErrors, Subtrees
  <2>2. /\ (l.cbcai /\ r.cbcai) \in BOOLEAN
        /\ BinaryStops(op, l, r) \in BOOLEAN
        /\ (l.constant /\ r.constant /\ ~ByZero(op, r)) \in BOOLEAN
        /\ (l.named \/ r.named) \in BOOLEAN
    BY DEF BinaryStops
  <2> QED BY <1>2, <2>1, <2>2 DEF BinaryTree, Subtrees
<1>5. ASSUME ~t.stops, t.errors = {}
      PROVE  t.cbcai = (t.constant /\ ~t.named) /\ (t.cbcai => t.cbcaivalue = t.value)
  <2>1. ~l.stops /\ ~r.stops /\ l.errors = {} /\ r.errors = {} /\ ~ByZero(op, r)
    BY <1>3, <1>5 DEF BinaryStops, BinaryErrors
  <2>2. /\ l.cbcai = (l.constant /\ ~l.named) /\ (l.cbcai => l.cbcaivalue = l.value)
        /\ r.cbcai = (r.constant /\ ~r.named) /\ (r.cbcai => r.cbcaivalue = r.value)
    BY <2>1 DEF OkTrees
  <2> QED BY <1>1, <1>2, <1>3, <2>1, <2>2
<1>6. t.stops => t.errors # {}
  <2> SUFFICES ASSUME t.stops, t.errors = {} PROVE FALSE
    OBVIOUS
  <2>1. /\ l.errors = {} /\ r.errors = {} /\ ~ByZero(op, r) /\ "void" \notin {l.type, r.type}
    BY <1>3 DEF BinaryErrors
  <2>2. ~l.stops /\ ~r.stops /\ (r.cbcai => r.constant /\ r.cbcaivalue = r.value)
    BY <2>1 DEF OkTrees, Subtrees
  <2> QED BY <1>3, <2>1, <2>2 DEF BinaryStops, ByZero
<1>7. ~t.stops => t.errors \subseteq {"hidden zero divisor"}
  <2> SUFFICES ASSUME ~t.stops PROVE t.errors \subseteq {"hidden zero divisor"}
    OBVIOUS
  <2>1. /\ ~l.stops /\ ~r.stops /\ "void" \notin {l.type, r.type}
        /\ ~(op = "div" /\ r.cbcai /\ r.cbcaivalue = 0)
        /\ ~(op = "mod" /\ l.cbcai /\ r.cbcai /\ r.cbcaivalue = 0)
    BY <1>3 DEF BinaryStops
  <2>2. /\ l.errors \subseteq {"hidden zero divisor"} /\ r.errors \subseteq {"hidden zero divisor"}
        /\ l.constant => l.cbcai = ~l.named
        /\ r.constant => r.cbcai = ~r.named /\ (r.cbcai => r.cbcaivalue = r.value)
    BY <2>1 DEF OkTrees, Subtrees
  <2>3. ByZero(op, r) => ZeroError(op, l, r) = "hidden zero divisor"
    BY <2>1, <2>2 DEF ByZero, ZeroError
  <2> QED BY <1>3, <2>1, <2>2, <2>3 DEF BinaryErrors
<1>8. t.constant => t.type = "int" /\ t.errors = {}
  BY <1>3 DEF BinaryErrors, OkTrees, Subtrees
<1> QED BY <1>4, <1>5, <1>6, <1>7, <1>8 DEF OkTrees

LEMMA CondOk ==
  ASSUME NEW l \in OkTrees, NEW r \in OkTrees
  PROVE  CondTree(l, r) \in OkTrees
<1>1. ~ByZero("rel", r)
  BY DEF ByZero
<1>2. l \in Subtrees /\ r \in Subtrees
  BY DEF OkTrees
<1>3. CondTree(l, r) \in Subtrees
  <2>1. BinaryErrors("rel", l, r) \subseteq TreeErrors
    BY <1>1, <1>2 DEF BinaryErrors, TreeErrors, Subtrees
  <2>2. BinaryStops("rel", l, r) \in BOOLEAN
    BY DEF BinaryStops
  <2> QED BY <2>1, <2>2 DEF CondTree, Tree, Subtrees
<1> QED BY <1>1, <1>3 DEF OkTrees, CondTree, Tree, BinaryStops, BinaryErrors

LEMMA UnaryOk ==
  ASSUME NEW f \in {"neg", "pos", "not"}, NEW t \in OkTrees
  PROVE  UnaryTree(f, t) \in OkTrees
<1> DEFINE u == UnaryTree(f, t)
<1>1. t \in Subtrees /\ (t.constant => t.type = "int" /\ t.errors = {})
  BY DEF OkTrees
<1>2. SignOf(f, t.value) \in Int /\ SignOf(f, t.cbcaivalue) \in Int
  BY <1>1, SignInt DEF Subtrees
<1>3. u \in Subtrees
  <2>1. t.errors \cup (IF t.type = "void" THEN {"void operand"} ELSE {}) \subseteq TreeErrors
    BY <1>1 DEF Subtrees, TreeErrors
  <2>2. (t.stops \/ t.type = "void") \in BOOLEAN
    OBVIOUS
  <2>3. /\ (IF f # "not" /\ t.sym # "temp" THEN t.sym ELSE "temp") \in {"const", "id", "temp", "rel"}
        /\ (IF t.cbcai THEN SignOf(f, t.cbcaivalue) ELSE 0) \in Int
        /\ (IF t.constant THEN SignOf(f, t.value) ELSE 0) \in Int
        /\ t.cbcai \in BOOLEAN /\ t.constant \in BOOLEAN /\ t.named \in BOOLEAN
    BY <1>1, <1>2 DEF Subtrees
  <2> QED BY <2>1, <2>2, <2>3, Zenon DEF UnaryTree, Subtrees, FoldUnary
<1>4. /\ u.type = "int" /\ u.cbcai = t.cbcai /\ u.constant = t.constant /\ u.named = t.named
      /\ u.cbcaivalue = IF t.cbcai THEN SignOf(f, t.cbcaivalue) ELSE 0
      /\ u.value = IF t.constant THEN SignOf(f, t.value) ELSE 0
      /\ u.stops = (t.stops \/ t.type = "void")
      /\ u.errors = t.errors \cup (IF t.type = "void" THEN {"void operand"} ELSE {})
  BY <1>1 DEF UnaryTree, Subtrees, FoldUnary
<1> QED BY <1>1, <1>3, <1>4 DEF OkTrees

LEMMA CallOk ==
  ASSUME NEW sig \in Signatures, NEW args \in Seq(OkTrees)
  PROVE  CallTree(sig, args) \in OkTrees
<1> DEFINE c == CallTree(sig, args)
<1>1. sig[1] \in {"int", "void"}
  BY SourceAssumption
<1>2. ToSet(args) \subseteq OkTrees
  BY DEF ToSet
<1>3. \A a \in ToSet(args) : /\ a \in Subtrees
                             /\ a.stops => a.errors # {}
                             /\ ~a.stops => a.errors \subseteq {"hidden zero divisor"}
  BY <1>2 DEF OkTrees
<1>4. c \in Subtrees
  <2>1. (UNION {a.errors : a \in ToSet(args)}) \cup (IF Mismatch(sig, args) THEN {"arguments"} ELSE {})
          \subseteq TreeErrors
    <3>1. \A a \in ToSet(args) : a.errors \subseteq TreeErrors
      BY <1>3 DEF Subtrees
    <3> QED BY <3>1 DEF TreeErrors
  <2>2. (Mismatch(sig, args) \/ \E a \in ToSet(args) : a.stops) \in BOOLEAN
    OBVIOUS
  <2> QED BY <1>1, <2>1, <2>2 DEF CallTree, Tree, Subtrees, Mismatch
<1>5. /\ c.cbcai = FALSE /\ c.constant = FALSE
      /\ c.stops = (Mismatch(sig, args) \/ \E a \in ToSet(args) : a.stops)
      /\ c.errors = (UNION {a.errors : a \in ToSet(args)}) \cup
           (IF Mismatch(sig, args) THEN {"arguments"} ELSE {})
  BY DEF CallTree, Tree, Mismatch
<1>6. c.stops => c.errors # {}
  <2>1. CASE Mismatch(sig, args)
    <3>1. "arguments" \in c.errors
      BY <1>5, <2>1
    <3> QED BY <3>1
  <2>2. ASSUME NEW a \in ToSet(args), a.stops PROVE c.errors # {}
    <3>1. PICK e : e \in a.errors
      BY <1>3, <2>2
    <3> QED BY <1>5, <3>1
  <2> QED BY <1>5, <2>1, <2>2
<1>7. ~c.stops => c.errors \subseteq {"hidden zero divisor"}
  BY <1>3, <1>5
<1> QED BY <1>4, <1>5, <1>6, <1>7 DEF OkTrees

LEMMA NoTrees == <<>> \in Seq(OkTrees) /\ Len(<<>>) <= MaxOperands
BY SourceAssumption

LEMMA ReduceKeeps ==
  ASSUME CheckInv, NEW n \in Nat, NEW t \in OkTrees, Reduce(n, t)
  PROVE  CheckInv'
<1>1. operands \in Seq(OkTrees) /\ Len(operands) \in Nat /\ Len(operands) >= n
  BY DEF CheckInv, TreesOk, Reduce
<1>2. /\ Below(n) \in Seq(OkTrees)
      /\ Len(Below(n)) = Len(operands) - n
  <2>1. \A i \in 1 .. Len(operands) - n : operands[i] \in OkTrees
    BY <1>1
  <2>2. SubSeq(operands, 1, Len(operands) - n) \in Seq(OkTrees)
    BY <1>1, <2>1, SubSeqProperties
  <2>3. Len(SubSeq(operands, 1, Len(operands) - n)) = Len(operands) - n
    BY <1>1, <2>1, SubSeqProperties
  <2> QED BY <2>2, <2>3 DEF Below
<1>3. TreesOk'
  BY <1>1, <1>2, SourceAssumption DEF Reduce, TreesOk
<1>4. FunctionsOk' /\ ReturnsOk' /\ VerdictOk'
  BY DEF CheckInv, FunctionsOk, ReturnsOk, VerdictOk, Reduce, Inside
<1> QED BY <1>3, <1>4 DEF CheckInv

LEMMA TopsOk ==
  ASSUME CheckInv
  PROVE  /\ operands # <<>> => Top \in OkTrees
         /\ Len(operands) >= 2 => Top \in OkTrees /\ Second \in OkTrees
<1>1. operands \in Seq(OkTrees) /\ Len(operands) \in Nat
  BY DEF CheckInv, TreesOk
<1>2. operands # <<>> => Len(operands) >= 1
  BY <1>1
<1>3. Len(operands) >= 1 => operands[Len(operands)] \in OkTrees
  BY <1>1
<1>4. Len(operands) >= 2 => operands[Len(operands) - 1] \in OkTrees
  BY <1>1
<1> QED BY <1>1, <1>2, <1>3, <1>4 DEF Top, Second, Last

LEMMA NodesKeep ==
  ASSUME CheckInv,
         \/ Constant \/ Id \/ CondExpr
         \/ \E op \in Operators : BinaryExpr(op)
         \/ \E f \in {"neg", "pos", "not"} : UnaryExpr(f)
         \/ \E sig \in Signatures, n \in 0 .. MaxOperands : FuncCallExp(sig, n)
  PROVE  CheckInv'
<1>1. CASE Constant
  BY <1>1, LeavesOk, ReduceKeeps DEF Constant
<1>2. CASE Id
  BY <1>2, LeavesOk, ReduceKeeps DEF Id
<1>3. CASE CondExpr
  <2>1. CondTree(Second, Top) \in OkTrees
    BY <1>3, TopsOk, CondOk DEF CondExpr
  <2> QED BY <1>3, <2>1, ReduceKeeps DEF CondExpr
<1>4. ASSUME NEW op \in Operators, BinaryExpr(op) PROVE CheckInv'
  <2>1. BinaryTree(op, Second, Top) \in OkTrees
    BY <1>4, TopsOk, BinaryOk DEF BinaryExpr
  <2> QED BY <1>4, <2>1, ReduceKeeps DEF BinaryExpr
<1>5. ASSUME NEW f \in {"neg", "pos", "not"}, UnaryExpr(f) PROVE CheckInv'
  <2>1. UnaryTree(f, Top) \in OkTrees
    BY <1>5, TopsOk, UnaryOk DEF UnaryExpr
  <2> QED BY <1>5, <2>1, ReduceKeeps DEF UnaryExpr
<1>6. ASSUME NEW sig \in Signatures, NEW n \in 0 .. MaxOperands, FuncCallExp(sig, n)
      PROVE  CheckInv'
  <2> DEFINE args == SubSeq(operands, Len(operands) - n + 1, Len(operands))
  <2>1. operands \in Seq(OkTrees) /\ Len(operands) \in Nat /\ n \in Nat /\ Len(operands) >= n
    BY <1>6, SourceAssumption DEF CheckInv, TreesOk, FuncCallExp
  <2>2. \A i \in Len(operands) - n + 1 .. Len(operands) : operands[i] \in OkTrees
    BY <2>1
  <2>3. args \in Seq(OkTrees)
    BY <2>1, <2>2, SubSeqProperties
  <2>4. CallTree(sig, args) \in OkTrees
    BY <2>3, CallOk
  <2> QED BY <1>6, <2>1, <2>4, ReduceKeeps DEF FuncCallExp
<1> QED BY <1>1, <1>2, <1>3, <1>4, <1>5, <1>6

-----------------------------------------------------------------------------
(***************************************************************************)
(* Statements and functions.                                               *)
(***************************************************************************)
LEMMA TreeFacts ==
  ASSUME CheckInv, OneTree
  PROVE  /\ Top.type \in {"int", "void"} /\ Top.stops \in BOOLEAN
         /\ Top.stops => Top.errors # {}
         /\ ~Top.stops => Top.errors \subseteq {"hidden zero divisor"}
<1>1. Top \in OkTrees
  BY TopsOk DEF OneTree
<1> QED BY <1>1 DEF OkTrees, Subtrees

\* A statement that stops the compiler has an error, and the errors of one
\* that does not are unseen ones.
LEMMA StatementKeeps ==
  ASSUME CheckInv, NEW stops \in BOOLEAN, NEW found, Statement(stops, found),
         stops => found # {}, ~stops => found \subseteq Unseen
  PROVE  TreesOk' /\ VerdictOk'
<1>1. operands' = <<>>
  BY DEF Statement
<1>2. TreesOk'
  BY <1>1, NoTrees DEF TreesOk
<1>3. VerdictOk'
  BY DEF Statement, CheckInv, VerdictOk
<1> QED BY <1>2, <1>3

LEMMA KeepFunctionKeeps ==
  ASSUME CheckInv, NEW stops, NEW found, Statement(stops, found), KeepFunction
  PROVE  FunctionsOk' /\ ReturnsOk'
BY DEF CheckInv, FunctionsOk, ReturnsOk, Statement, KeepFunction, Inside

LEMMA PlainStatementsKeep ==
  ASSUME CheckInv, ExprStmt \/ AssignStmt \/ CheckDeclStmt \/ IfStmt \/ IfElseStmt \/ WhileStmt
  PROVE  CheckInv'
<1>1. /\ Top.type \in {"int", "void"} /\ Top.stops \in BOOLEAN
      /\ Top.stops => Top.errors # {}
      /\ ~Top.stops => Top.errors \subseteq {"hidden zero divisor"}
  BY TreeFacts DEF ExprStmt, AssignStmt, CheckDeclStmt, IfStmt, IfElseStmt, WhileStmt, OneExp
<1>2. CASE ExprStmt
  <2>1. TreesOk' /\ VerdictOk'
    BY <1>1, <1>2, StatementKeeps DEF ExprStmt, Unseen
  <2> QED BY <1>2, <2>1, KeepFunctionKeeps DEF ExprStmt, CheckInv
<1>3. CASE AssignStmt
  <2>1. TreesOk' /\ VerdictOk'
    BY <1>1, <1>3, StatementKeeps DEF AssignStmt, VoidIs, Unseen
  <2> QED BY <1>3, <2>1, KeepFunctionKeeps DEF AssignStmt, CheckInv
<1>4. CASE CheckDeclStmt
  <2>1. TreesOk' /\ VerdictOk'
    BY <1>1, <1>4, StatementKeeps DEF CheckDeclStmt, Unseen
  <2> QED BY <1>4, <2>1, KeepFunctionKeeps DEF CheckDeclStmt, CheckInv
<1>5. CASE IfStmt
  <2>1. (Top.stops \/ Top.type = "void") \in BOOLEAN
    OBVIOUS
  <2>2. TreesOk' /\ VerdictOk'
    BY <1>1, <1>5, <2>1, StatementKeeps DEF IfStmt, VoidIs, Unseen
  <2> QED BY <1>5, <2>2, KeepFunctionKeeps DEF IfStmt, CheckInv
<1>6. CASE IfElseStmt
  <2>1. TreesOk' /\ VerdictOk'
    BY <1>1, <1>6, StatementKeeps DEF IfElseStmt, VoidIs, Unseen
  <2> QED BY <1>6, <2>1, KeepFunctionKeeps DEF IfElseStmt, CheckInv
<1>7. CASE WhileStmt
  <2>1. TreesOk' /\ VerdictOk'
    BY <1>1, <1>7, StatementKeeps DEF WhileStmt, VoidIs, Unseen
  <2> QED BY <1>7, <2>1, KeepFunctionKeeps DEF WhileStmt, CheckInv
<1> QED BY <1>2, <1>3, <1>4, <1>5, <1>6, <1>7

\* An open verdict needs returnType = "int"; outside, an int function has
\* ended then.
LEMMA ReturnStmtKeeps ==
  ASSUME CheckInv, ReturnStmt
  PROVE  CheckInv'
<1> DEFINE stops == returnType # "int" \/ Top.stops \/ Top.type = "void"
<1>1. /\ Top.type \in {"int", "void"} /\ Top.stops \in BOOLEAN
      /\ Top.stops => Top.errors # {}
      /\ ~Top.stops => Top.errors \subseteq {"hidden zero divisor"}
  BY TreeFacts DEF ReturnStmt, OneExp
<1>2. CASE Inside
  <2>1. current \in [ret : {"int", "void"}, returned : BOOLEAN] /\ returnType = current.ret
    BY <1>2 DEF CheckInv, FunctionsOk, Inside
  <2>2. ReturnErrors = VoidIs("void returned") \cup
          IF current.ret = "void" THEN {"value from void function"} ELSE {}
    <3>1. CASE current.ret = "void"
      BY <2>1, <3>1, <1>2 DEF ReturnErrors, Inside, NoFunction
    <3>2. CASE current.ret = "int"
      BY <2>1, <3>2, <1>2 DEF ReturnErrors, Inside, NoFunction
    <3> QED BY <2>1, <3>1, <3>2
  <2>3. stops => ReturnErrors # {}
    BY <1>1, <2>1, <2>2 DEF VoidIs
  <2>4. ~stops => ReturnErrors \subseteq Unseen
    BY <1>1, <2>1, <2>2 DEF VoidIs, Unseen
  <2>5. stops \in BOOLEAN
    OBVIOUS
  <2>6. TreesOk' /\ VerdictOk'
    BY <2>3, <2>4, <2>5, StatementKeeps DEF ReturnStmt
  <2>7. current' = [ret |-> current.ret, returned |-> TRUE] /\ current' # NoFunction
    BY <1>2, <2>1 DEF ReturnStmt, NoFunction
  <2>8. FunctionsOk'
    BY <1>2, <2>1, <2>7 DEF ReturnStmt, Statement, CheckInv, FunctionsOk, Inside
  <2>9. ReturnsOk'
    BY <1>2, <2>1, <2>7 DEF ReturnStmt, Statement, CheckInv, ReturnsOk, Inside
  <2> QED BY <2>6, <2>8, <2>9 DEF CheckInv
<1>3. CASE ~Inside
  <2>1. current = NoFunction /\ current' = current /\ intFuncs \in Nat
    BY <1>3 DEF Inside, ReturnStmt, CheckInv, FunctionsOk
  <2>2. ReturnErrors = VoidIs("void returned") \cup
          IF intFuncs = 0 THEN {"return outside"} ELSE {"return behind"}
    BY <2>1 DEF ReturnErrors, NoFunction
  <2>3. returnType = "int" => intFuncs > 0
    BY <1>3 DEF CheckInv, ReturnsOk
  <2>4. stops => ReturnErrors # {}
    BY <2>2
  <2>5. ~stops => ReturnErrors \subseteq Unseen
    <3> SUFFICES ASSUME ~stops PROVE ReturnErrors \subseteq Unseen
      OBVIOUS
    <3>1. intFuncs # 0
      BY <2>1, <2>3
    <3>2. ReturnErrors = VoidIs("void returned") \cup {"return behind"}
      BY <2>2, <3>1
    <3>3. VoidIs("void returned") \subseteq {"hidden zero divisor"}
      BY <1>1 DEF VoidIs
    <3> QED BY <3>2, <3>3 DEF Unseen
  <2>6. stops \in BOOLEAN
    OBVIOUS
  <2>7. TreesOk' /\ VerdictOk'
    BY <2>4, <2>5, <2>6, StatementKeeps DEF ReturnStmt
  <2>8. FunctionsOk'
    BY <2>1 DEF ReturnStmt, Statement, CheckInv, FunctionsOk, Inside
  <2>9. ReturnsOk'
    BY <1>3, <2>1, <2>3 DEF ReturnStmt, Statement, CheckInv, ReturnsOk, Inside, NoFunction
  <2> QED BY <2>7, <2>8, <2>9 DEF CheckInv
<1> QED BY <1>2, <1>3

LEMMA FunctionDefKeeps ==
  ASSUME CheckInv, NEW ret \in {"int", "void"}, NEW params \in 0 .. 1, NEW isMain \in BOOLEAN,
         FunctionDef(ret, params, isMain)
  PROVE  CheckInv'
<1>1. /\ returnType' = ret /\ current' = [ret |-> ret, returned |-> FALSE]
      /\ UNCHANGED <<operands, funcReturned, intFuncs>>
  BY DEF FunctionDef, RetType, FunctionType
<1>2. current' # NoFunction /\ current'.ret = ret /\ current'.returned = FALSE
  BY <1>1 DEF NoFunction
<1>3. ~Inside
  BY DEF FunctionDef, Inside
<1>4. TreesOk'
  BY <1>1 DEF CheckInv, TreesOk
<1>5. FunctionsOk'
  <2>1. funcs' = funcs + 1 /\ hasMain' = (hasMain \/ isMain)
    BY DEF FunctionDef
  <2>2. (hasMain \/ isMain) \in BOOLEAN
    OBVIOUS
  <2> QED BY <1>1, <1>2, <2>1, <2>2 DEF CheckInv, FunctionsOk, Inside
<1>6. ReturnsOk'
  BY <1>1, <1>2, <1>3 DEF FunctionDef, CheckInv, ReturnsOk, FunctionsOk, Inside
<1>7. VerdictOk'
  BY DEF FunctionDef, CheckInv, VerdictOk
<1> QED BY <1>4, <1>5, <1>6, <1>7 DEF CheckInv

\* Until an int function has ended, funcReturned tells of the function that
\* ends here.
LEMMA EndFunctionKeeps ==
  ASSUME CheckInv, EndFunction
  PROVE  CheckInv'
<1>1. /\ current \in [ret : {"int", "void"}, returned : BOOLEAN]
      /\ returnType = current.ret /\ current' = NoFunction
      /\ UNCHANGED <<operands, returnType, funcReturned, hasMain, funcs>>
      /\ intFuncs' = IF current.ret = "int" THEN intFuncs + 1 ELSE intFuncs
      /\ intFuncs \in Nat
  BY DEF EndFunction, CheckInv, FunctionsOk, Inside
<1>2. TreesOk'
  BY <1>1 DEF CheckInv, TreesOk
<1>3. FunctionsOk'
  BY <1>1 DEF CheckInv, FunctionsOk, Inside
<1>4. ReturnsOk'
  <2>1. intFuncs = 0 /\ funcReturned => current.ret = "int"
    BY DEF EndFunction, CheckInv, ReturnsOk
  <2> QED BY <1>1, <2>1 DEF ReturnsOk, Inside, NoFunction
<1>5. VerdictOk'
  <2>1. /\ current.returned => funcReturned
        /\ intFuncs = 0 /\ funcReturned => current.returned
        /\ errors \subseteq Unseen
    BY DEF EndFunction, CheckInv, ReturnsOk, VerdictOk
  <2> QED BY <1>1, <2>1 DEF EndFunction, VerdictOk, Unseen
<1> QED BY <1>2, <1>3, <1>4, <1>5 DEF CheckInv

-----------------------------------------------------------------------------
LEMMA InitCheckInv == CheckInit => CheckInv
<1> SUFFICES ASSUME CheckInit PROVE CheckInv
  OBVIOUS
<1>1. TreesOk
  BY NoTrees DEF CheckInit, TreesOk
<1>2. FunctionsOk /\ ReturnsOk /\ VerdictOk
  BY DEF CheckInit, FunctionsOk, ReturnsOk, VerdictOk, NoFunction, Inside
<1> QED BY <1>1, <1>2 DEF CheckInv

LEMMA NextCheckInv == CheckInv /\ [CheckNext]_checkVars => CheckInv'
<1> SUFFICES ASSUME CheckInv, [CheckNext]_checkVars PROVE CheckInv'
  OBVIOUS
<1>1. CASE \/ Constant \/ Id \/ CondExpr
           \/ \E op \in Operators : BinaryExpr(op)
           \/ \E f \in {"neg", "pos", "not"} : UnaryExpr(f)
           \/ \E sig \in Signatures, n \in 0 .. MaxOperands : FuncCallExp(sig, n)
  BY <1>1, NodesKeep
<1>2. CASE VoidSum
  <2>1. operands' = <<>>
    BY <1>2 DEF VoidSum
  <2>2. TreesOk'
    BY <2>1, NoTrees DEF TreesOk
  <2>3. FunctionsOk' /\ ReturnsOk' /\ VerdictOk'
    BY <1>2 DEF VoidSum, CheckInv, FunctionsOk, ReturnsOk, VerdictOk, Inside
  <2> QED BY <2>2, <2>3 DEF CheckInv
<1>3. CASE ExprStmt \/ AssignStmt \/ CheckDeclStmt \/ IfStmt \/ IfElseStmt \/ WhileStmt
  BY <1>3, PlainStatementsKeep
<1>4. CASE ReturnStmt
  BY <1>4, ReturnStmtKeeps
<1>5. CASE \E ret \in {"int", "void"}, params \in 0 .. 1, isMain \in BOOLEAN :
             FunctionDef(ret, params, isMain)
  BY <1>5, FunctionDefKeeps
<1>6. CASE EndFunction
  BY <1>6, EndFunctionKeeps
<1>7. CASE EndProgram
  <2>1. TreesOk' /\ FunctionsOk' /\ ReturnsOk'
    BY <1>7 DEF EndProgram, CheckInv, TreesOk, FunctionsOk, ReturnsOk, Inside
  <2>2. VerdictOk'
    BY <1>7 DEF EndProgram, CheckInv, VerdictOk
  <2> QED BY <2>1, <2>2 DEF CheckInv
<1>8. CASE UNCHANGED checkVars
  BY <1>8 DEF checkVars, CheckInv, TreesOk, FunctionsOk, ReturnsOk, VerdictOk, Inside
<1> QED BY <1>1, <1>2, <1>3, <1>4, <1>5, <1>6, <1>7, <1>8 DEF CheckNext

LEMMA CheckInvariant == CheckSpec => []CheckInv
BY InitCheckInv, NextCheckInv, PTL DEF CheckSpec

LEMMA OperandsOk ==
  ASSUME CheckInv
  PROVE  \A i \in DOMAIN operands : operands[i] \in OkTrees
<1>1. operands \in Seq(OkTrees)
  BY DEF CheckInv, TreesOk
<1> QED BY <1>1

\* The trees, the globals of Ast.cpp and the verdict have their types, and
\* returnType is known exactly when a function has been seen.
THEOREM TypeCorrect == CheckSpec => []TypeOK
<1>1. CheckInv => TypeOK
  <2> SUFFICES ASSUME CheckInv PROVE TypeOK
    OBVIOUS
  <2>1. \A i \in DOMAIN operands : operands[i] \in Subtrees
    BY OperandsOk DEF OkTrees
  <2> QED BY <2>1 DEF CheckInv, TreesOk, FunctionsOk, VerdictOk, TypeOK
<1> QED BY <1>1, CheckInvariant, PTL

\* What typeCheck takes for a constant is one, with the value it has in the
\* source, in trees of every depth.
THEOREM FoldsRight == CheckSpec => []FoldingIsRight
<1>1. CheckInv => FoldingIsRight
  BY OperandsOk DEF FoldingIsRight, OkTrees
<1> QED BY <1>1, CheckInvariant, PTL

\* exit(EXIT_FAILURE) is reached for wrong programs only.
THEOREM RejectsWrong == CheckSpec => []RejectsOnlyWrong
<1>1. CheckInv => RejectsOnlyWrong
  BY DEF CheckInv, VerdictOk, RejectsOnlyWrong
<1> QED BY <1>1, CheckInvariant, PTL

\* An accepted program has no error but those the checks leave out, however
\* many functions and statements it has.
THEOREM AcceptsKnown == CheckSpec => []AcceptedErrorsAreKnown
<1>1. CheckInv => AcceptedErrorsAreKnown
  BY DEF CheckInv, VerdictOk, AcceptedErrorsAreKnown
<1> QED BY <1>1, CheckInvariant, PTL

=============================================================================
