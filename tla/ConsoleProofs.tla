--------------------------- MODULE ConsoleProofs ----------------------------
(***************************************************************************)
(* Proofs about module Console, for any readers, buffer size, index width  *)
(* and screen: the readers and the screen are sound, and the circular      *)
(* buffer is a line editor.                                                *)
(***************************************************************************)
EXTENDS Console, SequenceTheorems, WellFoundedInduction, TLAPS

-----------------------------------------------------------------------------
(* The screen *)

\* What ConsoleSound says of a screen s = <<crt, pos, panic>>.
Sane(s) ==
    /\ s = <<s[1], s[2], s[3]>>
    /\ s[1] \in [Cells -> {"a", "blank"}]
    /\ s[2] \in 0 .. (ROWS - 1) * COLS - 1
    /\ s[3] = FALSE
    /\ \A i \in Cells : i >= s[2] => s[1][i] = "blank"

\* A nonempty set of numbers has a least one.
LEMMA Least ==
    ASSUME NEW F, F \subseteq Nat, F # {}
    PROVE  \E x \in F : \A y \in F : x <= y
  <1>1. \E x \in F : \A y \in F : ~(<<y, x>> \in OpToRel(<, Nat))
    BY NatLessThanWellFounded, WFMin, Zenon
  <1>2. PICK x \in F : \A y \in F : ~(<<y, x>> \in OpToRel(<, Nat))
    BY <1>1, Zenon
  <1>3. ASSUME NEW y \in F PROVE x <= y
    <2>1. x \in Nat /\ y \in Nat
      BY Zenon
    <2>2. ~(y < x)
      BY <1>2, <2>1, Zenon DEF OpToRel
    <2> QED
      BY <2>1, <2>2
  <1> QED
    BY <1>3, Zenon

\* consputc writes a character n times, one cgaputc after the other.
LEMMA Repeated ==
    ASSUME NEW c, NEW n \in Nat, consputc(c, n)
    PROVE  \E f : /\ f[0] = <<crt, pos, conPanic>>
                  /\ \A k \in 1 .. n : f[k] = cgaputc(f[k - 1], c)
                  /\ crt' = f[n][1] /\ pos' = f[n][2] /\ conPanic' = f[n][3]
  <1> DEFINE Put(g, k) == IF k = 0 THEN <<crt, pos, conPanic>> ELSE cgaputc(g[k - 1], c)
             Screens(g, m) == g = [k \in 0 .. m |-> Put(g, k)]
             F == {m \in Nat : ~\E g : Screens(g, m)}
  <1>1. PICK f : f = CHOOSE g : g = [k \in 0 .. n |-> IF k = 0 THEN <<crt, pos, conPanic>> ELSE cgaputc(g[k - 1], c)]
    BY Zenon
  <1>2. crt' = f[n][1] /\ pos' = f[n][2] /\ conPanic' = f[n][3]
    BY <1>1, Zenon DEF consputc
  <1>3. \E g : Screens(g, n)
    <2> SUFFICES ASSUME n \in F PROVE FALSE
      BY Zenon
    <2>1. F \subseteq Nat /\ F # {}
      BY Zenon
    <2>2. PICK m \in F : \A y \in F : m <= y
      <3> HIDE DEF F
      <3> QED
        BY <2>1, Least, Zenon
    <2>3. m \in Nat /\ \A g : ~Screens(g, m)
      BY Zenon
    <2>4. CASE m = 0
      <3>1. PICK g : g = [k \in 0 .. 0 |-> <<crt, pos, conPanic>>]
        BY Zenon
      <3>2. \A k \in 0 .. 0 : k = 0
        OBVIOUS
      <3>3. Screens(g, 0)
        BY <3>1, <3>2, Zenon
      <3> QED
        BY <2>3, <2>4, <3>3, Zenon
    <2>5. CASE m # 0
      <3>1. m - 1 \in Nat /\ ~(m <= m - 1)
        BY <2>3, <2>5
      <3>2. PICK g : Screens(g, m - 1)
        BY <2>2, <3>1, Zenon
      <3>3. PICK h : h = [k \in 0 .. m |-> IF k = m THEN cgaputc(g[m - 1], c) ELSE g[k]]
        BY Zenon
      <3>4. ASSUME NEW k \in 0 .. m PROVE h[k] = Put(h, k)
        <4>1. CASE k = 0
          <5>1. k \in 0 .. m - 1 /\ k # m
            BY <2>3, <2>5, <4>1
          <5> QED
            BY <3>2, <3>3, <4>1, <5>1, Zenon
        <4>2. CASE k # 0
          <5>1. k - 1 \in 0 .. m - 1 /\ k - 1 \in 0 .. m /\ k - 1 # m /\ (k # m => k \in 0 .. m - 1)
            BY <2>3, <4>2
          <5>2. h[k - 1] = g[k - 1] /\ (k # m => h[k] = g[k]) /\ (k = m => h[k] = cgaputc(g[k - 1], c))
            BY <3>3, <5>1, Zenon
          <5>3. k # m => g[k] = cgaputc(g[k - 1], c)
            BY <3>2, <4>2, <5>1, Zenon
          <5> QED
            BY <4>2, <5>2, <5>3, Zenon
        <4> QED
          BY <4>1, <4>2, Zenon
      <3>5. Screens(h, m)
        BY <3>3, <3>4, Zenon
      <3> QED
        BY <2>3, <3>5, Zenon
    <2> QED
      BY <2>4, <2>5, Zenon
  <1>4. f = [k \in 0 .. n |-> IF k = 0 THEN <<crt, pos, conPanic>> ELSE cgaputc(f[k - 1], c)]
    BY <1>1, <1>3, Zenon
  <1>5. 0 \in 0 .. n /\ \A k \in 1 .. n : k \in 0 .. n /\ k # 0
    OBVIOUS
  <1>6. f[0] = <<crt, pos, conPanic>> /\ \A k \in 1 .. n : f[k] = cgaputc(f[k - 1], c)
    BY <1>4, <1>5, Zenon
  <1> QED
    BY <1>2, <1>6, Zenon

\* What a number leaves when it is divided by m.
LEMMA DivMod ==
    ASSUME NEW x \in Int, NEW m \in Nat \ {0}
    PROVE  x \div m \in Int /\ x % m \in 0 .. m - 1 /\ x = m * (x \div m) + (x % m)
  OBVIOUS

\* The last row that cgaputc uses, and the number of cells, without the product.
LEMMA Rows ==
    /\ Cells = 0 .. (ROWS - 1) * COLS + COLS - 1
    /\ (ROWS - 1) * COLS \in Nat \ {0} /\ (ROWS - 2) * COLS \in Nat
    /\ (ROWS - 1) * COLS = (ROWS - 2) * COLS + COLS
    /\ ROWS * COLS = (ROWS - 1) * COLS + COLS
  <1> USE ConAssumption
  <1>1. PICK a \in Nat : a = (ROWS - 2) * COLS
    OBVIOUS
  <1>2. (ROWS - 1) * COLS = a + COLS /\ ROWS * COLS = a + COLS + COLS
    BY <1>1
  <1> QED
    BY <1>1, <1>2 DEF Cells

\* A position below the last row stays there; the next position and the next line are past
\* it exactly when cgaputc scrolls.
LEMMA NextPos ==
    ASSUME NEW p \in 0 .. (ROWS - 1) * COLS - 1
    PROVE  /\ p + COLS - (p % COLS) \in p + 1 .. (ROWS - 1) * COLS
           /\ \A x \in 0 .. (ROWS - 1) * COLS : x \div COLS >= ROWS - 1 <=> x = (ROWS - 1) * COLS
  <1> USE ConAssumption
  <1>r. PICK r \in Nat : r = ROWS - 1
    OBVIOUS
  <1>1. ASSUME NEW x \in 0 .. r * COLS PROVE x \div COLS >= r <=> x = r * COLS
    <2>1. PICK d \in Int, m \in 0 .. COLS - 1 : d = x \div COLS /\ x = COLS * d + m
      BY <1>r, <1>1, DivMod
    <2>2. CASE d >= r
      <3>1. COLS * d >= COLS * r
        BY <1>r, <2>1, <2>2
      <3> QED
        BY <1>r, <2>1, <2>2, <3>1
    <2>3. CASE d + 1 <= r
      <3>1. COLS * (d + 1) <= COLS * r /\ COLS * (d + 1) = COLS * d + COLS
        BY <1>r, <2>1, <2>3
      <3>2. x < COLS * r
        BY <1>r, <2>1, <3>1
      <3> QED
        BY <1>r, <2>1, <2>3, <3>2
    <2> QED
      BY <1>r, <2>1, <2>2, <2>3
  <1>2. p + COLS - (p % COLS) \in p + 1 .. r * COLS
    <2>1. PICK d \in Int, m \in 0 .. COLS - 1 : d = p \div COLS /\ m = p % COLS /\ p = COLS * d + m
      BY <1>r, DivMod
    <2>2. d < r
      BY <1>r, <1>1, <2>1
    <2>3. COLS * (d + 1) <= COLS * r /\ COLS * (d + 1) = COLS * d + COLS
      BY <1>r, <2>1, <2>2
    <2> QED
      BY <1>r, <2>1, <2>3
  <1> QED
    BY <1>r, <1>1, <1>2

\* cgaputc keeps a screen sane, whatever it writes and wherever the cursor is.
LEMMA Cgaputc ==
    ASSUME NEW s, Sane(s), NEW c \in {"a", "nl", "bs"}
    PROVE  Sane(cgaputc(s, c))
  <1> DEFINE L == (ROWS - 1) * COLS
             K == (ROWS - 2) * COLS
             p == CASE c = "nl" -> s[2] + COLS - (s[2] % COLS)
                    [] c = "bs" -> IF s[2] > 0 THEN s[2] - 1 ELSE s[2]
                    [] OTHER -> s[2] + 1
             put == IF c \in {"nl", "bs"} THEN s[1] ELSE [s[1] EXCEPT ![s[2]] = c]
             scroll == p \div COLS >= ROWS - 1
             q == IF scroll THEN p - COLS ELSE p
             moved == [i \in Cells |-> IF q <= i /\ i < (ROWS - 1) * COLS THEN "blank"
                                       ELSE IF i < (ROWS - 2) * COLS THEN put[i + COLS] ELSE put[i]]
             t == [IF scroll THEN moved ELSE put EXCEPT ![q] = "blank"]
  <1>c. COLS \in Nat \ {0} /\ L \in Nat \ {0} /\ K \in Nat /\ L = K + COLS /\ Cells = 0 .. L + COLS - 1 /\ ROWS * COLS = L + COLS
    BY ConAssumption, Rows, Zenon
  <1>s. /\ s[2] \in 0 .. L - 1 /\ s[1] \in [Cells -> {"a", "blank"}] /\ s[3] = FALSE
        /\ \A i \in Cells : i >= s[2] => s[1][i] = "blank"
    BY Zenon DEF Sane
  <1>0. cgaputc(s, c) = <<t, q, s[3] \/ p < 0 \/ p > ROWS * COLS>>
    BY Zenon DEF cgaputc
  <1>1. p \in 0 .. L /\ p + 1 >= s[2] /\ (c = "a" => p > s[2])
    <2>x. PICK x \in 0 .. L - 1 : x = s[2]
      BY <1>s, Zenon
    <2>y. PICK y \in x + 1 .. L : y = x + COLS - (x % COLS)
      BY NextPos, Zenon
    <2>1. c \in {"nl", "a"} => p = y \/ p = x + 1
      BY <2>x, <2>y, Zenon
    <2>2. c = "bs" => p = IF x > 0 THEN x - 1 ELSE x
      BY <2>x, Zenon
    <2>3. /\ y \in 0 .. L /\ y + 1 >= x /\ y > x
          /\ x + 1 \in 0 .. L /\ (x + 1) + 1 >= x /\ x + 1 > x
          /\ (IF x > 0 THEN x - 1 ELSE x) \in 0 .. L /\ (IF x > 0 THEN x - 1 ELSE x) + 1 >= x
      <3>1. L \in Nat
        BY <1>c, Zenon
      <3> HIDE DEF L
      <3> QED
        BY <3>1
    <2> HIDE DEF p, L
    <2> QED
      BY <2>x, <2>1, <2>2, <2>3, Zenon
  <1>i. p \in Int /\ s[2] \in Int /\ \A i \in Cells : i \in Int
    <2>1. L \in Nat /\ COLS \in Nat /\ Cells = 0 .. L + COLS - 1
      BY <1>c, Zenon
    <2>2. p \in 0 .. L /\ s[2] \in 0 .. L - 1
      BY <1>s, <1>1, Zenon
    <2> HIDE DEF p, L
    <2> QED
      BY <2>1, <2>2
  <1>2. scroll <=> p = L
    <2> HIDE DEF p
    <2> QED
      BY <1>s, <1>1, NextPos, Zenon
  <1>3. q \in 0 .. L - 1 /\ (scroll => q = K) /\ (~scroll => q = p)
    <2> HIDE DEF p, L, K, scroll
    <2> QED
      BY <1>c, <1>1, <1>2
  <1>4. put \in [Cells -> {"a", "blank"}] /\ \A i \in Cells : i >= s[2] => i = s[2] \/ put[i] = "blank"
    BY <1>s, Zenon
  <1>5. c # "a" => put = s[1]
    BY Zenon
  <1>6. q \in Cells /\ \A i \in Cells : i < K => i + COLS \in Cells
    <2> HIDE DEF q, L, K
    <2> QED
      BY <1>c, <1>3
  <1>7. moved \in [Cells -> {"a", "blank"}]
    <2>1. ASSUME NEW i \in Cells PROVE moved[i] \in {"a", "blank"}
      <3> HIDE DEF q, put
      <3> QED
        BY <1>4, <1>6, Zenon
    <2> HIDE DEF q, put
    <2> QED
      BY <2>1, Zenon
  <1>8. t \in [Cells -> {"a", "blank"}] /\ t[q] = "blank"
        /\ \A i \in Cells : i # q => t[i] = IF scroll THEN moved[i] ELSE put[i]
    <2> HIDE DEF moved, q, put, scroll
    <2> QED
      BY <1>4, <1>6, <1>7, Zenon
  <1>9. ASSUME NEW i \in Cells, i >= q PROVE t[i] = "blank"
    <2>1. CASE i = q
      BY <1>8, <2>1, Zenon
    <2>2. CASE i # q /\ scroll
      <3>1. t[i] = moved[i]
        BY <1>8, <2>2, Zenon
      <3>2. CASE i < L
        <4>1. q <= i /\ i < (ROWS - 1) * COLS
          <5> HIDE DEF q
          <5> QED
            BY <1>c, <1>3, <1>9, <3>2
        <4> QED
          BY <3>1, <4>1, Zenon
      <3>3. CASE i >= L
        <4>1. ~(i < (ROWS - 1) * COLS) /\ ~(i < (ROWS - 2) * COLS) /\ i >= s[2] /\ i # s[2]
          <5> HIDE DEF q
          <5> QED
            BY <1>c, <1>s, <3>3
        <4>2. moved[i] = put[i]
          <5> HIDE DEF q, put
          <5> QED
            BY <4>1, Zenon
        <4>3. put[i] = "blank"
          BY <1>4, <4>1, Zenon
        <4> QED
          BY <3>1, <4>2, <4>3, Zenon
      <3>4. i \in Int /\ L \in Int
        BY <1>c
      <3>5. i < L \/ i >= L
        <4> HIDE DEF L
        <4> QED
          BY <3>4
      <3> QED
        BY <3>2, <3>3, <3>5, Zenon
    <2>3. CASE i # q /\ ~scroll
      <3>1. t[i] = put[i] /\ q = p
        BY <1>3, <1>8, <2>3, Zenon
      <3>2. CASE c = "a"
        <4>1. i >= s[2] /\ i # s[2]
          <5>1. p > s[2] /\ i >= p
            BY <1>1, <1>9, <3>1, <3>2, Zenon
          <5>2. i \in Int /\ p \in Int /\ s[2] \in Int
            BY <1>i, Zenon
          <5> HIDE DEF p
          <5> QED
            BY <5>1, <5>2
        <4> QED
          BY <1>4, <3>1, <4>1, Zenon
      <3>3. CASE c # "a"
        <4>1. i >= s[2]
          <5>1. p + 1 >= s[2] /\ i >= p /\ i # p
            BY <1>1, <1>9, <2>3, <3>1, Zenon
          <5>2. i \in Int /\ p \in Int /\ s[2] \in Int
            BY <1>i, Zenon
          <5> HIDE DEF p
          <5> QED
            BY <5>1, <5>2
        <4> QED
          BY <1>5, <1>s, <3>1, <3>3, <4>1, Zenon
      <3> QED
        BY <3>2, <3>3, Zenon
    <2> QED
      BY <2>1, <2>2, <2>3, Zenon
  <1>10. ~(p < 0) /\ ~(p > ROWS * COLS)
    <2> HIDE DEF p, L
    <2> QED
      BY <1>c, <1>1
  <1>11. (s[3] \/ p < 0 \/ p > ROWS * COLS) = FALSE
    BY <1>s, <1>10, Zenon
  <1>12. PICK u : u = cgaputc(s, c)
    BY Zenon
  <1>13. u = <<t, q, FALSE>>
    BY <1>0, <1>11, <1>12, Zenon
  <1>14. u[1] = t /\ u[2] = q /\ u[3] = FALSE
    <2> HIDE DEF t, q
    <2> QED
      BY <1>13
  <1>15. Sane(u)
    <2> HIDE DEF t, q
    <2> QED
      BY <1>3, <1>8, <1>9, <1>13, <1>14, Zenon DEF Sane
  <1> QED
    BY <1>12, <1>15, Zenon

\* So does any number of them.
LEMMA Consputc ==
    ASSUME Sane(<<crt, pos, conPanic>>), NEW c \in {"a", "nl", "bs"}, NEW n \in Nat, consputc(c, n)
    PROVE  Sane(<<crt', pos', conPanic'>>)
  <1>1. PICK f : /\ f[0] = <<crt, pos, conPanic>>
                 /\ \A k \in 1 .. n : f[k] = cgaputc(f[k - 1], c)
                 /\ crt' = f[n][1] /\ pos' = f[n][2] /\ conPanic' = f[n][3]
    BY Repeated, Zenon
  <1>2. \A k \in 0 .. n : Sane(f[k])
    <2> DEFINE F == {k \in Nat : k <= n /\ ~Sane(f[k])}
    <2> SUFFICES ASSUME F # {} PROVE FALSE
      <3>1. \A k \in 0 .. n : k \in Nat /\ k <= n
        OBVIOUS
      <3> QED
        BY <3>1, Zenon
    <2>1. PICK k \in F : \A y \in F : k <= y
      <3>1. F \subseteq Nat
        BY Zenon
      <3> HIDE DEF F
      <3> QED
        BY <3>1, Least, Zenon
    <2>2. k \in Nat /\ k <= n /\ ~Sane(f[k])
      BY Zenon
    <2>3. k # 0
      BY <1>1, <2>2, Zenon
    <2>4. k - 1 \in Nat /\ k - 1 <= n /\ ~(k <= k - 1) /\ k \in 1 .. n
      BY <2>2, <2>3
    <2>5. Sane(f[k - 1])
      BY <2>1, <2>4, Zenon
    <2>6. f[k] = cgaputc(f[k - 1], c)
      BY <1>1, <2>4, Zenon
    <2> QED
      BY <2>2, <2>5, <2>6, Cgaputc, Zenon
  <1>3. Sane(f[n])
    <2>1. n \in 0 .. n
      OBVIOUS
    <2> QED
      BY <1>2, <2>1, Zenon
  <1> QED
    BY <1>1, <1>3, Zenon DEF Sane

-----------------------------------------------------------------------------
(* The readers *)

Pcs   == {"out", "lock", "loop", "doze", "sleep", "done"}
Chr   == {"a", "nl", "eof"}
Inside == {"loop", "doze", "done"}   \* in consoleread, with cons.lock

\* ConsoleSound is not inductive: it needs who holds cons.lock, and that a reader on its way to
\* sleep has found nothing to read.
ConInv ==
    /\ ConTypeOK
    /\ cbuf \in [0 .. INPUT_BUF - 1 -> Chr] /\ rgot \in [CReader -> Seq(Chr)]
    /\ Sane(<<crt, pos, conPanic>>)
    /\ \A r \in CReader : rpc[r] \in Inside => conlock = r
    /\ \A r \in CReader : rpc[r] \in {"doze", "sleep"} => cr = cw

\* An index of the console stays an unsigned when it is moved.
LEMMA IndexWraps ==
    ASSUME NEW n \in Int
    PROVE  n % CUINT \in 0 .. CUINT - 1 /\ n % INPUT_BUF \in 0 .. INPUT_BUF - 1
  <1>1. CUINT \in Nat \ {0} /\ INPUT_BUF \in Nat \ {0}
    BY ConAssumption
  <1> QED
    BY <1>1, DivMod, Zenon

\* A step that leaves the indices, the buffer and the screen alone, and moves one reader, keeps
\* the invariant.
LEMMA ReaderMoves ==
    ASSUME ConInv, NEW r \in CReader, NEW pc \in Pcs,
           rpc' = [rpc EXCEPT ![r] = pc],
           conlock' \in CReader \union {Nobody}, rgot' \in [CReader -> Seq(Chr)],
           pc \in Inside => conlock' = r,
           \A q \in CReader \ {r} : rpc[q] \in Inside => conlock' = q,
           pc \in {"doze", "sleep"} => cr = cw,
           UNCHANGED <<inVars, scrVars>>
    PROVE  ConInv'
  <1>1. rpc' \in [CReader -> Pcs] /\ rpc'[r] = pc /\ \A q \in CReader \ {r} : rpc'[q] = rpc[q]
    BY Zenon DEF ConInv, ConTypeOK, Pcs
  <1>2. UNCHANGED <<cbuf, cr, cw, ce, crt, pos, conPanic>>
    BY Zenon DEF inVars, scrVars
  <1>3. ConTypeOK'
    BY <1>1, <1>2, Zenon DEF ConInv, ConTypeOK, Pcs
  <1>4. Sane(<<crt, pos, conPanic>>)'
    BY <1>2, Zenon DEF ConInv
  <1>5. \A q \in CReader : rpc'[q] \in Inside => conlock' = q
    BY <1>1, Zenon
  <1>6. \A q \in CReader : rpc'[q] \in {"doze", "sleep"} => cr' = cw'
    BY <1>1, <1>2, Zenon DEF ConInv
  <1> QED
    BY <1>2, <1>3, <1>4, <1>5, <1>6, Zenon DEF ConInv

\* ConInit establishes the invariant.
LEMMA ConInitInv == ConInit => ConInv
  <1> SUFFICES ASSUME ConInit PROVE ConInv
    BY Zenon
  <1>1. ConTypeOK
    <2>1. 0 \in 0 .. CUINT - 1
      BY ConAssumption
    <2> QED
      BY <2>1, Zenon DEF ConInit, ConTypeOK
  <1>2. cbuf \in [0 .. INPUT_BUF - 1 -> Chr] /\ rgot \in [CReader -> Seq(Chr)]
    <2>1. <<>> \in Seq(Chr)
      OBVIOUS
    <2> QED
      BY <2>1, Zenon DEF ConInit, Chr
  <1>3. Sane(<<crt, pos, conPanic>>)
    <2>1. PICK s : s = <<crt, pos, conPanic>>
      BY Zenon
    <2>2. s[1] = crt /\ s[2] = pos /\ s[3] = conPanic
      BY <2>1
    <2>3. 0 \in 0 .. (ROWS - 1) * COLS - 1
      <3>1. PICK l \in Nat \ {0} : l = (ROWS - 1) * COLS
        BY Rows, Zenon
      <3>2. 0 \in 0 .. l - 1
        OBVIOUS
      <3> QED
        BY <3>1, <3>2, Zenon
    <2>4. crt = [i \in Cells |-> "blank"] /\ pos = 0 /\ conPanic = FALSE
      BY Zenon DEF ConInit
    <2>5. crt \in [Cells -> {"a", "blank"}] /\ \A i \in Cells : crt[i] = "blank"
      BY <2>4, Zenon
    <2>6. Sane(s)
      BY <2>1, <2>2, <2>3, <2>4, <2>5, Zenon DEF Sane
    <2> QED
      BY <2>1, <2>6, Zenon
  <1>4. \A r \in CReader : rpc[r] = "out"
    BY Zenon DEF ConInit
  <1> QED
    BY <1>1, <1>2, <1>3, <1>4, Zenon DEF ConInv, Inside

\* consoleintr preserves it: a line that is complete wakes the sleepers.
LEMMA TypeCharStep ==
    ASSUME ConInv, NEW k \in Typed, TypeChar(k)
    PROVE  ConInv'
  <1> DEFINE c == IF k = "cr" THEN "nl" ELSE k
             e == (ce + 1) % CUINT
  <1>1. c \in Chr
    BY Zenon DEF Typed, Chr
  <1>2. cr \in 0 .. CUINT - 1 /\ cw \in 0 .. CUINT - 1 /\ ce \in 0 .. CUINT - 1
    BY Zenon DEF ConInv, ConTypeOK
  <1>3. e \in 0 .. CUINT - 1 /\ ce % INPUT_BUF \in 0 .. INPUT_BUF - 1
    <2>1. ce \in Int /\ ce + 1 \in Int
      BY <1>2
    <2> QED
      BY <2>1, IndexWraps, Zenon
  <1>4. cbuf' \in [0 .. INPUT_BUF - 1 -> Chr]
    BY <1>1, <1>3, Zenon DEF TypeChar, ConInv
  <1>5. conlock = Nobody /\ UNCHANGED <<cr, conlock, rgot>> /\ ce' = e /\ cw' \in {e, cw}
    BY Zenon DEF TypeChar
  <1>6. \A r \in CReader : rpc[r] \notin Inside
    BY <1>5, ConAssumption, Zenon DEF ConInv
  <1>7. /\ rpc' \in [CReader -> Pcs]
        /\ \A r \in CReader : rpc'[r] \notin Inside /\ (rpc'[r] = "sleep" => cr' = cw')
    <2>1. CASE Complete(c, e)
      <3>1. rpc' = ConWakeup
        BY <2>1, Zenon DEF TypeChar
      <3>2. ASSUME NEW r \in CReader PROVE rpc'[r] \in Pcs \ (Inside \union {"sleep"})
        <4>1. rpc'[r] = IF rpc[r] = "sleep" THEN "lock" ELSE rpc[r]
          BY <3>1, Zenon DEF ConWakeup
        <4>2. rpc[r] \in Pcs
          BY Zenon DEF ConInv, ConTypeOK, Pcs
        <4> QED
          BY <1>6, <4>1, <4>2, Zenon DEF Pcs, Inside
      <3> QED
        BY <3>1, <3>2, Zenon DEF ConWakeup
    <2>2. CASE ~Complete(c, e)
      <3>1. rpc' = rpc /\ cw' = cw
        BY <2>2, Zenon DEF TypeChar
      <3> QED
        BY <1>5, <1>6, <3>1, Zenon DEF ConInv, ConTypeOK, Pcs
    <2> QED
      BY <2>1, <2>2, Zenon
  <1>8. Sane(<<crt', pos', conPanic'>>)
    <2>1. consputc(IF c = "nl" THEN "nl" ELSE "a", 1)
      BY Zenon DEF TypeChar
    <2>2. (IF c = "nl" THEN "nl" ELSE "a") \in {"a", "nl", "bs"} /\ 1 \in Nat
      BY Zenon
    <2>3. Sane(<<crt, pos, conPanic>>)
      BY Zenon DEF ConInv
    <2> QED
      BY <2>1, <2>2, <2>3, Consputc, Zenon
  <1>9. ConTypeOK'
    BY <1>2, <1>3, <1>5, <1>7, Zenon DEF ConInv, ConTypeOK, Pcs
  <1>10. rgot' \in [CReader -> Seq(Chr)]
    BY <1>5, Zenon DEF ConInv
  <1> QED
    BY <1>4, <1>7, <1>8, <1>9, <1>10, Zenon DEF ConInv, Inside

\* Whatever only moves the edit index and writes to the screen preserves it.
LEMMA EchoStep ==
    ASSUME ConInv, ce' \in 0 .. CUINT - 1, NEW c \in {"a", "nl", "bs"}, NEW n \in Nat, consputc(c, n),
           UNCHANGED <<cbuf, cr, cw, conlock, rpc, rgot>>
    PROVE  ConInv'
  <1>1. Sane(<<crt', pos', conPanic'>>)
    <2>1. Sane(<<crt, pos, conPanic>>)
      BY Zenon DEF ConInv
    <2> QED
      BY <2>1, Consputc, Zenon
  <1>2. ConTypeOK'
    BY Zenon DEF ConInv, ConTypeOK
  <1> QED
    BY <1>1, <1>2, Zenon DEF ConInv

\* ^U takes back no more than what is still edited.
LEMMA UnwoundIs ==
    ASSUME ConTypeOK
    PROVE  Unwound \in 0 .. (ce - cw) % CUINT
  <1> DEFINE m == (ce - cw) % CUINT
             Newline(n) == cbuf[((ce - n - 1) % CUINT) % INPUT_BUF] = "nl"
             F == {n \in Nat : n <= m /\ (n = m \/ Newline(n))}
  <1>1. m \in Nat
    <2>1. ce \in 0 .. CUINT - 1 /\ cw \in 0 .. CUINT - 1
      BY Zenon DEF ConTypeOK
    <2>2. ce - cw \in Int
      BY <2>1
    <2>3. m \in 0 .. CUINT - 1
      BY <2>2, IndexWraps, Zenon
    <2> HIDE DEF m
    <2> QED
      BY <2>3
  <1>2. PICK n \in F : \A y \in F : n <= y
    <2>1. m <= m
      <3> HIDE DEF m
      <3> QED
        BY <1>1
    <2>2. F \subseteq Nat /\ m \in F
      BY <1>1, <2>1, Zenon
    <2> HIDE DEF F
    <2> QED
      BY <2>2, Least, Zenon
  <1>3. n \in Nat /\ n <= m /\ (n = m \/ Newline(n))
    BY Zenon
  <1>4. n \in 0 .. m
    <2> HIDE DEF m
    <2> QED
      BY <1>1, <1>3
  <1>5. ASSUME NEW k \in 1 .. n PROVE cbuf[((ce - k) % CUINT) % INPUT_BUF] # "nl"
    <2>1. k - 1 \in Nat /\ k - 1 <= m /\ ~(n <= k - 1)
      <3> HIDE DEF m
      <3> QED
        BY <1>1, <1>3
    <2>2. ~Newline(k - 1)
      BY <1>2, <2>1, Zenon
    <2>3. ce - (k - 1) - 1 = ce - k
      <3>1. ce \in 0 .. CUINT - 1
        BY Zenon DEF ConTypeOK
      <3> QED
        BY <3>1
    <2> QED
      BY <2>2, <2>3, Zenon
  <1>6. \E x \in 0 .. m : /\ \A k \in 1 .. x : cbuf[((ce - k) % CUINT) % INPUT_BUF] # "nl"
                          /\ x = m \/ cbuf[((ce - x - 1) % CUINT) % INPUT_BUF] = "nl"
    BY <1>3, <1>4, <1>5, Zenon
  <1> QED
    BY <1>6, Zenon DEF Unwound

\* Every step preserves the invariant.
LEMMA ConNextInv == ConInv /\ [ConNext]_conVars => ConInv'
  <1> SUFFICES ASSUME ConInv, [ConNext]_conVars PROVE ConInv'
    BY Zenon
  <1>t. ConTypeOK /\ ce \in 0 .. CUINT - 1 /\ cw \in 0 .. CUINT - 1 /\ cr \in 0 .. CUINT - 1
    BY Zenon DEF ConInv, ConTypeOK
  <1>i. ce \in Int /\ cw \in Int /\ cr \in Int /\ ce - 1 \in Int /\ cr + 1 \in Int /\ 1 \in Nat
    BY <1>t
  <1>1. ASSUME Backspace PROVE ConInv'
    <2>1. ce' \in 0 .. CUINT - 1
      BY <1>i, <1>1, IndexWraps, Zenon DEF Backspace
    <2> QED
      BY <1>i, <1>1, <2>1, EchoStep, Zenon DEF Backspace
  <1>2. ASSUME KillLine PROVE ConInv'
    <2>1. PICK n : n = Unwound
      BY Zenon
    <2>2. n \in Nat
      <3>1. PICK m \in Int : m = (ce - cw) % CUINT
        <4>1. ce - cw \in Int
          BY <1>i
        <4>2. (ce - cw) % CUINT \in 0 .. CUINT - 1
          BY <4>1, IndexWraps, Zenon
        <4> QED
          BY <4>2
      <3>2. n \in 0 .. m
        BY <1>t, <2>1, <3>1, UnwoundIs, Zenon
      <3> QED
        BY <3>1, <3>2
    <2>3. ce - n \in Int
      BY <1>i, <2>2
    <2>4. ce' \in 0 .. CUINT - 1
      BY <1>2, <2>1, <2>3, IndexWraps, Zenon DEF KillLine
    <2> QED
      BY <1>2, <2>1, <2>2, <2>4, EchoStep, Zenon DEF KillLine
  <1>3. ASSUME ConsoleWrite PROVE ConInv'
    BY <1>t, <1>i, <1>3, EchoStep, Zenon DEF ConsoleWrite, inVars
  <1>4. ASSUME NEW r \in CReader, ConsoleRead(r) PROVE ConInv'
    <2>1. <<>> \in Seq(Chr)
      OBVIOUS
    <2>2. rgot' \in [CReader -> Seq(Chr)]
      BY <1>4, <2>1, Zenon DEF ConsoleRead, ConInv
    <2> QED
      BY <1>4, <2>2, ReaderMoves, Zenon DEF ConsoleRead, ConInv, ConTypeOK, Pcs, Inside
  <1>5. ASSUME NEW r \in CReader, ReadLock(r) PROVE ConInv'
    <2>1. \A q \in CReader : rpc[q] \notin Inside
      BY <1>5, ConAssumption, Zenon DEF ReadLock, ConInv
    <2> QED
      BY <1>5, <2>1, ReaderMoves, Zenon DEF ReadLock, ConInv, Pcs
  <1>h. ASSUME NEW r \in CReader, rpc[r] \in Inside PROVE conlock = r /\ \A q \in CReader \ {r} : rpc[q] \notin Inside
    BY <1>h, Zenon DEF ConInv
  <1>6. ASSUME NEW r \in CReader, ReadEmpty(r) PROVE ConInv'
    <2>1. conlock = r /\ (\A q \in CReader \ {r} : rpc[q] \notin Inside) /\ rgot' = rgot /\ cr = cw /\ UNCHANGED <<inVars, scrVars>>
      BY <1>6, <1>h, Zenon DEF ReadEmpty, Inside
    <2>2. CASE r \in conKilled
      BY <1>6, <2>1, <2>2, ReaderMoves, Zenon DEF ReadEmpty, ConInv, Pcs, Inside
    <2>3. CASE r \notin conKilled
      BY <1>6, <2>1, <2>3, ReaderMoves, Zenon DEF ReadEmpty, ConInv, Pcs, Inside
    <2> QED
      BY <2>2, <2>3, Zenon
  <1>7. ASSUME NEW r \in CReader, ReadSleep(r) PROVE ConInv'
    <2>1. (\A q \in CReader \ {r} : rpc[q] \notin Inside) /\ rgot' = rgot /\ cr = cw
      BY <1>7, <1>h, Zenon DEF ReadSleep, Inside, ConInv
    <2> QED
      BY <1>7, <2>1, ReaderMoves, Zenon DEF ReadSleep, ConInv, Pcs, Inside
  <1>8. ASSUME NEW r \in CReader, ReadChar(r) PROVE ConInv'
    <2> DEFINE c == cbuf[cr % INPUT_BUF]
    <2>1. conlock = r /\ (\A q \in CReader \ {r} : rpc[q] \notin Inside) /\ UNCHANGED <<cbuf, cw, ce, conlock, scrVars>>
      BY <1>8, <1>h, Zenon DEF ReadChar, Inside
    <2>2. c \in Chr
      BY <1>i, IndexWraps, Zenon DEF ConInv
    <2>3. cr' \in 0 .. CUINT - 1
      BY <1>i, <1>t, <1>8, IndexWraps, Zenon DEF ReadChar
    <2>4. rgot' \in [CReader -> Seq(Chr)]
      <3>1. rgot[r] \in Seq(Chr)
        BY Zenon DEF ConInv
      <3>2. PICK d \in Chr : d = c
        BY <2>2, Zenon
      <3>3. Append(rgot[r], d) \in Seq(Chr)
        BY <3>1
      <3>4. rgot' = rgot \/ rgot' = [rgot EXCEPT ![r] = Append(rgot[r], d)]
        BY <1>8, <3>2, Zenon DEF ReadChar
      <3> QED
        BY <3>3, <3>4, Zenon DEF ConInv
    <2>5. PICK pc \in {"loop", "done"} : rpc' = [rpc EXCEPT ![r] = pc]
      <3>1. rpc[r] = "loop" /\ (rpc' = rpc \/ rpc' = [rpc EXCEPT ![r] = "done"])
        BY <1>8, Zenon DEF ReadChar
      <3>2. rpc = [rpc EXCEPT ![r] = "loop"]
        BY <3>1, Zenon DEF ConInv, ConTypeOK
      <3> QED
        BY <3>1, <3>2, Zenon
    <2>6. rpc' \in [CReader -> Pcs] /\ rpc'[r] = pc /\ \A q \in CReader \ {r} : rpc'[q] = rpc[q]
      BY <2>5, Zenon DEF ConInv, ConTypeOK, Pcs
    <2>7. \A q \in CReader \ {r} : rpc[q] \notin {"doze", "sleep"}
      BY <1>8, Zenon DEF ReadChar, ConInv
    <2>8. ConTypeOK'
      BY <1>t, <2>1, <2>3, <2>6, Zenon DEF ConTypeOK, Pcs
    <2>9. UNCHANGED <<crt, pos, conPanic>>
      BY <2>1, Zenon DEF scrVars
    <2> QED
      BY <2>1, <2>4, <2>5, <2>6, <2>7, <2>8, <2>9, Zenon DEF ConInv, Inside
  <1>9. ASSUME NEW r \in CReader, ReadReturn(r) PROVE ConInv'
    <2>1. (\A q \in CReader \ {r} : rpc[q] \notin Inside) /\ rgot' = rgot
      BY <1>9, <1>h, Zenon DEF ReadReturn, Inside
    <2> QED
      BY <1>9, <2>1, ReaderMoves, Zenon DEF ReadReturn, ConInv, Pcs, Inside
  <1>10. ASSUME NEW r \in CReader, KillReader(r) PROVE ConInv'
    <2>1. PICK pc : pc = IF rpc[r] = "sleep" THEN "lock" ELSE rpc[r]
      BY Zenon
    <2>2. pc \in Pcs /\ (pc \in Inside => conlock = r) /\ (pc \in {"doze", "sleep"} => cr = cw)
      BY <2>1, Zenon DEF ConInv, ConTypeOK, Pcs, Inside
    <2>3. rpc' = [rpc EXCEPT ![r] = pc] /\ UNCHANGED <<inVars, conlock, rgot, scrVars>>
      BY <1>10, <2>1, Zenon DEF KillReader
    <2> QED
      BY <2>2, <2>3, ReaderMoves, Zenon DEF ConInv, ConTypeOK
  <1>11. CASE UNCHANGED conVars
    <2>1. UNCHANGED <<cbuf, cr, cw, ce, conlock, rpc, rgot, crt, pos, conPanic>>
      BY <1>11, Zenon DEF conVars
    <2> QED
      BY <2>1, Zenon DEF ConInv, ConTypeOK
  <1>12. CASE ConNext
    <2>1. CASE ConsoleIntr
      BY <1>1, <1>2, <2>1, TypeCharStep, Zenon DEF ConsoleIntr
    <2> QED
      BY <1>3, <1>4, <1>5, <1>6, <1>7, <1>8, <1>9, <1>10, <1>12, <2>1, Zenon DEF ConNext
  <1> QED
    BY <1>11, <1>12, Zenon

\* The invariant holds throughout.
LEMMA ConInvariant == ConSpec => []ConInv
  BY ConInitInv, ConNextInv, PTL DEF ConSpec

\* For any readers, buffer and screen: a reader of the console sleeps only while there is
\* nothing to read, cgaputc never panics, its cursor stays inside the rows it uses, and there
\* are only blanks from the cursor on.
THEOREM ConsoleIsSound == ConSpec => []ConsoleSound
  <1>1. ConInv => ConsoleSound
    <2> SUFFICES ASSUME ConInv PROVE ConsoleSound
      BY Zenon
    <2>1. PICK s : s = <<crt, pos, conPanic>> /\ Sane(s)
      BY Zenon DEF ConInv
    <2>2. s[1] = crt /\ s[2] = pos /\ s[3] = conPanic
      BY <2>1
    <2>3. ~conPanic /\ pos \in 0 .. (ROWS - 1) * COLS - 1 /\ \A i \in Cells : i >= pos => crt[i] = "blank"
      BY <2>1, <2>2, Zenon DEF Sane
    <2> QED
      BY <2>3, Zenon DEF ConInv, ConsoleSound
  <1> QED
    BY <1>1, ConInvariant, PTL

-----------------------------------------------------------------------------
(* The indices *)

\* The remainder of a number is what it is above a multiple of the divisor.
LEMMA ModIs ==
    ASSUME NEW x \in Int, NEW m \in Nat \ {0}, NEW q \in Int, NEW r \in 0 .. m - 1, x = m * q + r
    PROVE  x % m = r
  OBVIOUS

\* What wraps at a multiple of the size of the buffer comes out at the same place.
LEMMA ModAdd ==
    ASSUME NEW x \in Int, NEW u \in Int, NEW m \in Nat \ {0}, u % m = 0
    PROVE  (x + u) % m = x % m
  <1>1. PICK q \in Int : u = m * q + 0
    BY DivMod, Zenon
  <1>2. PICK k \in Int, r \in 0 .. m - 1 : x = m * k + r /\ r = x % m
    BY DivMod, Zenon
  <1>3. m * (k + q) = m * k + m * q /\ m * k \in Int /\ m * q \in Int
    BY <1>1, <1>2
  <1>4. PICK y \in Int : y = x + u
    OBVIOUS
  <1>5. PICK s \in Int : s = k + q
    OBVIOUS
  <1>6. y = m * s + r
    <2>1. PICK a \in Int, b \in Int : a = m * k /\ b = m * q
      BY <1>3, Zenon
    <2>2. m * s = a + b
      BY <1>3, <1>5, <2>1, Zenon
    <2>3. u = b + 0 /\ x = a + r
      BY <1>1, <1>2, <2>1, Zenon
    <2>4. y = a + b + r
      BY <1>4, <2>3
    <2> QED
      BY <2>2, <2>4, Zenon
  <1>7. y % m = r
    BY <1>6, ModIs, Zenon
  <1> QED
    BY <1>2, <1>4, <1>7, Zenon

\* Numbers less than m apart have different remainders.
LEMMA ModApart ==
    ASSUME NEW x \in Int, NEW y \in Int, NEW m \in Nat \ {0}, x < y, y < x + m
    PROVE  x % m # y % m
  <1> SUFFICES ASSUME x % m = y % m PROVE FALSE
    BY Zenon
  <1>1. PICK k \in Int, r \in 0 .. m - 1 : x = m * k + r /\ r = x % m
    BY DivMod, Zenon
  <1>2. PICK l \in Int : y = m * l + r
    <2>1. PICK j \in Int, s \in 0 .. m - 1 : y = m * j + s /\ s = y % m
      BY DivMod, Zenon
    <2>2. s = r
      BY <1>1, <2>1, Zenon
    <2> QED BY <2>1, <2>2, Zenon
  <1>3. y - x = m * l - m * k /\ m * l \in Int /\ m * k \in Int
    BY <1>1, <1>2
  <1>4. m * l - m * k = m * (l - k) /\ l - k \in Int
    BY <1>1, <1>2
  <1>5. CASE l - k >= 1
    <2>1. m * (l - k) >= m
      BY <1>4, <1>5
    <2> QED
      BY <1>3, <1>4, <2>1
  <1>6. CASE l - k <= 0
    <2>1. m * (l - k) <= 0
      BY <1>4, <1>6
    <2> QED
      BY <1>3, <1>4, <2>1
  <1> QED
    BY <1>4, <1>5, <1>6

Index == 0 .. CUINT - 1

\* The remainder of a number that is less than CUINT away from the indices.
LEMMA Wraps ==
    ASSUME NEW x \in 0 - CUINT .. 2 * CUINT - 1
    PROVE  /\ x % CUINT \in Index
           /\ x % CUINT = IF x < 0 THEN x + CUINT ELSE IF x < CUINT THEN x ELSE x - CUINT
  <1> USE ConAssumption
  <1>0. PICK u \in Nat \ {0} : u = CUINT
    OBVIOUS
  <1>1. CASE x < 0
    <2>1. x + u \in 0 .. u - 1 /\ x \in Int /\ x = u * (-1) + (x + u)
      BY <1>0, <1>1
    <2>2. x % u = x + u
      BY <2>1, ModIs
    <2> QED
      BY <1>0, <1>1, <2>1, <2>2 DEF Index
  <1>2. CASE x >= 0 /\ x < u
    <2>1. x \in 0 .. u - 1 /\ x \in Int /\ x = u * 0 + x
      BY <1>0, <1>2
    <2>2. x % u = x
      BY <2>1, ModIs
    <2> QED
      BY <1>0, <1>2, <2>1, <2>2 DEF Index
  <1>3. CASE x >= u
    <2>1. x - u \in 0 .. u - 1 /\ x \in Int /\ x = u * 1 + (x - u)
      BY <1>0, <1>3
    <2>2. x % u = x - u
      BY <2>1, ModIs
    <2> QED
      BY <1>0, <1>3, <2>1, <2>2 DEF Index
  <1> QED
    BY <1>0, <1>1, <1>2, <1>3

\* An index that goes up wraps at most once.
LEMMA WrapsUp ==
    ASSUME NEW x \in 0 .. 2 * CUINT - 1
    PROVE  x % CUINT = IF x < CUINT THEN x ELSE x - CUINT
  <1>1. x \in 0 - CUINT .. 2 * CUINT - 1 /\ ~(x < 0)
    BY ConAssumption
  <1> QED
    BY <1>1, Wraps

\* How far one index is ahead of another, and how that changes when an index is moved.
Ahead(to, from) == (to - from) % CUINT

\* How far one index is ahead of another, by cases.
LEMMA AheadIs ==
    ASSUME NEW a \in Index, NEW b \in Index
    PROVE  Ahead(a, b) \in Index /\ Ahead(a, b) = IF a >= b THEN a - b ELSE a - b + CUINT
  <1>1. a - b \in 0 - CUINT .. 2 * CUINT - 1 /\ (a - b < CUINT)
    BY ConAssumption DEF Index
  <1>2. Ahead(a, b) \in Index /\ Ahead(a, b) = IF a - b < 0 THEN a - b + CUINT ELSE a - b
    BY <1>1, Wraps, Zenon DEF Ahead
  <1> QED
    BY <1>2, ConAssumption DEF Index

\* The read, write and edit index are in this order, and no more than a buffer apart.
InOrder(r, w, e) == Ahead(w, r) <= Ahead(e, r) /\ Ahead(e, r) <= INPUT_BUF

\* The line being edited is what lies between the other two distances.
LEMMA EditAhead ==
    ASSUME NEW r \in Index, NEW w \in Index, NEW e \in Index, InOrder(r, w, e)
    PROVE  Ahead(e, w) = Ahead(e, r) - Ahead(w, r)
  <1>1. /\ Ahead(w, r) = IF w >= r THEN w - r ELSE w - r + CUINT
        /\ Ahead(e, r) = IF e >= r THEN e - r ELSE e - r + CUINT
        /\ Ahead(e, w) = IF e >= w THEN e - w ELSE e - w + CUINT
    BY AheadIs, Zenon
  <1> QED
    BY <1>1, ConAssumption DEF Index, InOrder

\* A character typed moves e one further from r; the buffer is full when it is INPUT_BUF away.
LEMMA EditMoves ==
    ASSUME NEW r \in Index, NEW e \in Index, NEW x \in Index,
           x = (e + 1) % CUINT, Ahead(e, r) < INPUT_BUF
    PROVE  /\ Ahead(x, r) = Ahead(e, r) + 1
           /\ x = (r + INPUT_BUF) % CUINT <=> Ahead(e, r) + 1 = INPUT_BUF
  <1>1. /\ Ahead(e, r) = IF e >= r THEN e - r ELSE e - r + CUINT
        /\ Ahead(x, r) = IF x >= r THEN x - r ELSE x - r + CUINT
    BY AheadIs, Zenon
  <1>2. e + 1 \in 0 .. 2 * CUINT - 1 /\ r + INPUT_BUF \in 0 .. 2 * CUINT - 1
    BY ConAssumption DEF Index
  <1>3. x = IF e + 1 < CUINT THEN e + 1 ELSE (e + 1) - CUINT
    BY <1>2, WrapsUp, Zenon
  <1>4. (r + INPUT_BUF) % CUINT = IF r + INPUT_BUF < CUINT THEN r + INPUT_BUF ELSE (r + INPUT_BUF) - CUINT
    BY <1>2, WrapsUp, Zenon
  <1>5. Ahead(x, r) = Ahead(e, r) + 1
    BY <1>1, <1>3, ConAssumption DEF Index
  <1>6. x = (r + INPUT_BUF) % CUINT <=> Ahead(e, r) + 1 = INPUT_BUF
    <2>1. PICK y : y = (r + INPUT_BUF) % CUINT
      BY Zenon
    <2>2. x = y <=> Ahead(e, r) + 1 = INPUT_BUF
      BY <1>1, <1>3, <1>4, <2>1, ConAssumption DEF Index
    <2> QED
      BY <2>1, <2>2, Zenon
  <1> QED
    BY <1>5, <1>6, Zenon

Back(x, e, r, n) == Ahead(x, r) = Ahead(e, r) - n

\* Erasing n characters moves e back by n, also where it wraps.
LEMMA EditBack ==
    ASSUME NEW r \in Index, NEW e \in Index, NEW n \in Nat, n <= Ahead(e, r), NEW x \in Index, x = (e - n) % CUINT
    PROVE  Back(x, e, r, n)
  <1>1. /\ Ahead(e, r) \in Index /\ Ahead(e, r) = IF e >= r THEN e - r ELSE e - r + CUINT
        /\ Ahead(x, r) = IF x >= r THEN x - r ELSE x - r + CUINT
    BY AheadIs, Zenon
  <1>2. e - n \in 0 - CUINT .. 2 * CUINT - 1 /\ e - n < CUINT /\ n \in Int
    BY <1>1, ConAssumption DEF Index
  <1>3. x = IF e - n < 0 THEN e - n + CUINT ELSE e - n
    BY <1>2, Wraps, Zenon
  <1> QED
    BY <1>1, <1>2, <1>3, ConAssumption DEF Index, Back

\* A character read brings every index ahead of r one nearer.
LEMMA ReadMoves ==
    ASSUME NEW r \in Index, NEW a \in Index, NEW x \in Index, x = (r + 1) % CUINT, a # r
    PROVE  Ahead(a, r) > 0 /\ Ahead(a, x) = Ahead(a, r) - 1
  <1>1. /\ Ahead(a, r) = IF a >= r THEN a - r ELSE a - r + CUINT
        /\ Ahead(a, x) = IF a >= x THEN a - x ELSE a - x + CUINT
    BY AheadIs, Zenon
  <1>2. r + 1 \in 0 .. 2 * CUINT - 1
    BY ConAssumption DEF Index
  <1>3. x = IF r + 1 < CUINT THEN r + 1 ELSE (r + 1) - CUINT
    BY <1>2, WrapsUp, Zenon
  <1> QED
    BY <1>1, <1>3, ConAssumption DEF Index

-----------------------------------------------------------------------------
(* The characters between two indices *)

\* The place of the k-th character from index f on.
Slot(f, k) == (f + (k - 1)) % INPUT_BUF

\* The slot of the k-th character from f, whether or not the index wraps in between.
LEMMA SlotIs ==
    ASSUME NEW f \in Index, NEW k \in 1 .. CUINT
    PROVE  Slot(f, k) \in 0 .. INPUT_BUF - 1 /\ ((f + k - 1) % CUINT) % INPUT_BUF = Slot(f, k)
  <1>1. PICK x \in 0 .. 2 * CUINT - 1 : x = f + (k - 1)
    BY ConAssumption DEF Index
  <1>2. x \in Int /\ INPUT_BUF \in Nat \ {0} /\ CUINT \in Int /\ CUINT % INPUT_BUF = 0
    BY ConAssumption
  <1>3. x % INPUT_BUF \in 0 .. INPUT_BUF - 1
    BY <1>2, IndexWraps, Zenon
  <1>4. (x % CUINT) % INPUT_BUF = x % INPUT_BUF
    <2>1. CASE x < CUINT
      BY <2>1, WrapsUp, Zenon
    <2>2. CASE ~(x < CUINT)
      <3>1. PICK y \in Int : y = x - CUINT
        BY <1>2
      <3>2. x = y + CUINT /\ x % CUINT = y
        <4>1. x % CUINT = y
          BY <2>2, <3>1, WrapsUp, Zenon
        <4>2. x = y + CUINT
          BY <1>2, <3>1
        <4> QED
          BY <4>1, <4>2, Zenon
      <3>3. (y + CUINT) % INPUT_BUF = y % INPUT_BUF
        BY <1>2, ModAdd, Zenon
      <3> QED
        BY <3>2, <3>3, Zenon
    <2> QED
      BY <2>1, <2>2, Zenon
  <1> QED
    BY <1>1, <1>3, <1>4, Zenon DEF Slot

\* Counted from an index behind, it is the same place further on.
LEMMA SlotShift ==
    ASSUME NEW r \in Index, NEW w \in Index, NEW k \in Nat
    PROVE  Slot(w, k) = Slot(r, Ahead(w, r) + k)
  <1>1. Ahead(w, r) = IF w >= r THEN w - r ELSE w - r + CUINT
    BY AheadIs, Zenon
  <1>2. PICK x \in Int : x = w + (k - 1)
    BY ConAssumption DEF Index
  <1>3. INPUT_BUF \in Nat \ {0} /\ CUINT \in Int /\ CUINT % INPUT_BUF = 0
    BY ConAssumption
  <1>4. (x + CUINT) % INPUT_BUF = x % INPUT_BUF
    BY <1>3, ModAdd, Zenon
  <1>5. r + ((Ahead(w, r) + k) - 1) = x \/ r + ((Ahead(w, r) + k) - 1) = x + CUINT
    BY <1>1, <1>2, ConAssumption DEF Index
  <1> QED
    BY <1>2, <1>4, <1>5, Zenon DEF Slot

\* No two characters of the buffer are in the same place.
LEMMA SlotApart ==
    ASSUME NEW f \in Index, NEW j \in 1 .. INPUT_BUF, NEW k \in 1 .. INPUT_BUF, j # k
    PROVE  Slot(f, j) # Slot(f, k)
  <1>1. PICK x \in Int : x = f + (j - 1)
    BY ConAssumption DEF Index
  <1>2. PICK y \in Int : y = f + (k - 1)
    BY ConAssumption DEF Index
  <1>3. INPUT_BUF \in Nat \ {0} /\ ((x < y /\ y < x + INPUT_BUF) \/ (y < x /\ x < y + INPUT_BUF))
    BY <1>1, <1>2, ConAssumption DEF Index
  <1>4. x % INPUT_BUF # y % INPUT_BUF
    BY <1>3, ModApart, Zenon
  <1> QED
    BY <1>1, <1>2, <1>4, Zenon DEF Slot

Buffers == [0 .. INPUT_BUF - 1 -> Chr]

\* What is in buffer b from index f to index t.
Text(b, f, t) == [k \in 1 .. (t - f) % CUINT |-> b[((f + k - 1) % CUINT) % INPUT_BUF]]

\* The characters between two indices, one by one.
LEMMA TextIs ==
    ASSUME NEW b \in Buffers, NEW f \in Index, NEW t \in Index
    PROVE  /\ Text(b, f, t) \in Seq(Chr) /\ Len(Text(b, f, t)) = Ahead(t, f)
           /\ Ahead(t, f) \in Nat
           /\ \A k \in 1 .. Ahead(t, f) : Text(b, f, t)[k] = b[Slot(f, k)]
  <1>1. PICK n \in Nat : n = Ahead(t, f) /\ n < CUINT
    <2>1. Ahead(t, f) \in Index
      BY AheadIs, Zenon
    <2> QED
      BY <2>1, ConAssumption DEF Index
  <1>2. PICK s : s = Text(b, f, t)
    BY Zenon
  <1>3. s = [k \in 1 .. n |-> b[((f + k - 1) % CUINT) % INPUT_BUF]]
    BY <1>1, <1>2, Zenon DEF Text, Ahead
  <1>4. \A k \in 1 .. n : k \in 1 .. CUINT
    BY <1>1, ConAssumption
  <1>5. \A k \in 1 .. n : s[k] = b[Slot(f, k)] /\ s[k] \in Chr
    BY <1>3, <1>4, SlotIs, Zenon DEF Buffers
  <1>6. s \in [1 .. n -> Chr]
    BY <1>3, <1>5, Zenon
  <1>7. s \in Seq(Chr)
    BY <1>6
  <1>8. Len(s) = n
    <2>1. Len(s) \in Nat /\ 1 .. Len(s) = 1 .. n
      BY <1>6, <1>7, LenProperties, Zenon
    <2> QED
      BY <2>1
  <1> QED
    BY <1>1, <1>2, <1>5, <1>7, <1>8, Zenon

\* Two sequences agree on their first n places; s is what comes in t after the first m places.
Same(s, t, n) == \A k \in 1 .. n : s[k] = t[k]
Follows(s, t, m, n) == \A k \in 1 .. n : s[k] = t[m + k]

\* The buffer, from the read index on: the characters that are ready, then the line.
Seen(b, r) == [k \in 1 .. INPUT_BUF |-> b[Slot(r, k)]]

First(s, u, n) == s \in Seq(Chr) /\ Len(s) = n /\ Same(s, u, n)
Rest(s, u, m, n) == s \in Seq(Chr) /\ Len(s) = n /\ Follows(s, u, m, n)

\* The complete lines are the first characters seen from r.
LEMMA TextFirst ==
    ASSUME NEW b \in Buffers, NEW r \in Index, NEW w \in Index, Ahead(w, r) <= INPUT_BUF
    PROVE  First(Text(b, r, w), Seen(b, r), Ahead(w, r))
  <1>1. PICK v : v = Seen(b, r)
    BY Zenon
  <1>2. \A k \in 1 .. INPUT_BUF : v[k] = b[Slot(r, k)]
    BY <1>1, Zenon DEF Seen
  <1>3. PICK s : s = Text(b, r, w)
    BY Zenon
  <1>4. PICK W \in Nat : W = Ahead(w, r) /\ W <= INPUT_BUF
    BY TextIs, Zenon
  <1>5. \A k \in 1 .. W : k \in 1 .. INPUT_BUF
    BY <1>4, ConAssumption
  <1>6. s \in Seq(Chr) /\ Len(s) = W /\ \A k \in 1 .. W : s[k] = b[Slot(r, k)]
    BY <1>3, <1>4, TextIs, Zenon
  <1>7. Same(s, v, W)
    BY <1>2, <1>5, <1>6, Zenon DEF Same
  <1> QED
    BY <1>1, <1>3, <1>4, <1>6, <1>7, Zenon DEF First

\* The line being edited is the characters that follow them.
LEMMA TextRest ==
    ASSUME NEW b \in Buffers, NEW r \in Index, NEW w \in Index, NEW e \in Index,
           InOrder(r, w, e)
    PROVE  Rest(Text(b, w, e), Seen(b, r), Ahead(w, r), Ahead(e, r) - Ahead(w, r))
  <1>1. PICK v : v = Seen(b, r)
    BY Zenon
  <1>2. \A k \in 1 .. INPUT_BUF : v[k] = b[Slot(r, k)]
    BY <1>1, Zenon DEF Seen
  <1>3. PICK s : s = Text(b, w, e)
    BY Zenon
  <1>4. PICK W, E : W = Ahead(w, r) /\ E = Ahead(e, r)
    BY Zenon
  <1>5. W \in Nat /\ E \in Nat /\ W <= E /\ E <= INPUT_BUF
    <2>1. W \in Nat /\ E \in Nat
      BY <1>4, TextIs, Zenon
    <2> QED
      BY <1>4, <2>1, Zenon DEF InOrder
  <1>6. Ahead(e, w) = E - W
    BY <1>4, EditAhead, Zenon
  <1>7. \A k \in 1 .. E - W : k \in Nat /\ W + k \in 1 .. INPUT_BUF
    BY <1>5, ConAssumption
  <1>8. s \in Seq(Chr) /\ Len(s) = E - W /\ \A k \in 1 .. E - W : s[k] = b[Slot(w, k)]
    <2>1. s \in Seq(Chr) /\ Len(s) = Ahead(e, w) /\ \A k \in 1 .. Ahead(e, w) : s[k] = b[Slot(w, k)]
      BY <1>3, TextIs, Zenon
    <2> QED
      BY <1>6, <2>1, Zenon
  <1>9. ASSUME NEW k \in 1 .. E - W PROVE s[k] = v[W + k]
    <2>1. Slot(w, k) = Slot(r, W + k)
      BY <1>4, <1>7, SlotShift, Zenon
    <2>2. s[k] = b[Slot(r, W + k)]
      BY <1>8, <2>1, Zenon
    <2>3. v[W + k] = b[Slot(r, W + k)]
      BY <1>2, <1>7, Zenon
    <2> QED
      BY <2>2, <2>3, Zenon
  <1>10. Follows(s, v, W, E - W)
    BY <1>9, Zenon DEF Follows
  <1> QED
    BY <1>1, <1>3, <1>4, <1>8, <1>10, Zenon DEF Rest

\* When a sequence is another one with a character more, and when it is two one after the other.
LEMMA AppendIs ==
    ASSUME NEW s \in Seq(Chr), NEW c \in Chr, NEW t \in Seq(Chr), NEW n \in Nat, Len(s) = n, Len(t) = n + 1,
           \A k \in 1 .. n : t[k] = s[k], t[n + 1] = c
    PROVE  t = Append(s, c)
  <1>1. PICK x : x = Append(s, c)
    BY Zenon
  <1>2. x \in Seq(Chr) /\ Len(x) = n + 1 /\ x[n + 1] = c /\ \A k \in 1 .. n : x[k] = s[k]
    BY <1>1, AppendProperties
  <1>3. \A k \in 1 .. n + 1 : k = n + 1 \/ k \in 1 .. n
    OBVIOUS
  <1>4. Len(t) = Len(x) /\ \A k \in 1 .. Len(t) : t[k] = x[k]
    BY <1>2, <1>3, Zenon
  <1>5. t = x
    BY <1>2, <1>4, SeqEqual, Zenon
  <1> QED
    BY <1>1, <1>5, Zenon

\* A sequence is its first part followed by the rest.
LEMMA ConcatIs ==
    ASSUME NEW s \in Seq(Chr), NEW l \in Seq(Chr), NEW t \in Seq(Chr),
           NEW m \in Nat, NEW n \in Nat, Len(s) = m, Len(l) = n, Len(t) = m + n,
           Same(s, t, m), Follows(l, t, m, n)
    PROVE  t = s \o l
  <1>1. PICK x : x = s \o l
    BY Zenon
  <1>2. x \in Seq(Chr) /\ Len(x) = m + n /\ \A k \in 1 .. m + n : x[k] = IF k <= m THEN s[k] ELSE l[k - m]
    BY <1>1, ConcatProperties, Zenon
  <1>3. ASSUME NEW k \in 1 .. m + n PROVE t[k] = x[k]
    <2>1. CASE k <= m
      <3>1. k \in 1 .. m
        BY <2>1
      <3> QED
        BY <1>2, <2>1, <3>1, Zenon DEF Same
    <2>2. CASE ~(k <= m)
      <3>1. k - m \in 1 .. n /\ m + (k - m) = k
        BY <2>2
      <3>2. t[m + (k - m)] = l[k - m]
        BY <3>1, Zenon DEF Follows
      <3> QED
        BY <1>2, <2>2, <3>1, <3>2, Zenon
    <2> QED
      BY <2>1, <2>2, Zenon
  <1>4. Len(t) = Len(x) /\ \A k \in 1 .. Len(t) : t[k] = x[k]
    BY <1>2, <1>3, Zenon
  <1>5. t = x
    BY <1>2, <1>4, SeqEqual, Zenon
  <1> QED
    BY <1>1, <1>5, Zenon

\* Where the characters are in a line of E - W characters behind W others, and in one that is
\* longer by one.
LEMMA Places ==
    ASSUME NEW W \in Nat, NEW E \in Nat, W <= E
    PROVE  /\ E - W \in Nat /\ (E - W) + 1 = E + 1 - W /\ W + (E + 1 - W) = E + 1
           /\ W + ((E - W) + 1) = E + 1
           /\ \A k \in 1 .. W : k \in 1 .. E /\ k \in 1 .. E + 1
           /\ \A k \in 1 .. E - W : W + k \in 1 .. E /\ k \in 1 .. (E - W) + 1
           /\ \A k \in 1 .. (E - W) + 1 : W + k \in 1 .. E + 1
           /\ (E - W) + 1 \in 1 .. (E - W) + 1
  <1>1. E - W \in Nat /\ (E - W) + 1 = E + 1 - W /\ W + (E + 1 - W) = E + 1 /\ W + ((E - W) + 1) = E + 1
    OBVIOUS
  <1>2. \A k \in 1 .. W : k \in 1 .. E /\ k \in 1 .. E + 1
    OBVIOUS
  <1>3. \A k \in 1 .. E - W : W + k \in 1 .. E /\ k \in 1 .. (E - W) + 1
    OBVIOUS
  <1>4. \A k \in 1 .. (E - W) + 1 : W + k \in 1 .. E + 1
    OBVIOUS
  <1>5. (E - W) + 1 \in 1 .. (E - W) + 1
    OBVIOUS
  <1> QED
    BY <1>1, <1>2, <1>3, <1>4, <1>5, Zenon

\* A character more at the end of what is in the buffer, u with it and v without: what is ready
\* stays, the line has the character at its end, and together they are all there is.
LEMMA ReadyStays ==
    ASSUME NEW W \in Nat, NEW E \in Nat, W <= E, NEW v, NEW u, Same(u, v, E),
           NEW ready, First(ready, v, W), NEW same, First(same, u, W)
    PROVE  same = ready
  <1>1. \A k \in 1 .. W : k \in 1 .. E
    BY Places, Zenon
  <1>2. ASSUME NEW k \in 1 .. W PROVE same[k] = ready[k]
    BY <1>1, Zenon DEF First, Same
  <1>3. /\ ready \in Seq(Chr) /\ same \in Seq(Chr) /\ Len(same) = Len(ready)
        /\ \A k \in 1 .. Len(same) : same[k] = ready[k]
    BY <1>2, Zenon DEF First
  <1> QED
    BY <1>3, SeqEqual, Zenon

\* The line being edited with one more character.
LEMMA LineGrows ==
    ASSUME NEW W \in Nat, NEW E \in Nat, W <= E, NEW c \in Chr, NEW v, NEW u,
           Same(u, v, E), u[E + 1] = c,
           NEW line, Rest(line, v, W, E - W), NEW l, Rest(l, u, W, (E - W) + 1)
    PROVE  l = Append(line, c)
  <1>p. /\ E - W \in Nat /\ W + ((E - W) + 1) = E + 1
        /\ \A k \in 1 .. E - W : W + k \in 1 .. E /\ k \in 1 .. (E - W) + 1
        /\ (E - W) + 1 \in 1 .. (E - W) + 1
    BY Places, Zenon
  <1>1. l[(E - W) + 1] = c
    <2>1. PICK n : n = (E - W) + 1
      BY Zenon
    <2>2. l[n] = u[W + n] /\ W + n = E + 1
      BY <1>p, <2>1, Zenon DEF Rest, Follows
    <2>3. l[n] = c
      BY <2>2, Zenon
    <2> QED
      BY <2>1, <2>3, Zenon
  <1>2. ASSUME NEW k \in 1 .. E - W PROVE l[k] = line[k]
    <2>1. W + k \in 1 .. E /\ k \in 1 .. (E - W) + 1
      BY <1>p, Zenon
    <2>2. l[k] = u[W + k]
      BY <2>1, Zenon DEF Rest, Follows
    <2>3. u[W + k] = v[W + k]
      BY <2>1, Zenon DEF Same
    <2>4. line[k] = v[W + k]
      BY Zenon DEF Rest, Follows
    <2> QED
      BY <2>2, <2>3, <2>4, Zenon
  <1>3. line \in Seq(Chr) /\ Len(line) = E - W /\ l \in Seq(Chr) /\ Len(l) = (E - W) + 1
    BY Zenon DEF Rest
  <1> QED
    BY <1>p, <1>1, <1>2, <1>3, AppendIs, Zenon

\* All that is seen is the complete lines and the line being edited.
LEMMA ReadyThenLine ==
    ASSUME NEW W \in Nat, NEW N \in Nat, NEW u,
           NEW ready, First(ready, u, W), NEW l, Rest(l, u, W, N), NEW all, First(all, u, W + N)
    PROVE  all = ready \o l
  <1>1. /\ \A k \in 1 .. W : k \in 1 .. W + N
        /\ \A k \in 1 .. N : W + k \in 1 .. W + N
    OBVIOUS
  <1>2. Same(ready, all, W)
    BY <1>1, Zenon DEF First, Same
  <1>3. Follows(l, all, W, N)
    <2>1. ASSUME NEW k \in 1 .. N PROVE l[k] = all[W + k]
      <3>1. l[k] = u[W + k]
        BY Zenon DEF Rest, Follows
      <3>2. all[W + k] = u[W + k]
        BY <1>1, Zenon DEF First, Same
      <3> QED
        BY <3>1, <3>2, Zenon
    <2> QED
      BY <2>1, Zenon DEF Follows
  <1>4. /\ ready \in Seq(Chr) /\ Len(ready) = W /\ l \in Seq(Chr) /\ Len(l) = N
        /\ all \in Seq(Chr) /\ Len(all) = W + N
    BY Zenon DEF First, Rest
  <1> QED
    BY <1>2, <1>3, <1>4, ConcatIs, Zenon

Grows(u, v, n, c) == Same(u, v, n) /\ u[n + 1] = c
Joins(same, l, all, ready, line, c) ==
    same = ready /\ l = Append(line, c) /\ all = ready \o Append(line, c)

\* One more character seen, for the complete lines, the line and both together.
LEMMA AppendSeqs ==
    ASSUME NEW W \in Nat, NEW E \in Nat, W <= E, NEW X, X = E + 1, NEW c \in Chr, NEW v, NEW u, Grows(u, v, E, c),
           NEW ready, First(ready, v, W), NEW line, Rest(line, v, W, E - W),
           NEW same, First(same, u, W), NEW l, Rest(l, u, W, X - W), NEW all, First(all, u, X)
    PROVE  Joins(same, l, all, ready, line, c)
  <1>0. Same(u, v, E) /\ u[E + 1] = c
    BY Zenon DEF Grows
  <1>1. same = ready
    BY <1>0, ReadyStays, Zenon
  <1>2. PICK N \in Nat : N = (E - W) + 1 /\ N = X - W /\ W + N = X
    OBVIOUS
  <1>3. Rest(l, u, W, N) /\ First(all, u, W + N)
    BY <1>2, Zenon
  <1>4. Rest(l, u, W, (E - W) + 1)
    BY <1>2, <1>3, Zenon
  <1>5. l = Append(line, c)
    BY <1>0, <1>4, LineGrows, Zenon
  <1>6. all = same \o l
    BY <1>3, ReadyThenLine, Zenon
  <1> QED
    BY <1>1, <1>5, <1>6, Zenon DEF Joins

\* What consoleintr puts at the edit index is seen after all the rest.
Put(b, e, c) == [b EXCEPT ![e % INPUT_BUF] = c]

\* A character put at e is seen behind the others, which stay.
LEMMA SeenStep ==
    ASSUME NEW b \in Buffers, NEW r \in Index, NEW e \in Index, NEW c, Ahead(e, r) < INPUT_BUF
    PROVE  Grows(Seen(Put(b, e, c), r), Seen(b, r), Ahead(e, r), c)
  <1>d. PICK d : d = Put(b, e, c)
    BY Zenon
  <1>e. PICK E \in Nat : E = Ahead(e, r) /\ E < INPUT_BUF
    BY TextIs, Zenon
  <1>1. PICK u : u = Seen(d, r)
    BY Zenon
  <1>2. PICK v : v = Seen(b, r)
    BY Zenon
  <1>3. \A k \in 1 .. INPUT_BUF : u[k] = d[Slot(r, k)] /\ v[k] = b[Slot(r, k)]
    BY <1>1, <1>2, Zenon DEF Seen
  <1>4. PICK p : p = Slot(r, E + 1)
    BY Zenon
  <1>5. p = e % INPUT_BUF
    <2>1. 1 \in Nat /\ e + (1 - 1) = e
      BY DEF Index
    <2>2. Slot(e, 1) = p
      BY <1>4, <1>e, <2>1, SlotShift, Zenon
    <2> QED
      BY <2>1, <2>2, Zenon DEF Slot
  <1>6. /\ E + 1 \in 1 .. INPUT_BUF /\ E + 1 \in 1 .. CUINT
        /\ \A k \in 1 .. E : k \in 1 .. INPUT_BUF /\ k \in 1 .. CUINT /\ k # E + 1
    BY <1>e, ConAssumption
  <1>7. p \in 0 .. INPUT_BUF - 1 /\ \A k \in 1 .. E : Slot(r, k) \in 0 .. INPUT_BUF - 1 /\ Slot(r, k) # p
    <2>1. p \in 0 .. INPUT_BUF - 1
      BY <1>4, <1>6, SlotIs, Zenon
    <2>2. ASSUME NEW k \in 1 .. E PROVE Slot(r, k) \in 0 .. INPUT_BUF - 1
      BY <1>6, SlotIs, Zenon
    <2>3. ASSUME NEW k \in 1 .. E PROVE Slot(r, k) # p
      BY <1>4, <1>6, SlotApart, Zenon
    <2> QED
      BY <2>1, <2>2, <2>3, Zenon
  <1>8. d[p] = c /\ \A q \in 0 .. INPUT_BUF - 1 : q # p => d[q] = b[q]
    BY <1>5, <1>7, <1>d, Zenon DEF Put, Buffers
  <1>9. u[E + 1] = c
    BY <1>3, <1>4, <1>6, <1>8, Zenon
  <1>10. Same(u, v, E)
    <2>1. ASSUME NEW k \in 1 .. E PROVE u[k] = v[k]
      <3>1. u[k] = d[Slot(r, k)] /\ v[k] = b[Slot(r, k)]
        BY <1>3, <1>6, Zenon
      <3>2. d[Slot(r, k)] = b[Slot(r, k)]
        BY <1>7, <1>8, Zenon
      <3> QED
        BY <3>1, <3>2, Zenon
    <2> QED
      BY <2>1, Zenon DEF Same
  <1> QED
    BY <1>1, <1>2, <1>9, <1>10, <1>d, <1>e, Zenon DEF Grows

\* No character lies between an index and itself.
LEMMA TextNone ==
    ASSUME NEW b \in Buffers, NEW x \in Index
    PROVE  Text(b, x, x) = <<>> /\ Ahead(x, x) = 0
  <1>1. Ahead(x, x) = 0
    <2>1. Ahead(x, x) = IF x >= x THEN x - x ELSE x - x + CUINT
      BY AheadIs, Zenon
    <2> QED
      BY <2>1 DEF Index
  <1>2. Text(b, x, x) \in Seq(Chr) /\ Len(Text(b, x, x)) = 0
    BY <1>1, TextIs, Zenon
  <1>3. Text(b, x, x) = <<>>
    BY <1>2, EmptySeq, Zenon
  <1> QED
    BY <1>1, <1>3, Zenon

\* The same for the contents of the buffer.
LEMMA SeenGrows ==
    ASSUME NEW b \in Buffers, NEW d \in Buffers,
           NEW r \in Index, NEW w \in Index, NEW e \in Index, NEW x \in Index, NEW c \in Chr,
           InOrder(r, w, e), InOrder(r, w, x), Ahead(x, r) = Ahead(e, r) + 1,
           Grows(Seen(d, r), Seen(b, r), Ahead(e, r), c)
    PROVE  Joins(Text(d, r, w), Text(d, w, x), Text(d, r, x), Text(b, r, w), Text(b, w, e), c)
  <1>1. Ahead(w, r) \in Nat /\ Ahead(e, r) \in Nat /\ Ahead(x, r) \in Nat
    BY TextIs, Zenon
  <1>2. Ahead(w, r) <= Ahead(e, r) /\ Ahead(w, r) <= INPUT_BUF /\ Ahead(x, r) <= INPUT_BUF
    <2>1. Ahead(w, r) <= Ahead(e, r) /\ Ahead(e, r) <= INPUT_BUF /\ Ahead(x, r) <= INPUT_BUF
      BY Zenon DEF InOrder
    <2> QED
      BY <1>1, <2>1, ConAssumption
  <1>3. PICK W \in Nat, E \in Nat, X \in Nat : W = Ahead(w, r) /\ E = Ahead(e, r) /\ X = Ahead(x, r)
    BY <1>1, Zenon
  <1>4. PICK u, v : u = Seen(d, r) /\ v = Seen(b, r)
    BY Zenon
  <1>5. First(Text(b, r, w), v, W)
    BY <1>2, <1>3, <1>4, TextFirst, Zenon
  <1>6. First(Text(d, r, w), u, W)
    BY <1>2, <1>3, <1>4, TextFirst, Zenon
  <1>7. First(Text(d, r, x), u, X)
    BY <1>2, <1>3, <1>4, TextFirst, Zenon
  <1>8. Rest(Text(b, w, e), v, W, E - W)
    BY <1>3, <1>4, TextRest, Zenon
  <1>9. Rest(Text(d, w, x), u, W, X - W)
    BY <1>3, <1>4, TextRest, Zenon
  <1>10. W <= E /\ X = E + 1 /\ Grows(u, v, E, c)
    BY <1>2, <1>3, <1>4, Zenon
  <1> QED
    BY <1>5, <1>6, <1>7, <1>8, <1>9, <1>10, AppendSeqs, Zenon

\* consoleintr of a character: it is at the end of the line, and a line that is complete joins what
\* is ready.
LEMMA TypeText ==
    ASSUME NEW b \in Buffers, NEW r \in Index, NEW w \in Index, NEW e \in Index,
           InOrder(r, w, e), Ahead(e, r) < INPUT_BUF, NEW c \in Chr,
           NEW x \in Index, x = (e + 1) % CUINT
    PROVE  /\ InOrder(r, w, x) /\ InOrder(r, x, x) /\ Put(b, e, c) \in Buffers
           /\ Joins(Text(Put(b, e, c), r, w), Text(Put(b, e, c), w, x), Text(Put(b, e, c), r, x),
                    Text(b, r, w), Text(b, w, e), c)
  <1>1. Ahead(w, r) \in Nat /\ Ahead(e, r) \in Nat /\ Ahead(w, r) <= Ahead(e, r)
    <2>1. Ahead(w, r) \in Nat /\ Ahead(e, r) \in Nat
      BY TextIs, Zenon
    <2> QED
      BY <2>1, Zenon DEF InOrder
  <1>2. Ahead(x, r) = Ahead(e, r) + 1
    BY EditMoves, Zenon
  <1>3. InOrder(r, w, x) /\ InOrder(r, x, x)
    <2>1. Ahead(w, r) <= Ahead(x, r) /\ Ahead(x, r) <= INPUT_BUF /\ Ahead(x, r) <= Ahead(x, r)
      BY <1>1, <1>2, ConAssumption
    <2> QED
      BY <2>1, Zenon DEF InOrder
  <1>4. Put(b, e, c) \in Buffers
    BY Zenon DEF Put, Buffers
  <1>5. Grows(Seen(Put(b, e, c), r), Seen(b, r), Ahead(e, r), c)
    BY SeenStep, Zenon
  <1>6. Joins(Text(Put(b, e, c), r, w), Text(Put(b, e, c), w, x), Text(Put(b, e, c), r, x),
              Text(b, r, w), Text(b, w, e), c)
    BY <1>2, <1>3, <1>4, <1>5, SeenGrows, Zenon
  <1> QED
    BY <1>3, <1>4, <1>6, Zenon

\* When a sequence is the beginning of another one, and when it is another one without its head.
LEMMA PrefixIs ==
    ASSUME NEW s \in Seq(Chr), NEW t \in Seq(Chr), NEW n \in Nat, n <= Len(s), Len(t) = n, Same(t, s, n)
    PROVE  t = SubSeq(s, 1, n)
  <1>1. PICK m \in Nat : m = Len(s)
    BY LenProperties, Zenon
  <1>2. \A k \in 1 .. n : k \in 1 .. m
    BY <1>1
  <1>3. \A k \in 1 .. m : s[k] \in Chr
    BY <1>1, ElementOfSeq, Zenon
  <1>4. \A k \in 1 .. n : s[k] \in Chr
    BY <1>2, <1>3, Zenon
  <1>5. PICK x : x = SubSeq(s, 1, n)
    BY Zenon
  <1>6. /\ x \in Seq(Chr) /\ Len(x) = IF 1 <= n THEN n - 1 + 1 ELSE 0
        /\ \A k \in 1 .. n - 1 + 1 : x[k] = s[1 + k - 1]
    <2>1. 1 \in Int /\ n \in Int
      OBVIOUS
    <2> QED
      BY <1>4, <1>5, <2>1, SubSeqProperties
  <1>7. n - 1 + 1 = n /\ (1 <= n \/ n = 0) /\ \A k \in 1 .. n : 1 + k - 1 = k
    OBVIOUS
  <1>8. Len(x) = n /\ \A k \in 1 .. n : x[k] = s[k]
    <2>1. Len(x) = n
      BY <1>6, <1>7
    <2>2. \A k \in 1 .. n : x[k] = s[k]
      BY <1>6, <1>7, Zenon
    <2> QED
      BY <2>1, <2>2, Zenon
  <1>9. Len(t) = Len(x) /\ \A k \in 1 .. Len(t) : t[k] = x[k]
    BY <1>8, Zenon DEF Same
  <1>10. t = x
    BY <1>6, <1>9, SeqEqual, Zenon
  <1> QED
    BY <1>5, <1>10, Zenon

\* The tail of a sequence, from its characters.
LEMMA TailIs ==
    ASSUME NEW s \in Seq(Chr), NEW t \in Seq(Chr), NEW n \in Nat, Len(s) = n + 1, Len(t) = n, Follows(t, s, 1, n)
    PROVE  s # <<>> /\ t = Tail(s)
  <1>1. s # <<>>
    <2>1. n + 1 # 0
      OBVIOUS
    <2>2. Len(<<>>) = 0
      BY EmptySeq, Zenon
    <2> QED
      BY <2>1, <2>2, Zenon
  <1>2. PICK x : x = Tail(s)
    BY Zenon
  <1>3. x \in Seq(Chr) /\ Len(x) = (n + 1) - 1 /\ \A k \in 1 .. Len(x) : x[k] = s[k + 1]
    BY <1>1, <1>2, HeadTailProperties, Zenon
  <1>4. (n + 1) - 1 = n /\ \A k \in 1 .. n : k + 1 = 1 + k
    OBVIOUS
  <1>5. Len(t) = Len(x) /\ \A k \in 1 .. Len(t) : t[k] = x[k]
    BY <1>3, <1>4, Zenon DEF Follows
  <1>6. t = x
    BY <1>3, <1>5, SeqEqual, Zenon
  <1> QED
    BY <1>1, <1>2, <1>6, Zenon

\* consoleintr of ^H and ^U: what is left of the line is its beginning.
Begins(l, s) == \E n \in 0 .. Len(s) : l = SubSeq(s, 1, n)

\* With e moved back, the line is a beginning of what it was.
LEMMA SeenShrinks ==
    ASSUME NEW W \in Nat, NEW E \in Nat, NEW X \in Nat, W <= X, X <= E, NEW v,
           NEW line, Rest(line, v, W, E - W), NEW l, Rest(l, v, W, X - W)
    PROVE  Begins(l, line)
  <1>1. PICK n \in Nat, m \in Nat : n = X - W /\ m = E - W /\ n <= m
    OBVIOUS
  <1>2. \A k \in 1 .. n : k \in 1 .. m
    BY <1>1
  <1>3. line \in Seq(Chr) /\ Len(line) = m /\ \A k \in 1 .. m : line[k] = v[W + k]
    BY <1>1, Zenon DEF Rest, Follows
  <1>4. l \in Seq(Chr) /\ Len(l) = n /\ \A k \in 1 .. n : l[k] = v[W + k]
    BY <1>1, Zenon DEF Rest, Follows
  <1>5. Same(l, line, n)
    BY <1>2, <1>3, <1>4, Zenon DEF Same
  <1>6. l = SubSeq(line, 1, n)
    BY <1>1, <1>3, <1>4, <1>5, PrefixIs, Zenon
  <1>7. n \in 0 .. Len(line)
    BY <1>1, <1>3
  <1> QED
    BY <1>6, <1>7, Zenon DEF Begins

\* Backspace and ^U leave a beginning of the line, and the complete lines alone.
LEMMA EraseText ==
    ASSUME NEW b \in Buffers, NEW r \in Index, NEW w \in Index, NEW e \in Index, InOrder(r, w, e),
           NEW n \in 0 .. Ahead(e, w), NEW x \in Index, x = (e - n) % CUINT
    PROVE  InOrder(r, w, x) /\ Begins(Text(b, w, x), Text(b, w, e))
  <1>1. Ahead(w, r) \in Nat /\ Ahead(e, r) \in Nat /\ Ahead(x, r) \in Nat
    BY TextIs, Zenon
  <1>2. Ahead(w, r) <= Ahead(e, r) /\ Ahead(e, r) <= INPUT_BUF
    BY Zenon DEF InOrder
  <1>3. Ahead(e, w) = Ahead(e, r) - Ahead(w, r)
    BY EditAhead, Zenon
  <1>4. n \in Nat /\ n <= Ahead(e, r) - Ahead(w, r) /\ n <= Ahead(e, r)
    BY <1>1, <1>2, <1>3
  <1>5. Ahead(x, r) = Ahead(e, r) - n
    <2>1. n \in Nat /\ n <= Ahead(e, r)
      BY <1>4, Zenon
    <2>2. Back(x, e, r, n)
      BY <2>1, EditBack, Zenon
    <2> QED
      BY <2>2, Zenon DEF Back
  <1>6. Ahead(w, r) <= Ahead(x, r) /\ Ahead(x, r) <= Ahead(e, r) /\ Ahead(x, r) <= INPUT_BUF
    BY <1>1, <1>2, <1>4, <1>5, ConAssumption
  <1>7. InOrder(r, w, x)
    BY <1>6, Zenon DEF InOrder
  <1>8. Rest(Text(b, w, e), Seen(b, r), Ahead(w, r), Ahead(e, r) - Ahead(w, r))
    BY TextRest, Zenon
  <1>9. Rest(Text(b, w, x), Seen(b, r), Ahead(w, r), Ahead(x, r) - Ahead(w, r))
    BY <1>7, TextRest, Zenon
  <1>10. Begins(Text(b, w, x), Text(b, w, e))
    BY <1>1, <1>6, <1>8, <1>9, SeenShrinks, Zenon
  <1> QED
    BY <1>7, <1>10, Zenon

\* consoleread of a character: it is the first that is ready, and the others stay.
Taken(s, t, c) == s # <<>> /\ Head(s) = c /\ t = Tail(s)

\* A reader takes the first character of the complete lines.
LEMMA TakeText ==
    ASSUME NEW b \in Buffers, NEW r \in Index, NEW w \in Index, NEW e \in Index, InOrder(r, w, e), r # w,
           NEW x \in Index, x = (r + 1) % CUINT
    PROVE  InOrder(x, w, e) /\ Taken(Text(b, r, w), Text(b, x, w), b[r % INPUT_BUF])
  <1>1. Ahead(w, r) \in Nat /\ Ahead(e, r) \in Nat
    BY TextIs, Zenon
  <1>2. Ahead(w, r) <= Ahead(e, r) /\ Ahead(e, r) <= INPUT_BUF
    BY Zenon DEF InOrder
  <1>3. Ahead(w, r) > 0 /\ Ahead(w, x) = Ahead(w, r) - 1
    BY ReadMoves, Zenon
  <1>4. e # r
    <2>1. Ahead(r, r) = 0
      BY TextNone, Zenon
    <2>2. Ahead(e, r) # 0
      BY <1>1, <1>2, <1>3
    <2> QED
      BY <2>1, <2>2, Zenon
  <1>5. Ahead(e, x) = Ahead(e, r) - 1
    BY <1>4, ReadMoves, Zenon
  <1>6. InOrder(x, w, e)
    <2>1. Ahead(w, x) <= Ahead(e, x) /\ Ahead(e, x) <= INPUT_BUF
      BY <1>1, <1>2, <1>3, <1>5, ConAssumption
    <2> QED
      BY <2>1, Zenon DEF InOrder
  <1>7. PICK n \in Nat : n = Ahead(w, x) /\ n + 1 = Ahead(w, r)
    BY <1>1, <1>3
  <1>8. PICK s : s = Text(b, r, w)
    BY Zenon
  <1>9. PICK t : t = Text(b, x, w)
    BY Zenon
  <1>10. s \in Seq(Chr) /\ Len(s) = n + 1 /\ \A k \in 1 .. n + 1 : s[k] = b[Slot(r, k)]
    <2>1. s \in Seq(Chr) /\ Len(s) = Ahead(w, r) /\ \A k \in 1 .. Ahead(w, r) : s[k] = b[Slot(r, k)]
      BY <1>8, TextIs, Zenon
    <2> QED
      BY <1>7, <2>1, Zenon
  <1>11. t \in Seq(Chr) /\ Len(t) = n /\ \A k \in 1 .. n : t[k] = b[Slot(x, k)]
    BY <1>7, <1>9, TextIs, Zenon
  <1>12. \A k \in 1 .. n : k \in Nat /\ 1 + k \in 1 .. n + 1
    BY <1>7
  <1>13. Ahead(x, r) = 1
    <2>1. Ahead(x, r) = IF x >= r THEN x - r ELSE x - r + CUINT
      BY AheadIs, Zenon
    <2>2. r + 1 \in 0 .. 2 * CUINT - 1
      BY ConAssumption DEF Index
    <2>3. x = IF r + 1 < CUINT THEN r + 1 ELSE (r + 1) - CUINT
      BY <2>2, WrapsUp, Zenon
    <2> QED
      BY <2>1, <2>3, ConAssumption DEF Index
  <1>14. ASSUME NEW k \in 1 .. n PROVE t[k] = s[1 + k]
    <2>1. Slot(x, k) = Slot(r, 1 + k)
      <3>1. k \in Nat
        BY <1>12, Zenon
      <3>2. Slot(x, k) = Slot(r, Ahead(x, r) + k)
        BY <3>1, SlotShift, Zenon
      <3> QED
        BY <1>13, <3>2, Zenon
    <2>2. t[k] = b[Slot(r, 1 + k)]
      BY <1>11, <2>1, Zenon
    <2>3. s[1 + k] = b[Slot(r, 1 + k)]
      BY <1>10, <1>12, Zenon
    <2> QED
      BY <2>2, <2>3, Zenon
  <1>15. Follows(t, s, 1, n)
    BY <1>14, Zenon DEF Follows
  <1>16. s # <<>> /\ t = Tail(s)
    BY <1>7, <1>10, <1>11, <1>15, TailIs, Zenon
  <1>17. Head(s) = b[r % INPUT_BUF]
    <2>1. r + (1 - 1) = r /\ 1 \in 1 .. n + 1
      BY <1>7 DEF Index
    <2>2. s[1] = b[Slot(r, 1)]
      BY <1>10, <2>1, Zenon
    <2>3. Slot(r, 1) = r % INPUT_BUF
      BY <2>1, Zenon DEF Slot
    <2>4. Head(s) = s[1]
      BY <1>10, <1>16
    <2> QED
      BY <2>2, <2>3, <2>4, Zenon
  <1> QED
    BY <1>6, <1>8, <1>9, <1>16, <1>17, Zenon DEF Taken

-----------------------------------------------------------------------------
(* The line editor *)

Reading == {"lock", "loop", "doze", "sleep"}
Open(s) == s = <<>> \/ s[Len(s)] # "nl"     \* not yet the whole of a line

\* What the line editor needs besides ConInv: the order of the indices, and that a read goes on
\* only until it has a newline.
OrderInv == InOrder(cr, cw, ce)
OpenInv  == \A r \in CReader : rpc[r] \in Reading => Open(rgot[r])

\* What is ready and what is still edited, before and after a step.
LEMMA CharsIs == /\ Chars(cr, cw) = Text(cbuf, cr, cw) /\ Chars(cw, ce) = Text(cbuf, cw, ce)
                 /\ Chars(cr, cw)' = Text(cbuf', cr', cw') /\ Chars(cw, ce)' = Text(cbuf', cw', ce')
  BY Zenon DEF Chars, Text

\* The types the maps of the actions need.
LEMMA ConTyped ==
    ASSUME ConInv
    PROVE  /\ cr \in Index /\ cw \in Index /\ ce \in Index /\ cbuf \in Buffers
           /\ rgot \in [CReader -> Seq(Chr)] /\ rpc \in [CReader -> Pcs]
  BY Zenon DEF ConInv, ConTypeOK, Index, Buffers, Pcs

\* The steps of the line editor, in terms of the buffer.
LEMMA EditorType ==
    ASSUME NEW c \in Chr, NEW ready, NEW line, ready = Text(cbuf, cr, cw), line = Text(cbuf, cw, ce),
           Len(ready) + Len(line) < INPUT_BUF, rgot' = rgot,
           NEW full \in BOOLEAN, full <=> c \in {"nl", "eof"} \/ Len(ready) + Len(Append(line, c)) = INPUT_BUF,
           Text(cbuf', cr', cw') = IF full THEN ready \o Append(line, c) ELSE ready,
           Text(cbuf', cw', ce') = IF full THEN <<>> ELSE Append(line, c)
    PROVE  Editor!LNext
  <1>1. Editor!Type(c)
    BY CharsIs, Zenon DEF Editor!Type
  <1> QED
    BY <1>1, Zenon DEF Editor!LNext, Chr

\* A line cut short is an erasure of the line editor.
LEMMA EditorErase ==
    ASSUME Begins(Text(cbuf', cw', ce'), Text(cbuf, cw, ce)), Text(cbuf', cr', cw') = Text(cbuf, cr, cw), rgot' = rgot
    PROVE  Editor!LNext
  <1>1. Editor!Erase
    BY CharsIs, Zenon DEF Editor!Erase, Begins
  <1> QED
    BY <1>1, Zenon DEF Editor!LNext

\* A first character taken is a read of the line editor.
LEMMA EditorTake ==
    ASSUME NEW r \in CReader, NEW ready, ready = Text(cbuf, cr, cw), ready # <<>>,
           Text(cbuf', cr', cw') = Tail(ready), Text(cbuf', cw', ce') = Text(cbuf, cw, ce),
           \/ Head(ready) # "eof" /\ Open(rgot[r]) /\ rgot' = [rgot EXCEPT ![r] = Append(@, Head(ready))]
           \/ Head(ready) = "eof" /\ rgot[r] = <<>> /\ rgot' = rgot
    PROVE  Editor!LNext
  <1>1. Editor!Take(r) \/ Editor!TakeEof(r)
    BY CharsIs, Zenon DEF Editor!Take, Editor!TakeEof, Open
  <1> QED
    BY <1>1, Zenon DEF Editor!LNext

\* A read that starts is one of the line editor.
LEMMA EditorNewRead ==
    ASSUME NEW r \in CReader, UNCHANGED inVars, rgot' = [rgot EXCEPT ![r] = <<>>]
    PROVE  Editor!LNext
  <1>1. cbuf' = cbuf /\ cr' = cr /\ cw' = cw /\ ce' = ce
    BY Zenon DEF inVars
  <1>2. Text(cbuf', cr', cw') = Text(cbuf, cr, cw) /\ Text(cbuf', cw', ce') = Text(cbuf, cw, ce)
    BY <1>1, Zenon
  <1>3. Editor!NewRead(r)
    BY CharsIs, <1>2, Zenon DEF Editor!NewRead
  <1> QED
    BY <1>3, Zenon DEF Editor!LNext

\* A step that leaves the buffer and what was read alone is a stutter of the line editor.
LEMMA EditorStays ==
    ASSUME UNCHANGED <<inVars, rgot>>
    PROVE  UNCHANGED Editor!lVars
  <1>1. cbuf' = cbuf /\ cr' = cr /\ cw' = cw /\ ce' = ce /\ rgot' = rgot
    BY Zenon DEF inVars
  <1>2. Text(cbuf', cr', cw') = Text(cbuf, cr, cw) /\ Text(cbuf', cw', ce') = Text(cbuf, cw, ce)
    BY <1>1, Zenon
  <1> QED
    BY CharsIs, <1>1, <1>2, Zenon DEF Editor!lVars

\* How many characters there are, with one more.
Amount(ready, line, c, n) == Len(ready) + Len(line) = n /\ Len(ready) + Len(Append(line, c)) = n + 1

\* What is in the buffer is as long as the distance of e from r.
LEMMA Lengths ==
    ASSUME NEW b \in Buffers, NEW r \in Index, NEW w \in Index, NEW e \in Index, InOrder(r, w, e), NEW c
    PROVE  Amount(Text(b, r, w), Text(b, w, e), c, Ahead(e, r))
  <1>1. PICK s, t : s = Text(b, r, w) /\ t = Text(b, w, e)
    BY Zenon
  <1>2. s \in Seq(Chr) /\ Len(s) = Ahead(w, r) /\ Ahead(w, r) \in Nat
    BY <1>1, TextIs, Zenon
  <1>3. t \in Seq(Chr) /\ Len(t) = Ahead(e, w) /\ Ahead(e, w) = Ahead(e, r) - Ahead(w, r) /\ Ahead(e, r) \in Nat
    BY <1>1, TextIs, EditAhead, Zenon
  <1>4. Len(Append(t, c)) = Len(t) + 1
    BY <1>3
  <1>5. Len(s) + Len(t) = Ahead(e, r) /\ Len(s) + Len(Append(t, c)) = Ahead(e, r) + 1
    BY <1>2, <1>3, <1>4
  <1> QED
    BY <1>1, <1>5, Zenon DEF Amount

\* The readers that go on reading are as before.
LEMMA OpenStays ==
    ASSUME OpenInv, \A r \in CReader : rpc'[r] \in Reading => rpc[r] \in Reading, rgot' = rgot
    PROVE  OpenInv'
  BY Zenon DEF OpenInv

\* A character typed is a step of the line editor: the line grows, or is complete.
LEMMA TypeCharLines ==
    ASSUME ConInv, OrderInv, OpenInv, NEW k \in Typed, TypeChar(k)
    PROVE  OrderInv' /\ OpenInv' /\ Editor!LNext
  <1>1. PICK c \in Chr : c = IF k = "cr" THEN "nl" ELSE k
    BY Zenon DEF Typed, Chr
  <1>2. PICK x \in Index : x = (ce + 1) % CUINT
    <2>1. ce + 1 \in Int
      BY ConTyped, ConAssumption DEF Index
    <2> QED
      BY <2>1, IndexWraps, Zenon DEF Index
  <1>3. /\ cbuf' = Put(cbuf, ce, c) /\ ce' = x /\ cr' = cr /\ rgot' = rgot /\ Ahead(ce, cr) < INPUT_BUF
        /\ cw' = IF Complete(c, x) THEN x ELSE cw
        /\ rpc' = IF Complete(c, x) THEN ConWakeup ELSE rpc
    BY <1>1, <1>2, Zenon DEF TypeChar, Put, Ahead
  <1>4. /\ cr \in Index /\ cw \in Index /\ ce \in Index /\ cbuf \in Buffers /\ InOrder(cr, cw, ce)
    BY ConTyped, Zenon DEF OrderInv
  <1>5. PICK d : d = Put(cbuf, ce, c)
    BY Zenon
  <1>6. PICK ready, line : ready = Text(cbuf, cr, cw) /\ line = Text(cbuf, cw, ce)
    BY Zenon
  <1>7. /\ InOrder(cr, cw, x) /\ InOrder(cr, x, x) /\ d \in Buffers
        /\ Joins(Text(d, cr, cw), Text(d, cw, x), Text(d, cr, x), ready, line, c)
    BY <1>2, <1>3, <1>4, <1>5, <1>6, TypeText, Zenon
  <1>8. Text(d, x, x) = <<>>
    BY <1>7, TextNone, Zenon
  <1>9. PICK n \in Nat : n = Ahead(ce, cr) /\ n < INPUT_BUF
    BY <1>3, <1>4, TextIs, Zenon
  <1>10. Len(ready) + Len(line) = n /\ Len(ready) + Len(Append(line, c)) = n + 1
    <2>1. Amount(Text(cbuf, cr, cw), Text(cbuf, cw, ce), c, Ahead(ce, cr))
      BY <1>4, Lengths, Zenon
    <2>2. Amount(ready, line, c, n)
      BY <1>6, <1>9, <2>1, Zenon
    <2> QED
      BY <2>2, Zenon DEF Amount
  <1>11. x = (cr + INPUT_BUF) % CUINT <=> n + 1 = INPUT_BUF
    BY <1>2, <1>3, <1>4, <1>9, EditMoves, Zenon
  <1>12. PICK full \in BOOLEAN : full <=> Complete(c, x)
    BY Zenon
  <1>13. full <=> c \in {"nl", "eof"} \/ Len(ready) + Len(Append(line, c)) = INPUT_BUF
    BY <1>10, <1>11, <1>12, Zenon DEF Complete
  <1>14. Text(cbuf', cr', cw') = IF full THEN ready \o Append(line, c) ELSE ready
    BY <1>3, <1>5, <1>7, <1>12, Zenon DEF Joins
  <1>15. Text(cbuf', cw', ce') = IF full THEN <<>> ELSE Append(line, c)
    BY <1>3, <1>5, <1>7, <1>8, <1>12, Zenon DEF Joins
  <1>16. Len(ready) + Len(line) < INPUT_BUF
    BY <1>9, <1>10, Zenon
  <1>17. Editor!LNext
    BY <1>3, <1>6, <1>13, <1>14, <1>15, <1>16, EditorType, Zenon
  <1>18. OrderInv'
    BY <1>3, <1>7, Zenon DEF OrderInv
  <1>19. OpenInv'
    <2>1. ASSUME NEW r \in CReader PROVE rpc'[r] \in Reading => rpc[r] \in Reading
      BY <1>3, Zenon DEF ConWakeup, Reading
    <2> QED
      BY <1>3, <2>1, OpenStays, Zenon
  <1> QED
    BY <1>17, <1>18, <1>19, Zenon

\* ^H and ^U take characters off the end of the line.
LEMMA EraseLines ==
    ASSUME ConInv, OrderInv, OpenInv, NEW n \in 0 .. Ahead(ce, cw), ce' = (ce - n) % CUINT,
           UNCHANGED <<cbuf, cr, cw, rpc, rgot>>
    PROVE  OrderInv' /\ OpenInv' /\ Editor!LNext
  <1>1. /\ cr \in Index /\ cw \in Index /\ ce \in Index /\ cbuf \in Buffers /\ InOrder(cr, cw, ce)
    BY ConTyped, Zenon DEF OrderInv
  <1>2. PICK x \in Index : x = (ce - n) % CUINT /\ ce' = x
    <2>1. Ahead(ce, cw) \in Nat
      BY <1>1, TextIs, Zenon
    <2>2. ce - n \in Int
      BY <1>1, <2>1, ConAssumption DEF Index
    <2> QED
      BY <2>2, IndexWraps, Zenon DEF Index
  <1>3. InOrder(cr, cw, x) /\ Begins(Text(cbuf, cw, x), Text(cbuf, cw, ce))
    BY <1>1, <1>2, EraseText, Zenon
  <1>4. cbuf' = cbuf /\ cr' = cr /\ cw' = cw /\ rpc' = rpc /\ rgot' = rgot
    BY Zenon
  <1>5. Begins(Text(cbuf', cw', ce'), Text(cbuf, cw, ce)) /\ Text(cbuf', cr', cw') = Text(cbuf, cr, cw)
    BY <1>2, <1>3, <1>4, Zenon
  <1>6. Editor!LNext
    BY <1>4, <1>5, EditorErase, Zenon
  <1>7. OrderInv' /\ OpenInv'
    BY <1>2, <1>3, <1>4, OpenStays, Zenon DEF OrderInv
  <1> QED
    BY <1>6, <1>7, Zenon

\* Every other step but consoleread's own leaves the buffer as it is.
LEMMA StaysLines ==
    ASSUME OrderInv, OpenInv, UNCHANGED <<inVars, rgot>>, \A r \in CReader : rpc'[r] \in Reading => rpc[r] \in Reading
    PROVE  OrderInv' /\ OpenInv' /\ UNCHANGED Editor!lVars
  <1>1. cr' = cr /\ cw' = cw /\ ce' = ce /\ rgot' = rgot
    BY Zenon DEF inVars
  <1>2. OrderInv'
    BY <1>1, Zenon DEF OrderInv
  <1>3. OpenInv'
    BY <1>1, OpenStays, Zenon
  <1>4. UNCHANGED Editor!lVars
    BY EditorStays, Zenon
  <1> QED
    BY <1>2, <1>3, <1>4, Zenon

\* consoleread takes a character, and stops at a newline.
LEMMA ReadCharLines ==
    ASSUME ConInv, OrderInv, OpenInv, NEW r \in CReader, ReadChar(r)
    PROVE  OrderInv' /\ OpenInv' /\ [Editor!LNext]_Editor!lVars
  <1>1. /\ cr \in Index /\ cw \in Index /\ ce \in Index /\ cbuf \in Buffers /\ InOrder(cr, cw, ce)
        /\ rgot \in [CReader -> Seq(Chr)] /\ rpc \in [CReader -> Pcs]
    BY ConTyped, Zenon DEF OrderInv
  <1>2. PICK c : c = cbuf[cr % INPUT_BUF]
    BY Zenon
  <1>3. /\ cbuf' = cbuf /\ cw' = cw /\ ce' = ce /\ rpc[r] = "loop" /\ cr # cw
        /\ cr' = IF c = "eof" /\ rgot[r] # <<>> THEN cr ELSE (cr + 1) % CUINT
        /\ rgot' = IF c = "eof" THEN rgot ELSE [rgot EXCEPT ![r] = Append(@, c)]
        /\ rpc' = IF c \in {"eof", "nl"} THEN [rpc EXCEPT ![r] = "done"] ELSE rpc
    BY <1>2, Zenon DEF ReadChar
  <1>4. PICK s \in Seq(Chr) : s = rgot[r]
    BY <1>1, Zenon
  <1>5. c \in Chr
    <2>1. cr \in Int
      BY <1>1 DEF Index
    <2>2. cr % INPUT_BUF \in 0 .. INPUT_BUF - 1
      BY <2>1, IndexWraps, Zenon
    <2> QED
      BY <1>1, <1>2, <2>2, Zenon DEF Buffers
  <1>6. Open(s)
    BY <1>3, <1>4, Zenon DEF OpenInv, Reading
  <1>7. OpenInv'
    <2>1. ASSUME NEW q \in CReader, rpc'[q] \in Reading PROVE Open(rgot'[q])
      <3>1. CASE q # r
        <4>1. rpc'[q] = rpc[q] /\ rgot'[q] = rgot[q]
          BY <1>1, <1>3, <3>1, Zenon
        <4> QED
          BY <2>1, <4>1, Zenon DEF OpenInv
      <3>2. CASE q = r
        <4>1. c \notin {"eof", "nl"}
          BY <1>1, <1>3, <2>1, <3>2, Zenon DEF Reading
        <4>2. rgot'[q] = Append(s, c)
          BY <1>1, <1>3, <1>4, <3>2, <4>1, Zenon
        <4>3. Append(s, c)[Len(Append(s, c))] = c
          BY <1>4, <1>5
        <4> QED
          BY <4>1, <4>2, <4>3, Zenon DEF Open
      <3> QED
        BY <3>1, <3>2, Zenon
    <2> QED
      BY <2>1, Zenon DEF OpenInv
  <1>8. CASE c = "eof" /\ s # <<>>
    <2>1. cr' = cr /\ rgot' = rgot
      BY <1>3, <1>4, <1>8, Zenon
    <2>2. UNCHANGED <<inVars, rgot>>
      BY <1>3, <2>1, Zenon DEF inVars
    <2>3. UNCHANGED Editor!lVars
      BY <2>2, EditorStays, Zenon
    <2>4. OrderInv'
      BY <1>1, <1>3, <2>1, Zenon DEF OrderInv
    <2> QED
      BY <1>7, <2>3, <2>4, Zenon
  <1>9. CASE ~(c = "eof" /\ s # <<>>)
    <2>1. PICK x \in Index : x = (cr + 1) % CUINT
      <3>1. cr + 1 \in Int
        BY <1>1 DEF Index
      <3> QED
        BY <3>1, IndexWraps, Zenon DEF Index
    <2>2. cr' = x
      BY <1>3, <1>4, <1>9, <2>1, Zenon
    <2>3. PICK ready : ready = Text(cbuf, cr, cw)
      BY Zenon
    <2>4. /\ InOrder(x, cw, ce) /\ ready # <<>>
          /\ Head(ready) = c /\ Text(cbuf, x, cw) = Tail(ready)
      <3>1. cr # cw
        BY <1>3, Zenon
      <3>2. InOrder(x, cw, ce) /\ Taken(Text(cbuf, cr, cw), Text(cbuf, x, cw), cbuf[cr % INPUT_BUF])
        BY <1>1, <2>1, <3>1, TakeText, Zenon
      <3>3. Taken(ready, Text(cbuf, x, cw), c)
        BY <1>2, <2>3, <3>2, Zenon
      <3> QED
        BY <3>2, <3>3, Zenon DEF Taken
    <2>5. Text(cbuf', cr', cw') = Tail(ready) /\ Text(cbuf', cw', ce') = Text(cbuf, cw, ce)
      BY <1>3, <2>2, <2>4, Zenon
    <2>6. \/ Head(ready) # "eof" /\ Open(rgot[r]) /\ rgot' = [rgot EXCEPT ![r] = Append(@, Head(ready))]
          \/ Head(ready) = "eof" /\ rgot[r] = <<>> /\ rgot' = rgot
      <3>1. CASE c = "eof"
        BY <1>3, <1>4, <1>9, <2>4, <3>1, Zenon
      <3>2. CASE c # "eof"
        BY <1>3, <1>4, <1>6, <2>4, <3>2, Zenon
      <3> QED
        BY <3>1, <3>2, Zenon
    <2>7. Editor!LNext
      BY <2>3, <2>4, <2>5, <2>6, EditorTake, Zenon
    <2>8. OrderInv'
      BY <1>3, <2>2, <2>4, Zenon DEF OrderInv
    <2> QED
      BY <1>7, <2>7, <2>8, Zenon
  <1> QED
    BY <1>8, <1>9, Zenon

\* Every step preserves the order of the indices, and is a step of the line editor.
LEMMA ConNextLines ==
    ASSUME ConInv, OrderInv, OpenInv, [ConNext]_conVars
    PROVE  OrderInv' /\ OpenInv' /\ [Editor!LNext]_Editor!lVars
  <1>t. /\ cr \in Index /\ cw \in Index /\ ce \in Index /\ rpc \in [CReader -> Pcs] /\ rgot \in [CReader -> Seq(Chr)]
        /\ ConTypeOK
    BY ConTyped, Zenon DEF ConInv
  <1> DEFINE Goal == OrderInv' /\ OpenInv' /\ [Editor!LNext]_Editor!lVars
  <1>1. ASSUME Backspace PROVE Goal
    <2>1. 1 \in 0 .. Ahead(ce, cw)
      <3>1. ce # cw
        BY <1>1, Zenon DEF Backspace
      <3>2. Ahead(ce, cw) \in Index /\ Ahead(ce, cw) = IF ce >= cw THEN ce - cw ELSE ce - cw + CUINT
        BY <1>t, AheadIs, Zenon
      <3> QED
        BY <1>t, <3>1, <3>2, ConAssumption DEF Index
    <2>2. ce' = (ce - 1) % CUINT /\ UNCHANGED <<cbuf, cr, cw, rpc, rgot>>
      BY <1>1, Zenon DEF Backspace
    <2> QED
      BY <2>1, <2>2, EraseLines, Zenon
  <1>2. ASSUME KillLine PROVE Goal
    <2>1. Unwound \in 0 .. Ahead(ce, cw)
      BY <1>t, UnwoundIs, Zenon DEF Ahead
    <2>2. ce' = (ce - Unwound) % CUINT /\ UNCHANGED <<cbuf, cr, cw, rpc, rgot>>
      BY <1>2, Zenon DEF KillLine
    <2> QED
      BY <2>1, <2>2, EraseLines, Zenon
  <1>3. ASSUME ConsoleWrite PROVE Goal
    <2>1. UNCHANGED <<inVars, rgot>> /\ rpc' = rpc
      BY <1>3, Zenon DEF ConsoleWrite
    <2> QED
      BY <2>1, StaysLines, Zenon
  <1>4. ASSUME NEW r \in CReader, ConsoleRead(r) PROVE Goal
    <2>1. UNCHANGED inVars /\ rgot' = [rgot EXCEPT ![r] = <<>>] /\ rpc' = [rpc EXCEPT ![r] = "lock"]
      BY <1>4, Zenon DEF ConsoleRead
    <2>2. Editor!LNext
      BY <2>1, EditorNewRead, Zenon
    <2>3. OrderInv'
      BY <2>1, Zenon DEF OrderInv, inVars
    <2>4. OpenInv'
      BY <1>t, <2>1, Zenon DEF OpenInv, Open
    <2> QED
      BY <2>2, <2>3, <2>4, Zenon
  <1>5. ASSUME NEW r \in CReader, ReadLock(r) PROVE Goal
    <2>1. UNCHANGED <<inVars, rgot>> /\ \A q \in CReader : rpc'[q] \in Reading => rpc[q] \in Reading
      BY <1>t, <1>5, Zenon DEF ReadLock, Reading
    <2> QED
      BY <2>1, StaysLines, Zenon
  <1>6. ASSUME NEW r \in CReader, ReadEmpty(r) PROVE Goal
    <2>1. UNCHANGED <<inVars, rgot>> /\ \A q \in CReader : rpc'[q] \in Reading => rpc[q] \in Reading
      BY <1>t, <1>6, Zenon DEF ReadEmpty, Reading
    <2> QED
      BY <2>1, StaysLines, Zenon
  <1>7. ASSUME NEW r \in CReader, ReadSleep(r) PROVE Goal
    <2>1. UNCHANGED <<inVars, rgot>> /\ \A q \in CReader : rpc'[q] \in Reading => rpc[q] \in Reading
      BY <1>t, <1>7, Zenon DEF ReadSleep, Reading
    <2> QED
      BY <2>1, StaysLines, Zenon
  <1>8. ASSUME NEW r \in CReader, ReadChar(r) PROVE Goal
    BY <1>8, ReadCharLines, Zenon
  <1>9. ASSUME NEW r \in CReader, ReadReturn(r) PROVE Goal
    <2>1. UNCHANGED <<inVars, rgot>> /\ \A q \in CReader : rpc'[q] \in Reading => rpc[q] \in Reading
      BY <1>t, <1>9, Zenon DEF ReadReturn, Reading
    <2> QED
      BY <2>1, StaysLines, Zenon
  <1>10. ASSUME NEW r \in CReader, KillReader(r) PROVE Goal
    <2>1. UNCHANGED <<inVars, rgot>> /\ \A q \in CReader : rpc'[q] \in Reading => rpc[q] \in Reading
      BY <1>t, <1>10, Zenon DEF KillReader, Reading
    <2> QED
      BY <2>1, StaysLines, Zenon
  <1>11. ASSUME UNCHANGED conVars PROVE Goal
    <2>1. UNCHANGED <<inVars, rgot>> /\ rpc' = rpc
      BY <1>11, Zenon DEF conVars, inVars
    <2> QED
      BY <2>1, StaysLines, Zenon
  <1>12. ASSUME NEW k \in Typed, TypeChar(k) PROVE Goal
    BY <1>12, TypeCharLines, Zenon
  <1> HIDE DEF Goal
  <1>13. ASSUME ConNext PROVE Goal
    <2>1. ASSUME ConsoleIntr PROVE Goal
      BY <1>1, <1>2, <1>12, <2>1, Zenon DEF ConsoleIntr
    <2> QED
      BY <1>3, <1>4, <1>5, <1>6, <1>7, <1>8, <1>9, <1>10, <1>13, <2>1, Zenon DEF ConNext
  <1>14. Goal
    BY <1>11, <1>13, Zenon
  <1> QED
    BY <1>14, Zenon DEF Goal

\* The console is a line editor, for any readers, any buffer and any width of the indices that the
\* buffer divides: what is typed is read once and in order, what is edited away is never read,
\* and an end of file is seen by exactly one read.
THEOREM ConsoleIsEditor == ConSpec => ConsoleIsLines
  <1>1. ConInit => OrderInv /\ OpenInv /\ Editor!LInit
    <2> SUFFICES ASSUME ConInit PROVE OrderInv /\ OpenInv /\ Editor!LInit
      BY Zenon
    <2>1. 0 \in Index
      BY ConAssumption DEF Index
    <2>2. cr = 0 /\ cw = 0 /\ ce = 0 /\ cbuf \in Buffers
      BY Zenon DEF ConInit, Buffers, Chr
    <2>3. Text(cbuf, 0, 0) = <<>> /\ Ahead(0, 0) = 0
      BY <2>1, <2>2, TextNone, Zenon
    <2>4. OrderInv
      <3>1. 0 <= 0 /\ 0 <= INPUT_BUF
        BY ConAssumption
      <3> QED
        BY <2>2, <2>3, <3>1, Zenon DEF OrderInv, InOrder
    <2>5. OpenInv
      BY Zenon DEF ConInit, OpenInv, Open
    <2>6. Chars(cr, cw) = <<>> /\ Chars(cw, ce) = <<>>
      BY <2>2, <2>3, CharsIs, Zenon
    <2>7. Editor!LInit
      BY <2>6, Zenon DEF Editor!LInit, ConInit
    <2> QED
      BY <2>4, <2>5, <2>7, Zenon
  <1>2. ConInv /\ OrderInv /\ OpenInv /\ [ConNext]_conVars => OrderInv' /\ OpenInv' /\ [Editor!LNext]_Editor!lVars
    BY ConNextLines, Zenon
  <1> QED
    BY <1>1, <1>2, ConInvariant, PTL DEF ConSpec, ConsoleIsLines, Editor!LSpec
=============================================================================
