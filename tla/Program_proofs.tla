---------------------------- MODULE Program_proofs ----------------------------
(***************************************************************************)
(* Theorems about Program, for any command lines, commands, statements,    *)
(* environments and numbers of files: every file that is open is closed by *)
(* exactly one channel of one context, no sequence of settings makes two   *)
(* separators the same, the parser ignores no token of a statement that it *)
(* accepts, LOAD, RELOAD and UNLOAD work with what their last clauses ask  *)
(* for, and a separator that is printed and typed again is the same.       *)
(*                                                                         *)
(* A setter changes neither a channel nor what a context closes, and       *)
(* checks a separator against the others (Keeps).  A file is never known to *)
(* a context below the one that closes it (Private), which is why ending   *)
(* the innermost context leaves nobody with a closed stream.  A statement  *)
(* is read alike with one more token behind it, up to where it ended, so   *)
(* that the new token is the whole rest (Whole).  What the folds of the    *)
(* model come to is followed element by element (Folded): the clauses of a *)
(* statement from the first (TakenFrom), and the characters of a value     *)
(* that was made an argument and is read again (QuoteOne).  So are the     *)
(* literals that a separator is printed as: where each of them is (Laid),  *)
(* that none closes the string (ClosesBehind), and that each is read as    *)
(* the character it stands for (Gone).                                     *)
(***************************************************************************)
EXTENDS Program, SequenceTheorems, WellFoundedInduction, TLAPS

-----------------------------------------------------------------------------
(* Induction, and what a fold over a sequence comes to: the values L that  *)
(* it has after each of the elements (Folded).  FoldLeft works on sets of  *)
(* indices, from the largest down.  The folds of the model are told apart  *)
(* by their kind.                                                          *)
LEMMA LeastIn ==
  ASSUME NEW S, S \subseteq Nat, NEW s \in S
  PROVE  \E e \in S : \A j \in S : e <= j
<1>. DEFINE Below == {p \in Nat \X Nat : p[1] < p[2]}
<1>1. Below = OpToRel(<, Nat)
  BY DEF OpToRel
<1>2. IsWellFoundedOn(Below, Nat)
  BY <1>1, NatLessThanWellFounded
<1>3. PICK e \in S : \A j \in S : ~(<<j, e>> \in Below)
  BY <1>2, WFMin
<1>4. \A j \in S : ~(j < e)
  BY <1>3
<1>. QED BY <1>3, <1>4

LEMMA Climbs ==
  ASSUME NEW n \in Nat, NEW S, 0 \in S, \A i \in 1..n : i - 1 \in S => i \in S
  PROVE  \A i \in 0..n : i \in S
<1>. DEFINE Missing == {i \in 0..n : i \notin S}
<1>. SUFFICES ASSUME NEW m \in Missing PROVE FALSE
  OBVIOUS
<1>1. PICK e \in Missing : \A j \in Missing : e <= j
  <2>1. Missing \subseteq Nat
    OBVIOUS
  <2>. HIDE DEF Missing
  <2>. QED BY <2>1, LeastIn
<1>2. e \in 1..n /\ e - 1 \in 0..n /\ e - 1 \notin Missing
  BY <1>1
<1>. QED BY <1>1, <1>2

LEMMA MaxIs ==
  ASSUME NEW S, NEW n \in S, n \in Nat, \A m \in S : m \in Nat /\ m <= n
  PROVE  Max(S) = n
<1>. DEFINE P(x) == x \in S /\ \A y \in S : x >= y
<1>1. P(n)
  OBVIOUS
<1>2. P(CHOOSE x : P(x))
  BY <1>1, Zenon
<1>3. \A x : P(x) => x = n
  OBVIOUS
<1>4. Max(S) = CHOOSE x : P(x)
  BY DEF Max
<1>. QED BY <1>2, <1>3, <1>4

LEMMA MaximumOf ==
  ASSUME NEW n \in Nat, NEW S, S \subseteq 0..n, S # {}
  PROVE  Max(S) \in S /\ \A x \in S : x <= Max(S)
<1> DEFINE T == {x \in Nat : n - x \in S}
<1>1. PICK s \in S : TRUE
  OBVIOUS
<1>2. n - s \in T /\ T \subseteq Nat
  OBVIOUS
<1>3. PICK e \in T : \A j \in T : e <= j
  <2> HIDE DEF T
  <2>1. QED
    BY <1>2, LeastIn
<1>4. n - e \in S /\ \A x \in S : x \in Nat /\ n - x \in T
  BY <1>3
<1>5. \A x \in S : x <= n - e
  BY <1>3, <1>4
<1>6. Max(S) = n - e
  BY <1>4, <1>5, MaxIs
<1>7. QED
  BY <1>4, <1>5, <1>6

LEMMA MinimumOf ==
  ASSUME NEW S, S \subseteq Nat, NEW e \in S, \A j \in S : e <= j
  PROVE  Min(S) = e
<1>1. \A x \in S : (\A y \in S : x <= y) => x = e
  BY SMT
<1>. QED BY <1>1 DEF Min

(* A fold takes the elements of a sequence s one by one.                   *)
Step(kind, a, v, x) ==
  CASE kind = "tags" -> Then(v, TagSet(v.result, x))
    [] kind = "ops" -> Then(v, OperatedBoth(v.result, a, x))
    [] kind = "load" -> OptionTaken(v, a[x].k, a[x + 1])
    [] kind = "close" -> CloseStep(a, v, x)
    [] kind = "parse" -> ParseStep(v)
    [] kind = "number" -> v * a + Digit(x, a)
    [] kind = "print" -> v \o ChrLit(x)

Folding(g, kind, a, base, s, n) ==
  \A t \in SUBSET (1..n) :
    g[t] = IF t = {} THEN base ELSE Step(kind, a, g[t \ {Max(t)}], s[Max(t)])

LEMMA FoldsExist ==
  ASSUME NEW kind, NEW a, NEW base, NEW s, NEW n \in Nat
  PROVE  \E g : g = [t \in SUBSET (1..n) |-> g[t]] /\ Folding(g, kind, a, base, s, n)
<1>. DEFINE P(m) == \E g : g = [t \in SUBSET (1..m) |-> g[t]] /\ Folding(g, kind, a, base, s, m)
            Missing == {m \in Nat : ~P(m)}
<1>1. P(0)
  <2>. DEFINE g == [t \in SUBSET (1..0) |-> base]
  <2>1. \A t \in SUBSET (1..0) : t = {}
    OBVIOUS
  <2>2. g = [t \in SUBSET (1..0) |-> g[t]] /\ Folding(g, kind, a, base, s, 0)
    BY <2>1 DEF Folding
  <2>. HIDE DEF g
  <2>. QED BY <2>2
<1>2. ASSUME NEW m \in Nat, P(m) PROVE P(m + 1)
  <2>1. PICK g : g = [t \in SUBSET (1..m) |-> g[t]] /\ Folding(g, kind, a, base, s, m)
    BY <1>2
  <2>. DEFINE h == [t \in SUBSET (1..m+1) |->
                      IF m + 1 \in t THEN Step(kind, a, g[t \ {m + 1}], s[m + 1]) ELSE g[t]]
  <2>2. ASSUME NEW t \in SUBSET (1..m+1)
        PROVE  h[t] = IF t = {} THEN base ELSE Step(kind, a, h[t \ {Max(t)}], s[Max(t)])
    <3>1. CASE m + 1 \in t
      <4>1. Max(t) = m + 1
        <5>1. m + 1 \in Nat /\ \A k \in t : k \in Nat /\ k <= m + 1
          OBVIOUS
        <5>. QED BY <3>1, <5>1, MaxIs
      <4>2. t \ {m + 1} \in SUBSET (1..m) /\ t \ {m + 1} \in SUBSET (1..m+1)
            /\ m + 1 \notin t \ {m + 1}
        OBVIOUS
      <4>3. h[t] = Step(kind, a, g[t \ {m + 1}], s[m + 1]) /\ h[t \ {m + 1}] = g[t \ {m + 1}]
        BY <3>1, <4>2
      <4>. QED BY <3>1, <4>1, <4>3
    <3>2. CASE m + 1 \notin t
      <4>1. t \in SUBSET (1..m)
        BY <3>2
      <4>2. g[t] = IF t = {} THEN base ELSE Step(kind, a, g[t \ {Max(t)}], s[Max(t)])
        BY <2>1, <4>1 DEF Folding
      <4>3. t \ {Max(t)} \in SUBSET (1..m+1) /\ m + 1 \notin t \ {Max(t)}
        BY <3>2
      <4>4. h[t] = g[t] /\ h[t \ {Max(t)}] = g[t \ {Max(t)}]
        BY <3>2, <4>3
      <4>. QED BY <4>2, <4>4
    <3>. QED BY <3>1, <3>2
  <2>3. h = [t \in SUBSET (1..m+1) |-> h[t]]
    OBVIOUS
  <2>. HIDE DEF h
  <2>. QED BY <2>2, <2>3 DEF Folding
<1>. HIDE DEF P
<1>3. ASSUME NEW m \in Missing PROVE FALSE
  <2>1. PICK e \in Missing : \A j \in Missing : e <= j
    BY LeastIn
  <2>2. e # 0
    BY <1>1
  <2>3. e - 1 \in Nat /\ e - 1 \notin Missing
    BY <2>1, <2>2
  <2>4. P(e - 1)
    BY <2>3
  <2>5. P((e - 1) + 1)
    BY <1>2, <2>3, <2>4
  <2>6. (e - 1) + 1 = e
    OBVIOUS
  <2>. QED BY <2>1, <2>5, <2>6
<1>4. P(n)
  BY <1>3
<1>. QED BY <1>4 DEF P

(* What a fold comes to, element by element.                               *)
Folded(L, kind, a, base, s, n) ==
  /\ L[0] = base
  /\ \A i \in 1..n : L[i] = Step(kind, a, L[i - 1], s[i])

LEMMA FoldValues ==
  ASSUME NEW kind, NEW a, NEW base, NEW s, NEW n \in Nat,
         NEW g, Folding(g, kind, a, base, s, n)
  PROVE  \E L : Folded(L, kind, a, base, s, n) /\ L[n] = g[1..n]
<1>. DEFINE L == [i \in 0..n |-> g[1..i]]
<1>1. L[0] = base
  <2>1. 1..0 = {} /\ {} \in SUBSET (1..n) /\ 0 \in 0..n
    OBVIOUS
  <2>2. g[{}] = base
    BY <2>1 DEF Folding
  <2>. QED BY <2>1, <2>2
<1>2. ASSUME NEW i \in 1..n PROVE L[i] = Step(kind, a, L[i - 1], s[i])
  <2>1. 1..i \in SUBSET (1..n) /\ i \in 1..i /\ 1..i # {}
    OBVIOUS
  <2>2. Max(1..i) = i
    BY <2>1, MaxIs
  <2>3. (1..i) \ {i} = 1..(i - 1)
    OBVIOUS
  <2>4. g[1..i] = Step(kind, a, g[1..(i - 1)], s[i])
    BY <2>1, <2>2, <2>3 DEF Folding
  <2>5. i \in 0..n /\ i - 1 \in 0..n
    OBVIOUS
  <2>. QED BY <2>4, <2>5
<1>3. L[n] = g[1..n]
  OBVIOUS
<1>. HIDE DEF L
<1>. QED BY <1>1, <1>2, <1>3 DEF Folded

LEMMA TagsFold ==
  ASSUME NEW names, NEW tags, NEW n \in Nat, DOMAIN tags = 1..n
  PROVE  \E L : Folded(L, "tags", {}, Unsaid(names), tags, n) /\ TagsSet(names, tags) = L[n]
<1>. DEFINE G(g) == g = [t \in SUBSET (1..n) |->
                           IF t = {} THEN Unsaid(names)
                           ELSE Then(g[t \ {Max(t)}],
                                     TagSet(g[t \ {Max(t)}].result, tags[Max(t)]))]
<1>1. TagsSet(names, tags) = (CHOOSE g : G(g))[1..n]
  BY DEF TagsSet, FoldLeft, MapThenFoldSet
<1>2. \A v, x : Step("tags", {}, v, x) = Then(v, TagSet(v.result, x))
  BY DEF Step
<1>3. \E g : G(g)
  <2>1. PICK g : g = [t \in SUBSET (1..n) |-> g[t]]
                 /\ Folding(g, "tags", {}, Unsaid(names), tags, n)
    BY FoldsExist
  <2>2. G(g)
    BY <1>2, <2>1 DEF Folding
  <2>. QED BY <2>2
<1>. DEFINE h == CHOOSE g : G(g)
<1>4. G(h)
  BY <1>3, Zenon
<1>5. Folding(h, "tags", {}, Unsaid(names), tags, n)
  BY <1>2, <1>4 DEF Folding
<1>6. TagsSet(names, tags) = h[1..n]
  BY <1>1
<1>. HIDE DEF h
<1>. QED BY <1>5, <1>6, FoldValues

LEMMA OpsFold ==
  ASSUME NEW modes, NEW mode, NEW ops, ops # <<>>, NEW n \in Nat, DOMAIN ops = 1..n
  PROVE  \E L : /\ Folded(L, "ops", mode, Unsaid(modes), ops, n)
                /\ OperatedAll(modes, mode, ops) = L[n]
<1>. DEFINE s == ops
            G(g) == g = [t \in SUBSET (1..n) |->
                           IF t = {} THEN Unsaid(modes)
                           ELSE Then(g[t \ {Max(t)}],
                                     OperatedBoth(g[t \ {Max(t)}].result, mode, s[Max(t)]))]
<1>1. OperatedAll(modes, mode, ops) = (CHOOSE g : G(g))[1..n]
  BY DEF OperatedAll, FoldLeft, MapThenFoldSet
<1>2. \A v, x : Step("ops", mode, v, x) = Then(v, OperatedBoth(v.result, mode, x))
  BY DEF Step
<1>. HIDE DEF s
<1>3. \E g : G(g)
  <2>1. PICK g : g = [t \in SUBSET (1..n) |-> g[t]]
                 /\ Folding(g, "ops", mode, Unsaid(modes), s, n)
    BY FoldsExist
  <2>2. G(g)
    BY <1>2, <2>1 DEF Folding
  <2>. QED BY <2>2
<1>. DEFINE h == CHOOSE g : G(g)
<1>4. G(h)
  BY <1>3, Zenon
<1>5. Folding(h, "ops", mode, Unsaid(modes), s, n)
  BY <1>2, <1>4 DEF Folding
<1>6. OperatedAll(modes, mode, ops) = h[1..n]
  BY <1>1
<1>. HIDE DEF h, G
<1>7. PICK L : Folded(L, "ops", mode, Unsaid(modes), s, n) /\ L[n] = h[1..n]
  BY <1>5, FoldValues
<1>8. OperatedAll(modes, mode, ops) = L[n]
  BY <1>6, <1>7
<1>. QED BY <1>7, <1>8 DEF s

LoadStep(ts, load, i) == OptionTaken(load, ts[i].k, ts[i + 1])

LEMMA LoadFold ==
  ASSUME NEW ts, NEW n \in Nat, OptionCount(ts) = n
  PROVE  \E L : /\ Folded(L, "load", ts, NoOptions, [k \in 1..n |-> KeyAt(ts, k)], n)
                /\ LoadInfo(ts) = L[n]
<1>. DEFINE s == [k \in 1..n |-> KeyAt(ts, k)]
            G(g) == g = [t \in SUBSET (1..n) |->
                           IF t = {} THEN NoOptions
                           ELSE LoadStep(ts, g[t \ {Max(t)}], s[Max(t)])]
<1>1. LoadInfo(ts) = (CHOOSE g : G(g))[1..n]
  BY DEF LoadInfo, LoadStep, FoldLeft, MapThenFoldSet
<1>2. \A v, x : Step("load", ts, v, x) = LoadStep(ts, v, x)
  BY DEF Step, LoadStep
<1>. HIDE DEF s
<1>3. \E g : G(g)
  <2>1. PICK g : g = [t \in SUBSET (1..n) |-> g[t]]
                 /\ Folding(g, "load", ts, NoOptions, s, n)
    BY FoldsExist
  <2>2. G(g)
    BY <1>2, <2>1 DEF Folding
  <2>. QED BY <2>2
<1>. DEFINE h == CHOOSE g : G(g)
<1>. HIDE DEF G
<1>4. G(h)
  BY <1>3, Zenon
<1>6. LoadInfo(ts) = h[1..n]
  BY <1>1
<1>. HIDE DEF h
<1>5. Folding(h, "load", ts, NoOptions, s, n)
  BY <1>2, <1>4 DEF Folding, G
<1>7. PICK L : Folded(L, "load", ts, NoOptions, s, n) /\ L[n] = h[1..n]
  BY <1>5, FoldValues
<1>8. LoadInfo(ts) = L[n]
  BY <1>6, <1>7
<1>. QED BY <1>7, <1>8 DEF s

LEMMA CloseFold ==
  ASSUME NEW q, NEW n \in Nat, Len(q) = n + 1
  PROVE  \E L : /\ Folded(L, "close", q, [close |-> 0, protected |-> FALSE],
                          [i \in 1..n |-> i + 1], n)
                /\ Close(q) = L[n].close
<1>. DEFINE s == [i \in 1..n |-> i + 1]
            G(g) == g = [t \in SUBSET (1..n) |->
                           IF t = {} THEN [close |-> 0, protected |-> FALSE]
                           ELSE CloseStep(q, g[t \ {Max(t)}], s[Max(t)])]
<1>1. Close(q) = (CHOOSE g : G(g))[1..n].close
  BY DEF Close, FoldLeft, MapThenFoldSet
<1>2. \A v, x : Step("close", q, v, x) = CloseStep(q, v, x)
  BY DEF Step
<1>. HIDE DEF s
<1>3. \E g : G(g)
  <2>1. PICK g : g = [t \in SUBSET (1..n) |-> g[t]]
                 /\ Folding(g, "close", q, [close |-> 0, protected |-> FALSE], s, n)
    BY FoldsExist
  <2>2. G(g)
    BY <1>2, <2>1 DEF Folding
  <2>. QED BY <2>2
<1>. DEFINE h == CHOOSE g : G(g)
<1>4. G(h)
  BY <1>3, Zenon
<1>5. Folding(h, "close", q, [close |-> 0, protected |-> FALSE], s, n)
  BY <1>2, <1>4 DEF Folding
<1>6. Close(q) = h[1..n].close
  BY <1>1
<1>. HIDE DEF h, G
<1>7. PICK L : Folded(L, "close", q, [close |-> 0, protected |-> FALSE], s, n) /\ L[n] = h[1..n]
  BY <1>5, FoldValues
<1>8. Close(q) = L[n].close
  BY <1>6, <1>7
<1>. QED BY <1>7, <1>8 DEF s

LEMMA ParseFold ==
  ASSUME NEW text, NEW most, NEW n \in Nat, Min({most, Len(text)}) = n
  PROVE  \E L : /\ Folded(L, "parse", {}, [valid |-> TRUE, rest |-> text, text |-> <<>>],
                          [i \in 1..n |-> i], n)
                /\ Parsed(text, most) = L[n]
<1>. DEFINE s == [i \in 1..n |-> i]
            G(g) == g = [t \in SUBSET (1..n) |->
                           IF t = {} THEN [valid |-> TRUE, rest |-> text, text |-> <<>>]
                           ELSE ParseStep(g[t \ {Max(t)}])]
<1>1. Parsed(text, most) = (CHOOSE g : G(g))[1..n]
  BY DEF Parsed, FoldLeft, MapThenFoldSet
<1>2. \A v, x : Step("parse", {}, v, x) = ParseStep(v)
  BY DEF Step
<1>. HIDE DEF s
<1>3. \E g : G(g)
  <2>1. PICK g : g = [t \in SUBSET (1..n) |-> g[t]]
                 /\ Folding(g, "parse", {}, [valid |-> TRUE, rest |-> text, text |-> <<>>], s, n)
    BY FoldsExist
  <2>2. G(g)
    BY <1>2, <2>1 DEF Folding
  <2>. QED BY <2>2
<1>. DEFINE h == CHOOSE g : G(g)
<1>4. G(h)
  BY <1>3, Zenon
<1>5. Folding(h, "parse", {}, [valid |-> TRUE, rest |-> text, text |-> <<>>], s, n)
  BY <1>2, <1>4 DEF Folding
<1>6. Parsed(text, most) = h[1..n]
  BY <1>1
<1>. HIDE DEF h, G
<1>7. PICK L : /\ Folded(L, "parse", {}, [valid |-> TRUE, rest |-> text, text |-> <<>>], s, n)
               /\ L[n] = h[1..n]
  BY <1>5, FoldValues
<1>8. Parsed(text, most) = L[n]
  BY <1>6, <1>7
<1>. QED BY <1>7, <1>8 DEF s

-----------------------------------------------------------------------------
LEMMA SequenceIs == ASSUME NEW s, IsSequence(s) PROVE s \in Seq(Range(s))
<1>1. Len(s) \in Nat /\ s = [i \in 1..Len(s) |-> s[i]]
  BY DEF IsSequence
<1>2. s \in [1..Len(s) -> Range(s)]
  BY <1>1 DEF Range
<1>3. QED
  BY <1>1, <1>2

LEMMA IsOfSequence == ASSUME NEW S, NEW s \in Seq(S) PROVE IsSequence(s)
  BY DEF IsSequence

-----------------------------------------------------------------------------
(* Parts of sequences, and where a string closes.                          *)
LEMMA Together ==
  /\ \A x : Len(<<x>>) = 1 /\ <<x>>[1] = x
  /\ \A x, y : Len(<<x, y>>) = 2 /\ <<x, y>>[1] = x /\ <<x, y>>[2] = y
  OBVIOUS

LEMMA PrefixOf ==
  ASSUME NEW S, NEW s \in Seq(S), NEW n \in 0..Len(s)
  PROVE  SubSeq(s, 1, n) \in Seq(S) /\ Len(SubSeq(s, 1, n)) = n
  OBVIOUS

LEMMA PartOf ==
  ASSUME NEW s, NEW m \in Nat, NEW n \in Nat, m >= 1, m <= n, n <= Len(s), IsSequence(s)
  PROVE  /\ Len(SubSeq(s, m, n)) = n - m + 1
         /\ SubSeq(s, m, n) = [i \in 1..(n - m + 1) |-> s[m + i - 1]]
<1> DEFINE S == Range(s)
           part == SubSeq(s, m, n)
           k == n - m + 1
<1>1. s \in Seq(S)
  BY SequenceIs
<1>2. m \in 1..Len(s) /\ n \in 1..Len(s)
  BY <1>1
<1> HIDE DEF S
<1>3. /\ part \in Seq(S) /\ Len(part) = k
      /\ \A i \in 1..k : part[i] = s[m + i - 1]
  BY <1>1, <1>2, SubSeqProperties
<1>4. part = [i \in 1..k |-> part[i]]
  BY <1>3
<1> HIDE DEF part
<1>5. part = [i \in 1..k |-> s[m + i - 1]]
  BY <1>3, <1>4
<1>. QED BY <1>3, <1>5 DEF part

ClosesAt(p, k) == DOMAIN p = {"close", "protected"} /\ p.close = k /\ p.protected = FALSE
Protected(p) == DOMAIN p = {"close", "protected"} /\ p.close = 0 /\ p.protected = TRUE

LEMMA CloseSteps ==
  ASSUME NEW s, NEW i, NEW p
  PROVE  /\ Protected(p) => ClosesAt(CloseStep(s, p, i), 0)
         /\ ClosesAt(p, 0) /\ s[i] = BackSlash => Protected(CloseStep(s, p, i))
         /\ ClosesAt(p, 0) /\ s[i] # BackSlash =>
              ClosesAt(CloseStep(s, p, i), IF s[i] = s[1] THEN i ELSE 0)
<1>1. ASSUME Protected(p) PROVE ClosesAt(CloseStep(s, p, i), 0)
  <2>1. CloseStep(s, p, i) = [p EXCEPT !.protected = FALSE]
    BY <1>1 DEF CloseStep, Protected
  <2>2. ClosesAt([p EXCEPT !.protected = FALSE], 0)
    BY <1>1 DEF Protected, ClosesAt
  <2>3. QED
    BY <2>1, <2>2
<1>2. ASSUME ClosesAt(p, 0), s[i] = BackSlash PROVE Protected(CloseStep(s, p, i))
  <2>1. CloseStep(s, p, i) = [p EXCEPT !.protected = TRUE]
    BY <1>2 DEF CloseStep, ClosesAt
  <2>2. Protected([p EXCEPT !.protected = TRUE])
    BY <1>2 DEF Protected, ClosesAt
  <2>3. QED
    BY <2>1, <2>2
<1>3. ASSUME ClosesAt(p, 0), s[i] # BackSlash
      PROVE  ClosesAt(CloseStep(s, p, i), IF s[i] = s[1] THEN i ELSE 0)
  <2> DEFINE k == IF s[i] = s[1] THEN i ELSE 0
  <2>1. CloseStep(s, p, i) = [p EXCEPT !.close = k]
    BY <1>3 DEF CloseStep, ClosesAt
  <2> HIDE DEF k
  <2>2. ClosesAt([p EXCEPT !.close = k], k)
    BY <1>3 DEF ClosesAt
  <2>3. QED
    BY <2>1, <2>2 DEF k
<1>4. QED
  BY <1>1, <1>2, <1>3

-----------------------------------------------------------------------------
(* What is read from a text is a character, for any text of characters:    *)
(* ReadChr has at most three octal digits, or two of another base.         *)
NumberStep(base, v, c) == v * base + Digit(c, base)

LEMMA DigitIs ==
  ASSUME NEW c \in Chars, NEW base \in {8, 16}
  PROVE  Digit(c, base) \in -1..(base - 1)
<1> DEFINE i == CASE c \in 48..57 -> c - 48
                  [] c \in 65..90 -> c - 55
                  [] c \in 97..122 -> c - 87
                  [] OTHER -> base
<1>1. i \in Int /\ i >= 0
  BY DEF Chars
<1>2. Digit(c, base) = IF i < base THEN i ELSE -1
  BY DEF Digit
<1> HIDE DEF i
<1>. QED BY <1>1, <1>2

Leading(s, base, most) ==
  {k \in 0..Min({most, Len(s)}) : \A i \in 1..k : Digit(s[i], base) >= 0}

LEMMA LeadingIs ==
  ASSUME NEW s, Len(s) \in Nat, NEW base, NEW most \in Nat
  PROVE  /\ Max(Leading(s, base, most)) \in Leading(s, base, most)
         /\ Max(Leading(s, base, most)) \in 0..most
         /\ Max(Leading(s, base, most)) <= Len(s)
         /\ \A k \in Leading(s, base, most) : k <= Max(Leading(s, base, most))
<1> DEFINE m == Min({most, Len(s)})
<1>1. m \in Nat /\ m <= most /\ m <= Len(s)
  BY DEF Min
<1>2. Leading(s, base, most) \subseteq 0..m /\ 0 \in Leading(s, base, most)
  <2> HIDE DEF m
  <2>1. \A i \in 1..0 : Digit(s[i], base) >= 0
    OBVIOUS
  <2>2. Leading(s, base, most) = {k \in 0..m : \A i \in 1..k : Digit(s[i], base) >= 0}
    BY DEF Leading, m
  <2>3. QED
    BY <1>1, <2>1, <2>2
<1> HIDE DEF m
<1>3. Max(Leading(s, base, most)) \in Leading(s, base, most)
      /\ \A x \in Leading(s, base, most) : x <= Max(Leading(s, base, most))
  BY <1>1, <1>2, MaximumOf
<1>. QED BY <1>1, <1>2, <1>3

Denoted(base, part) == FoldLeft(LAMBDA v, c : v * base + Digit(c, base), 0, part)

LEMMA DigitsFold ==
  ASSUME NEW base, NEW part, NEW n \in Nat, DOMAIN part = 1..n
  PROVE  \E L : /\ Folded(L, "number", base, 0, part, n)
                /\ Denoted(base, part) = L[n]
<1> DEFINE total == Denoted(base, part)
           G(g) == g = [t \in SUBSET (1..n) |->
                           IF t = {} THEN 0
                           ELSE NumberStep(base, g[t \ {Max(t)}], part[Max(t)])]
<1>1. total = (CHOOSE g : G(g))[1..n]
  BY DEF FoldLeft, MapThenFoldSet, NumberStep, Denoted
<1>2. \A v, x : Step("number", base, v, x) = NumberStep(base, v, x)
  BY DEF Step, NumberStep
<1>. HIDE DEF total
<1>3. \E g : G(g)
  <2>1. PICK g : g = [t \in SUBSET (1..n) |-> g[t]]
                 /\ Folding(g, "number", base, 0, part, n)
    BY FoldsExist
  <2>2. G(g)
    BY <1>2, <2>1 DEF Folding
  <2>. QED BY <2>2
<1>. DEFINE h == CHOOSE g : G(g)
<1>. HIDE DEF G
<1>4. G(h)
  BY <1>3, Zenon
<1>6. total = h[1..n]
  BY <1>1
<1>. HIDE DEF h
<1>5. Folding(h, "number", base, 0, part, n)
  BY <1>2, <1>4 DEF Folding, G
<1>7. PICK L : Folded(L, "number", base, 0, part, n) /\ L[n] = h[1..n]
  BY <1>5, FoldValues
<1>8. total = L[n]
  BY <1>6, <1>7
<1>. QED BY <1>7, <1>8 DEF total

(* At most three digits: the values of the fold, digit by digit.           *)
LEMMA NumberIs ==
  ASSUME NEW s \in Seq(Chars), NEW base \in {8, 16}, NEW most \in {2, 3}
  PROVE  LET n == Number(s, base, most).count
             v == Number(s, base, most).value
             d(i) == Digit(s[i], base)
         IN  /\ n \in 0..most /\ n <= Len(s)
             /\ \A i \in 1..n : d(i) \in 0..(base - 1)
             /\ n = 0 => v = 0
             /\ n = 1 => v = d(1)
             /\ n = 2 => v = d(1) * base + d(2)
             /\ n = 3 => v = (d(1) * base + d(2)) * base + d(3)
<1> DEFINE n == Max(Leading(s, base, most))
           part == SubSeq(s, 1, n)
<1>1. n \in Leading(s, base, most) /\ n \in 0..most /\ n <= Len(s)
  <2>1. Len(s) \in Nat /\ most \in Nat
    OBVIOUS
  <2>2. QED
    BY <2>1, LeadingIs
<1>2. \A i \in 1..n : Digit(s[i], base) \in 0..(base - 1)
  <2> HIDE DEF n
  <2>1. ASSUME NEW i \in 1..n PROVE Digit(s[i], base) \in 0..(base - 1)
    <3>1. Digit(s[i], base) >= 0
      BY <1>1 DEF Leading
    <3>2. s[i] \in Chars
      BY <1>1
    <3>3. QED
      BY <3>1, <3>2, DigitIs
  <2>2. QED
    BY <2>1
<1>3. DOMAIN part = 1..n /\ \A i \in 1..n : part[i] = s[i]
  <2> HIDE DEF n
  <2>1. CASE n = 0
    BY <2>1
  <2>2. CASE n >= 1
    BY <1>1, <2>2
  <2>3. QED
    BY <1>1, <2>1, <2>2
<1> HIDE DEF part
<1>4. Number(s, base, most).count = n /\ Number(s, base, most).value = Denoted(base, part)
  BY DEF Number, Leading, Denoted, part
<1>. HIDE DEF n
<1>5. PICK L : Folded(L, "number", base, 0, part, n) /\ Denoted(base, part) = L[n]
  <2>1. n \in Nat /\ DOMAIN part = 1..n
    BY <1>1, <1>3
  <2>2. QED
    BY <2>1, DigitsFold
<1>6. L[0] = 0 /\ \A i \in 1..n : L[i] = L[i - 1] * base + Digit(s[i], base)
  BY <1>3, <1>5 DEF Folded, Step
<1>7. n >= 1 => L[1] = Digit(s[1], base)
  <2>1. n >= 1 => 1 \in 1..n /\ 1 - 1 = 0
    BY <1>1
  <2>2. n >= 1 => L[1] = 0 * base + Digit(s[1], base) /\ Digit(s[1], base) \in Int
    BY <2>1, <1>6, <1>2
  <2>3. QED
    BY <2>2
<1>8. n >= 2 => L[2] = Digit(s[1], base) * base + Digit(s[2], base)
  <2>1. n >= 2 => 2 \in 1..n /\ 2 - 1 = 1
    BY <1>1
  <2>2. n >= 2 => L[2] = L[1] * base + Digit(s[2], base)
    BY <2>1, <1>6
  <2>3. QED
    BY <1>1, <2>1, <2>2, <1>7
<1>9. n >= 3 => L[3] = (Digit(s[1], base) * base + Digit(s[2], base)) * base + Digit(s[3], base)
  <2>1. n >= 3 => 3 \in 1..n /\ 3 - 1 = 2
    BY <1>1
  <2>2. n >= 3 => L[3] = L[2] * base + Digit(s[3], base)
    BY <2>1, <1>6
  <2>3. QED
    BY <1>1, <2>1, <2>2, <1>8
<1>. QED BY <1>1, <1>2, <1>4, <1>5, <1>6, <1>7, <1>8, <1>9

LEMMA ReadCases ==
  ASSUME NEW s
  PROVE  /\ s[1] # BackSlash =>
              ReadChr(s) = Read(IF s[1] = 255 THEN Invalid ELSE s[1], 1)
         /\ s[1] = BackSlash /\ s = <<BackSlash>> => ReadChr(s) = Read(Invalid, 1)
         /\ s[1] = BackSlash /\ s # <<BackSlash>> =>
              /\ s[2] = LowerX => ReadChr(s) = Hex(Number(SubSeq(s, 3, Len(s)), 16, 2))
              /\ s[2] \in 48..57 => ReadChr(s) = Octal(s[2], Number(Tail(s), 8, 3))
              /\ s[2] \in DOMAIN Escapes => ReadChr(s) = Read(Escapes[s[2]], 2)
              /\ s[2] # LowerX /\ s[2] \notin 48..57 /\ s[2] \notin DOMAIN Escapes =>
                   ReadChr(s) = Read(IF s[2] = 255 THEN Invalid ELSE s[2], 2)
<1> DEFINE x == s[2]
           hex == Hex(Number(SubSeq(s, 3, Len(s)), 16, 2))
           octal == Octal(x, Number(Tail(s), 8, 3))
           plain == Read(IF x = 255 THEN Invalid ELSE x, 2)
           escape == Read(Escapes[x], 2)
           behind == CASE x = LowerX -> hex
                       [] x \in 48..57 -> octal
                       [] x \in DOMAIN Escapes -> escape
                       [] OTHER -> plain
           first == Read(IF s[1] = 255 THEN Invalid ELSE s[1], 1)
<1>1. ReadChr(s) = CASE s[1] # BackSlash -> first
                     [] s = <<BackSlash>> -> Read(Invalid, 1)
                     [] OTHER -> behind
  BY DEF ReadChr
<1>2. x \in DOMAIN Escapes => x # LowerX /\ x \notin 48..57
  BY DEF Escapes, LowerX, DQ, SQ, BackSlash
<1> HIDE DEF hex, octal, plain, escape, first, x
<1>3. /\ x = LowerX => behind = hex
      /\ x \in 48..57 => behind = octal
      /\ x \in DOMAIN Escapes => behind = escape
      /\ x # LowerX /\ x \notin 48..57 /\ x \notin DOMAIN Escapes => behind = plain
  <2>1. LowerX \notin 48..57
    BY DEF LowerX
  <2>2. QED
    BY <1>2, <2>1
<1> HIDE DEF behind
<1>4. /\ s[1] # BackSlash => ReadChr(s) = first
      /\ s[1] = BackSlash /\ s = <<BackSlash>> => ReadChr(s) = Read(Invalid, 1)
      /\ s[1] = BackSlash /\ s # <<BackSlash>> => ReadChr(s) = behind
  BY <1>1
<1>. QED BY <1>3, <1>4 DEF hex, octal, plain, escape, first, x

TwoDigits(n, v, a, b) ==
  /\ n \in 0..2
  /\ (n \in {1, 2} => a \in 0..15) /\ (n = 2 => b \in 0..15)
  /\ (n = 1 => v = a) /\ (n = 2 => v = a * 16 + b)

ThreeDigits(n, v, a, b, c) ==
  /\ n \in 0..3
  /\ (n \in {1, 2, 3} => a \in 0..7) /\ (n \in {2, 3} => b \in 0..7) /\ (n = 3 => c \in 0..7)
  /\ (n = 1 => v = a) /\ (n = 2 => v = a * 8 + b) /\ (n = 3 => v = (a * 8 + b) * 8 + c)

LEMMA Denotable ==
  ASSUME NEW n, NEW v, NEW a, NEW b, NEW c
  PROVE  /\ TwoDigits(n, v, a, b) /\ n # 0 => v \in 0..255
         /\ ThreeDigits(n, v, a, b, c) /\ n # 0 => v > 255 \/ v \in 0..255
<1>1. ASSUME TwoDigits(n, v, a, b), n # 0 PROVE v \in 0..255
  BY <1>1 DEF TwoDigits
<1>2. ASSUME ThreeDigits(n, v, a, b, c), n # 0 PROVE v > 255 \/ v \in 0..255
  BY <1>2 DEF ThreeDigits
<1>. QED BY <1>1, <1>2

LEMMA ReadIs ==
  ASSUME NEW s \in Seq(Chars), s # <<>>
  PROVE  /\ ReadChr(s).value \in {Invalid} \union 0..255
         /\ ReadChr(s).used \in 1..5
<1>1. CASE s[1] # BackSlash
  <2>1. s[1] \in Chars
    OBVIOUS
  <2>2. ReadChr(s) = Read(IF s[1] = 255 THEN Invalid ELSE s[1], 1)
    BY <1>1, ReadCases
  <2>3. QED
    BY <2>1, <2>2 DEF Read, Chars
<1>2. CASE s[1] = BackSlash /\ s = <<BackSlash>>
  <2>1. ReadChr(s) = Read(Invalid, 1)
    BY <1>2, ReadCases
  <2>2. QED
    BY <2>1 DEF Read
<1>3. CASE s[1] = BackSlash /\ s # <<BackSlash>>
  <2>1. Len(s) >= 2
    <3>1. Len(s) \in Nat /\ s = [i \in 1..Len(s) |-> s[i]] /\ Len(s) # 0
      OBVIOUS
    <3>2. Len(s) = 1 => s = <<BackSlash>>
      BY <1>3, <3>1
    <3>3. QED
      BY <1>3, <3>1, <3>2
  <2>2. s[2] \in Chars
    BY <2>1
  <2>3. CASE s[2] = LowerX
    <3> DEFINE t == SubSeq(s, 3, Len(s))
               n == Number(t, 16, 2).count
               v == Number(t, 16, 2).value
               a == Digit(t[1], 16)
               b == Digit(t[2], 16)
    <3>1. t \in Seq(Chars)
      BY <2>1
    <3>2. ReadChr(s) = IF n = 0 THEN Read(Invalid, 2) ELSE Read(v, 2 + n)
      BY <1>3, <2>3, ReadCases DEF Hex
    <3> HIDE DEF t
    <3>3. /\ n \in 0..2
          /\ \A i \in 1..n : Digit(t[i], 16) \in 0..15
          /\ n = 1 => v = a
          /\ n = 2 => v = a * 16 + b
      BY <3>1, NumberIs
    <3> HIDE DEF n, v
    <3>4. TwoDigits(n, v, a, b)
      BY <3>3 DEF TwoDigits
    <3> HIDE DEF a, b
    <3>5. n # 0 => v \in 0..255
      BY <3>4, Denotable
    <3>6. QED
      BY <3>2, <3>3, <3>5 DEF Read
  <2>4. CASE s[2] # LowerX /\ s[2] \in 48..57
    <3> DEFINE t == Tail(s)
               n == Number(t, 8, 3).count
               v == Number(t, 8, 3).value
               a == Digit(t[1], 8)
               b == Digit(t[2], 8)
               c == Digit(t[3], 8)
    <3>1. t \in Seq(Chars)
      BY <2>1
    <3>2. ReadChr(s) = Octal(s[2], Number(t, 8, 3))
      BY <1>3, <2>4, ReadCases
    <3>3. \/ ReadChr(s) = Read(s[2], 2)
          \/ ReadChr(s) = Read(Invalid, 1 + n)
          \/ ReadChr(s) = Read(v, 1 + n) /\ n # 0 /\ ~(v > 255)
      BY <3>2 DEF Octal
    <3> HIDE DEF t
    <3>4. /\ n \in 0..3
          /\ \A i \in 1..n : Digit(t[i], 8) \in 0..7
          /\ n = 1 => v = a
          /\ n = 2 => v = a * 8 + b
          /\ n = 3 => v = (a * 8 + b) * 8 + c
      BY <3>1, NumberIs
    <3> HIDE DEF n, v
    <3>5. ThreeDigits(n, v, a, b, c)
      BY <3>4 DEF ThreeDigits
    <3> HIDE DEF a, b, c
    <3>6. n # 0 => v > 255 \/ v \in 0..255
      BY <3>5, Denotable
    <3>7. s[2] \in 0..255 /\ 2 \in 1..5 /\ 1 + n \in 1..5
      BY <2>4, <3>4
    <3>8. \A x, k : Read(x, k).value = x /\ Read(x, k).used = k
      BY DEF Read
    <3> DEFINE Good(r) == r.value \in {Invalid} \union 0..255 /\ r.used \in 1..5
    <3>9. \A x \in {Invalid} \union 0..255, k \in 1..5 : Good(Read(x, k))
      BY <3>8
    <3>10. Good(Read(s[2], 2)) /\ Good(Read(Invalid, 1 + n))
      BY <3>7, <3>9
    <3>11. n # 0 /\ ~(v > 255) => Good(Read(v, 1 + n))
      BY <3>6, <3>7, <3>9
    <3> HIDE DEF Good
    <3>12. Good(ReadChr(s))
      BY <3>3, <3>10, <3>11
    <3>13. QED
      BY <3>12 DEF Good
  <2>5. CASE s[2] # LowerX /\ s[2] \notin 48..57 /\ s[2] \in DOMAIN Escapes
    <3>1. ReadChr(s) = Read(Escapes[s[2]], 2)
      BY <1>3, <2>5, ReadCases
    <3>2. Escapes[s[2]] \in 0..255
      BY <2>5 DEF Escapes, DQ, SQ, BackSlash
    <3>3. QED
      BY <3>1, <3>2 DEF Read
  <2>6. CASE s[2] # LowerX /\ s[2] \notin 48..57 /\ s[2] \notin DOMAIN Escapes
    <3>1. ReadChr(s) = Read(IF s[2] = 255 THEN Invalid ELSE s[2], 2)
      BY <1>3, <2>6, ReadCases
    <3>2. QED
      BY <2>2, <3>1 DEF Read, Chars
  <2>7. QED
    BY <2>3, <2>4, <2>5, <2>6
<1>. QED BY <1>1, <1>2, <1>3

(* A step of the parse, in terms of what is read.                          *)
Parse == {"valid", "rest", "text"}

LEMMA ParseSteps ==
  ASSUME NEW p, DOMAIN p = Parse
  PROVE  /\ DOMAIN ParseStep(p) = Parse
         /\ p.rest = <<>> \/ ~p.valid => ParseStep(p) = p
         /\ p.rest # <<>> /\ p.valid /\ ReadChr(p.rest).value = Invalid =>
              ~ParseStep(p).valid /\ ParseStep(p).rest = p.rest /\ ParseStep(p).text = p.text
         /\ p.rest # <<>> /\ p.valid /\ ReadChr(p.rest).value # Invalid =>
              /\ ParseStep(p).valid
              /\ ParseStep(p).rest = SubSeq(p.rest, ReadChr(p.rest).used + 1, Len(p.rest))
              /\ ParseStep(p).text = Append(p.text, ReadChr(p.rest).value)
<1> DEFINE r == ReadChr(p.rest)
           rest == SubSeq(p.rest, r.used + 1, Len(p.rest))
           text == Append(p.text, r.value)
           wrong == [p EXCEPT !.valid = FALSE]
           first == [p EXCEPT !.rest = rest]
           next == [first EXCEPT !.text = text]
<1>1. CASE p.rest = <<>> \/ ~p.valid
  <2>1. ParseStep(p) = p
    BY <1>1 DEF ParseStep
  <2>2. QED
    BY <1>1, <2>1
<1>2. CASE p.rest # <<>> /\ p.valid /\ r.value = Invalid
  <2>1. ParseStep(p) = wrong
    BY <1>2 DEF ParseStep
  <2>2. DOMAIN wrong = Parse /\ wrong.valid = FALSE /\ wrong.rest = p.rest /\ wrong.text = p.text
    BY DEF Parse
  <2> HIDE DEF wrong
  <2>3. QED
    BY <1>2, <2>1, <2>2
<1>3. CASE p.rest # <<>> /\ p.valid /\ r.value # Invalid
  <2>1. ParseStep(p) = [p EXCEPT !.rest = SubSeq(@, r.used + 1, Len(@)), !.text = Append(@, r.value)]
    BY <1>3 DEF ParseStep
  <2>2. DOMAIN first = Parse /\ first.valid = p.valid /\ first.rest = rest /\ first.text = p.text
    <3> HIDE DEF rest
    <3>1. QED
      BY DEF Parse
  <2>3. [p EXCEPT !.rest = SubSeq(@, r.used + 1, Len(@)), !.text = Append(@, r.value)] = next
    BY DEF Parse
  <2> HIDE DEF first, rest
  <2>4. DOMAIN next = Parse /\ next.valid = p.valid /\ next.rest = rest /\ next.text = text
    <3> HIDE DEF text
    <3>1. QED
      BY <2>2 DEF Parse
  <2> HIDE DEF next
  <2>5. ParseStep(p) = next
    BY <2>1, <2>3
  <2>6. QED
    BY <1>3, <2>4, <2>5 DEF rest, text
<1>. QED BY <1>1, <1>2, <1>3

Reads(p, i) ==
  /\ DOMAIN p = Parse
  /\ p.rest \in Seq(Chars)
  /\ p.text \in Seq(0..255) /\ Len(p.text) <= i

LEMMA ReadsOn ==
  ASSUME NEW i \in Nat, NEW p, Reads(p, i)
  PROVE  Reads(ParseStep(p), i + 1)
<1> DEFINE r == ReadChr(p.rest)
           q == ParseStep(p)
           rest == SubSeq(p.rest, r.used + 1, Len(p.rest))
<1>1. /\ DOMAIN q = Parse
      /\ p.rest = <<>> \/ ~p.valid => q = p
      /\ p.rest # <<>> /\ p.valid /\ r.value = Invalid =>
           ~q.valid /\ q.rest = p.rest /\ q.text = p.text
      /\ p.rest # <<>> /\ p.valid /\ r.value # Invalid =>
           q.valid /\ q.rest = rest /\ q.text = Append(p.text, r.value)
  BY ParseSteps DEF Reads
<1>2. /\ DOMAIN p = Parse /\ p.rest \in Seq(Chars) /\ p.text \in Seq(0..255)
      /\ Len(p.text) \in Nat /\ Len(p.text) <= i /\ Len(p.text) <= i + 1
  BY DEF Reads
<1> HIDE DEF q
<1>3. CASE p.rest = <<>> \/ ~p.valid
  BY <1>1, <1>2, <1>3, Zenon DEF Reads, q
<1>4. CASE p.rest # <<>> /\ p.valid /\ r.value = Invalid
  BY <1>1, <1>2, <1>4, Zenon DEF Reads, q
<1>5. CASE p.rest # <<>> /\ p.valid /\ r.value # Invalid
  <2>1. r.value \in {Invalid} \union 0..255 /\ r.used \in 1..5
    BY <1>5, ReadIs DEF Reads
  <2>2. r.value \in 0..255
    BY <1>5, <2>1
  <2>3. rest \in Seq(Chars)
    <3> HIDE DEF r
    <3>1. QED
      BY <2>1 DEF Reads
  <2> HIDE DEF r, rest
  <2>4. Append(p.text, r.value) \in Seq(0..255) /\ Len(Append(p.text, r.value)) <= i + 1
    BY <1>2, <2>2
  <2>5. QED
    BY <1>1, <1>2, <1>5, <2>3, <2>4, Zenon DEF Reads, q
<1>. QED BY <1>3, <1>4, <1>5

LEMMA ParsedIs ==
  ASSUME NEW s \in Seq(Chars), NEW most \in Nat
  PROVE  Parsed(s, most).text \in Seq(0..255) /\ Len(Parsed(s, most).text) <= most
<1> DEFINE n == Min({most, Len(s)})
           p0 == [valid |-> TRUE, rest |-> s, text |-> <<>>]
<1>1. n \in Nat /\ n <= most
  BY DEF Min
<1>2. PICK L : Folded(L, "parse", {}, p0, [i \in 1..n |-> i], n) /\ Parsed(s, most) = L[n]
  <2>1. Min({most, Len(s)}) = n
    OBVIOUS
  <2> HIDE DEF n
  <2>2. QED
    BY <1>1, <2>1, ParseFold
<1> HIDE DEF n
<1> DEFINE S == {i \in 0..n : Reads(L[i], i)}
<1>3. 0 \in S
  <2>1. L[0] = p0
    BY <1>2 DEF Folded
  <2>2. Reads(p0, 0)
    BY DEF Reads, Parse
  <2>3. QED
    BY <1>1, <2>1, <2>2
<1>4. ASSUME NEW i \in 1..n, i - 1 \in S PROVE i \in S
  <2>1. L[i] = ParseStep(L[i - 1])
    BY <1>2 DEF Folded, Step
  <2>2. i - 1 \in Nat /\ Reads(L[i - 1], i - 1) /\ (i - 1) + 1 = i
    BY <1>1, <1>4
  <2>3. Reads(ParseStep(L[i - 1]), (i - 1) + 1)
    BY <2>2, ReadsOn
  <2>4. QED
    BY <1>1, <2>1, <2>2, <2>3
<1>5. n \in S
  <2>1. n \in 0..n
    BY <1>1
  <2> HIDE DEF S
  <2>2. QED
    BY <1>1, <1>3, <1>4, <2>1, Climbs
<1>6. Reads(L[n], n)
  BY <1>5
<1>. QED BY <1>1, <1>2, <1>6 DEF Reads

LEMMA CloseIs ==
  ASSUME NEW s, Len(s) \in Nat, Len(s) >= 1
  PROVE  Close(s) \in 0..Len(s)
<1> DEFINE n == Len(s) - 1
           p0 == [close |-> 0, protected |-> FALSE]
<1>1. n \in Nat /\ Len(s) = n + 1
  OBVIOUS
<1> HIDE DEF n
<1>2. PICK L : Folded(L, "close", s, p0, [i \in 1..n |-> i + 1], n) /\ Close(s) = L[n].close
  BY <1>1, CloseFold
<1> DEFINE Good(p) == \/ Protected(p)
                      \/ \E k \in 0..n+1 : ClosesAt(p, k)
           S == {i \in 0..n : Good(L[i])}
<1>3. 0 \in S
  <2>1. L[0] = p0
    BY <1>2 DEF Folded
  <2>2. ClosesAt(p0, 0) /\ 0 \in 0..n+1
    BY <1>1 DEF ClosesAt
  <2>3. QED
    BY <1>1, <2>1, <2>2
<1>4. ASSUME NEW i \in 1..n, i - 1 \in S PROVE i \in S
  <2> DEFINE p == L[i - 1]
  <2>1. L[i] = CloseStep(s, p, i + 1)
    BY <1>2 DEF Folded, Step
  <2>2. 0 \in 0..n+1 /\ i + 1 \in 0..n+1 /\ i \in 0..n
    BY <1>1
  <2>3. Good(p)
    BY <1>4
  <2> HIDE DEF p
  <2>4. CASE Protected(p)
    BY <2>1, <2>2, <2>4, CloseSteps
  <2>5. CASE ClosesAt(p, 0)
    BY <2>1, <2>2, <2>5, CloseSteps
  <2>6. ASSUME NEW k \in 1..n+1, ClosesAt(p, k) PROVE Good(L[i])
    <3>1. CloseStep(s, p, i + 1) = p
      BY <2>6 DEF CloseStep, ClosesAt
    <3>2. QED
      BY <2>1, <2>3, <3>1
  <2>7. Good(L[i])
    <3>1. \A k \in 0..n+1 : k = 0 \/ k \in 1..n+1
      BY <1>1
    <3> HIDE DEF Good
    <3>2. Protected(p) \/ ClosesAt(p, 0) \/ \E k \in 1..n+1 : ClosesAt(p, k)
      BY <2>3, <3>1 DEF Good
    <3>3. 0 \in 0..n+1
      BY <2>2
    <3>4. QED
      BY <2>4, <2>5, <2>6, <2>2, <3>2 DEF Good
  <2>8. QED
    BY <2>2, <2>7
<1>5. n \in S
  <2>1. n \in 0..n
    BY <1>1
  <2> HIDE DEF S
  <2>2. QED
    BY <1>1, <1>3, <1>4, <2>1, Climbs
<1>6. Good(L[n])
  BY <1>5
<1>7. L[n].close \in 0..n+1
  BY <1>1, <1>6 DEF Protected, ClosesAt
<1>. QED BY <1>1, <1>2, <1>7

LEMMA QuotedIs ==
  ASSUME NEW s \in Seq(Chars), NEW most \in Nat
  PROVE  /\ QuoteString(s, most).text \in Seq(0..255)
         /\ Len(QuoteString(s, most).text) <= most
<1> DEFINE close == Close(s)
           body == SubSeq(s, 2, close - 1)
<1>1. \/ QuoteString(s, most) = Warned
      \/ QuoteString(s, most) = Aborts
      \/ s # <<>> /\ QuoteString(s, most) = Text(Parsed(body, most).text)
  BY DEF QuoteString
<1>2. <<>> \in Seq(0..255) /\ Len(<<>>) = 0
  OBVIOUS
<1>3. \A t : Text(t).text = t /\ Warned.text = <<>> /\ Aborts.text = <<>>
  BY DEF Text, Warned, Aborts
<1>4. ASSUME s # <<>>
      PROVE  Parsed(body, most).text \in Seq(0..255) /\ Len(Parsed(body, most).text) <= most
  <2>1. Len(s) \in Nat /\ Len(s) >= 1
    BY <1>4
  <2>2. close \in 0..Len(s)
    BY <2>1, CloseIs
  <2> HIDE DEF close
  <2>3. body \in Seq(Chars)
    BY <2>2
  <2> HIDE DEF body
  <2>4. QED
    BY <2>3, ParsedIs
<1> HIDE DEF body
<1>5. CASE QuoteString(s, most) = Warned \/ QuoteString(s, most) = Aborts
  <2>1. QuoteString(s, most).text = <<>>
    BY <1>3, <1>5
  <2>2. 0 <= most
    OBVIOUS
  <2>3. QED
    BY <1>2, <2>1, <2>2
<1>6. CASE s # <<>> /\ QuoteString(s, most) = Text(Parsed(body, most).text)
  BY <1>3, <1>4, <1>6
<1>. QED BY <1>1, <1>5, <1>6

(* What an argument sets the end of record to.                             *)
IsEor(t) == t \in Seq(Chars) /\ Len(t) <= 7

LEMMA UpToNulIs ==
  ASSUME NEW t \in Seq(0..255), Len(t) <= 7
  PROVE  IsEor(UpToNul(t))
<1> DEFINE S == {k \in 0..Len(t) : k = Len(t) \/ t[k + 1] = NUL}
<1>1. Len(t) \in S /\ S \subseteq Nat
  OBVIOUS
<1>2. PICK e \in S : \A j \in S : e <= j
  <2> HIDE DEF S
  <2>1. QED
    BY <1>1, LeastIn
<1>3. Min(S) = e
  <2> HIDE DEF S
  <2>1. QED
    BY <1>1, <1>2, MinimumOf
<1>4. e \in 0..Len(t) /\ \A i \in 1..e : t[i] # NUL
  <2>1. ASSUME NEW i \in 1..e, t[i] = NUL PROVE FALSE
    <3>1. i - 1 \in 0..Len(t) /\ (i - 1) + 1 = i
      BY <1>2
    <3>2. i - 1 \in S
      BY <2>1, <3>1
    <3>3. QED
      BY <1>2, <3>2
  <2>2. QED
    BY <1>2, <2>1
<1>5. UpToNul(t) = SubSeq(t, 1, e)
  BY <1>3 DEF UpToNul
<1> HIDE DEF S
<1>6. SubSeq(t, 1, e) \in Seq(Chars) /\ Len(SubSeq(t, 1, e)) = e
  <2>1. \A i \in 1..e : t[i] \in Chars
    <3>1. ASSUME NEW i \in 1..e PROVE t[i] \in Chars
      <4>1. i \in 1..Len(t)
        BY <1>4
      <4>2. t[i] \in 0..255
        BY <4>1, ElementOfSeq
      <4>3. t[i] # 0
        BY <1>4 DEF NUL
      <4>4. QED
        BY <4>2, <4>3 DEF Chars
    <3>2. QED
      BY <3>1
  <2>2. /\ Len(SubSeq(t, 1, e)) = e
        /\ \A i \in 1..e : SubSeq(t, 1, e)[i] = t[i]
        /\ SubSeq(t, 1, e) = [i \in 1..e |-> t[i]]
    BY <1>4
  <2>3. [i \in 1..e |-> t[i]] \in Seq(Chars)
    BY <1>4, <2>1
  <2>4. QED
    BY <2>2, <2>3
<1>. QED BY <1>4, <1>5, <1>6 DEF IsEor

LEMMA QuotifyIs ==
  ASSUME NEW s \in Seq(Chars)
  PROVE  Quotify(s) \in Seq(Chars)
<1>1. SQ \in Chars /\ BackSlash \in Chars /\ DQ \in Chars
  BY DEF SQ, BackSlash, DQ, Chars
<1>2. <<SQ>> \in Seq(Chars) /\ <<SQ>> \o s \o <<SQ>> \in Seq(Chars)
  BY <1>1
<1>3. s \in {<<SQ>>, <<DQ>>} => <<SQ, BackSlash, s[1], SQ>> \in Seq(Chars)
  BY <1>1
<1>. QED BY <1>2, <1>3 DEF Quotify

-----------------------------------------------------------------------------
(* What is kept of a context: the streams, what it closes, and separators   *)
(* that are distinct.                                                      *)
Fields == Separators \union Channels \union {"closes", "eor"}
IsContext(c) ==
  /\ Fields \union {"modes", "sizes", "names"} \subseteq DOMAIN c
  /\ "skip" \in DOMAIN c.sizes
  /\ "record" \in DOMAIN c.names
  /\ IsEor(c.eor)

Distinct(c) == \A f, g \in Separators : c[f] = c[g] => f = g

Keeps(c, d) ==
  IsContext(c) =>
    /\ IsContext(d)
    /\ d.closes = c.closes
    /\ \A channel \in Channels : d[channel] = c[channel]
    /\ Distinct(c) => Distinct(d)

-----------------------------------------------------------------------------
(* The setters keep the channels and what is closed, and leave the         *)
(* separators distinct.                                                    *)
LEMMA KeptItself == ASSUME NEW c PROVE Keeps(c, c)
  BY DEF Keeps

LEMMA KeptTwice ==
  ASSUME NEW c, NEW d, NEW e, Keeps(c, d), Keeps(d, e)
  PROVE  Keeps(c, e)
  BY DEF Keeps

(* A member that is none of Fields may have any value, but sizes and names *)
(* stay what they are about.                                               *)
LEMMA OtherKept ==
  ASSUME NEW c, NEW f, f \notin Fields, NEW v,
         f \in {"sizes", "names"} => DOMAIN v = DOMAIN c[f]
  PROVE  Keeps(c, [c EXCEPT ![f] = v])
  BY DEF Keeps, IsContext, Fields, Distinct, Separators, Channels

LEMMA JudgedKeeps ==
  ASSUME NEW c, NEW field \in Separators \union {"eor"}, NEW q,
         field = "eor" => q.text \in Seq(0..255) /\ Len(q.text) <= 7
  PROVE  Keeps(c, Judged(c, field, q).result)
<1>1. CASE q.kind = "aborts"
  BY <1>1, KeptItself DEF Judged, Outcome
<1>2. CASE q.kind # "aborts" /\ q.kind = "warned"
  BY <1>2, KeptItself DEF Judged, Outcome
<1>3. CASE q.kind \notin {"aborts", "warned"} /\ \E f \in Separators \ {field} : q.text[1] = c[f]
  BY <1>3, KeptItself DEF Judged, Outcome
<1>4. CASE q.kind \notin {"aborts", "warned"} /\ ~(\E f \in Separators \ {field} : q.text[1] = c[f])
  <2> DEFINE v == IF field = "eor" THEN UpToNul(q.text) ELSE q.text[1]
             d == [c EXCEPT ![field] = v]
  <2>1. Judged(c, field, q).result = d
    BY <1>4 DEF Judged, Unsaid, Outcome
  <2>2. CASE field = "eor"
    <3>1. v = UpToNul(q.text) /\ IsEor(UpToNul(q.text))
      BY <2>2, UpToNulIs
    <3> HIDE DEF v
    <3>2. Keeps(c, d)
      BY <2>2, <3>1 DEF Keeps, IsContext, Fields, Distinct, Separators, Channels
    <3>3. QED
      BY <2>1, <3>2
  <2>3. CASE field \in Separators
    <3>1. v = q.text[1] /\ \A f \in Separators \ {field} : v # c[f]
      BY <1>4, <2>3 DEF Separators
    <3> HIDE DEF v
    <3>2. Keeps(c, d)
      BY <3>1, <2>3 DEF Keeps, IsContext, Fields, Distinct, Separators, Channels
    <3>3. QED
      BY <2>1, <3>2
  <2>4. QED
    BY <2>2, <2>3
<1>5. QED
  BY <1>1, <1>2, <1>3, <1>4

LEMMA SetTextKeeps ==
  ASSUME NEW c, NEW field \in Separators \union {"eor"}, NEW arg,
         field = "eor" => arg \in Seq(Chars)
  PROVE  Keeps(c, SetText(c, field, arg).result)
<1>1. field = "eor" => /\ QuoteString(arg, 7).text \in Seq(0..255)
                       /\ Len(QuoteString(arg, 7).text) <= 7
  BY QuotedIs
<1>. QED BY <1>1, JudgedKeeps, KeptItself DEF SetText, SetEor, SetSeparator, Outcome, Separators

LEMMA SetQuotedKeeps ==
  ASSUME NEW c, NEW field \in Separators \union {"eor"}, NEW value,
         field = "eor" => value \in Seq(Chars)
  PROVE  Keeps(c, SetQuoted(c, field, value).result)
  BY SetTextKeeps, QuotifyIs, KeptItself DEF SetQuoted, Outcome

LEMMA SetModeKeeps ==
  ASSUME NEW c, NEW mode, NEW ops
  PROVE  Keeps(c, SetMode(c, mode, ops).result)
<1>1. PICK modes : SetMode(c, mode, ops).result = [c EXCEPT !["modes"] = modes]
  BY DEF SetMode, Outcome
<1>2. "modes" \notin Fields
  BY DEF Fields, Separators, Channels
<1>3. QED
  BY <1>1, <1>2, OtherKept

LEMMA SwitchedKeeps ==
  ASSUME NEW c, NEW mode, NEW op
  PROVE  Keeps(c, Switched(c, mode, op))
  BY SetModeKeeps DEF Switched

LEMMA SetNameKeeps ==
  ASSUME NEW c, NEW name, NEW value
  PROVE  Keeps(c, SetName(c, name, value))
<1> DEFINE names == [c.names EXCEPT ![name] = value]
<1>1. SetName(c, name, value) = [c EXCEPT !["names"] = names]
  BY DEF SetName
<1>2. "names" \notin Fields
  BY DEF Fields, Separators, Channels
<1>3. DOMAIN names = DOMAIN c.names
  OBVIOUS
<1> HIDE DEF names
<1>4. Keeps(c, [c EXCEPT !["names"] = names])
  BY <1>2, <1>3, OtherKept
<1>5. QED
  BY <1>1, <1>4

LEMMA TagsSetNames ==
  ASSUME NEW names, NEW tags, IsSequence(tags)
  PROVE  DOMAIN TagsSet(names, tags).result = DOMAIN names
<1>1. Len(tags) \in Nat /\ DOMAIN tags = 1..Len(tags)
  BY DEF IsSequence
<1> DEFINE n == Len(tags)
<1>2. PICK L : Folded(L, "tags", {}, Unsaid(names), tags, n) /\ TagsSet(names, tags) = L[n]
  BY <1>1, TagsFold
<1> DEFINE S == {i \in 0..n : DOMAIN L[i].result = DOMAIN names}
<1>3. 0 \in S
  BY <1>1, <1>2 DEF Folded, Unsaid, Outcome
<1>4. ASSUME NEW i \in 1..n, i - 1 \in S PROVE i \in S
  <2>1. L[i] = Then(L[i - 1], TagSet(L[i - 1].result, tags[i]))
    BY <1>1, <1>2 DEF Folded, Step
  <2>2. DOMAIN TagSet(L[i - 1].result, tags[i]).result = DOMAIN L[i - 1].result
    BY DEF TagSet, Outcome
  <2>3. QED
    BY <1>1, <1>4, <2>1, <2>2 DEF Then, Outcome
<1>5. n \in S
  <2>1. n \in Nat /\ 0 \in S /\ \A i \in 1..n : i - 1 \in S => i \in S
    BY <1>1, <1>3, <1>4
  <2>2. n \in 0..n
    BY <1>1
  <2> HIDE DEF S, n
  <2>3. QED
    BY <2>1, <2>2, Climbs
<1>6. QED
  BY <1>2, <1>5

LEMMA SetTagsKeeps ==
  ASSUME NEW c, NEW tags, IsSequence(tags)
  PROVE  Keeps(c, SetTags(c, tags).result)
<1> DEFINE names == TagsSet(c.names, tags).result
<1>1. SetTags(c, tags).result = [c EXCEPT !["names"] = names]
  BY DEF SetTags, Outcome
<1>2. "names" \notin Fields
  BY DEF Fields, Separators, Channels
<1>3. DOMAIN names = DOMAIN c.names
  BY TagsSetNames
<1> HIDE DEF names
<1>4. QED
  BY <1>1, <1>2, <1>3, OtherKept

LEMMA ThenKeeps ==
  ASSUME NEW c, NEW first, NEW second, Keeps(c, second.result)
  PROVE  Keeps(c, Then(first, second).result)
  BY DEF Then, Outcome

LEMMA SetSizeKeeps ==
  ASSUME NEW c, NEW field, NEW arg
  PROVE  Keeps(c, SetSize(c, field, arg).result)
<1> DEFINE number == AtLeast(arg[1], 0)
           n == number.result
           Keep == CASE n = 0 /\ field \in {"ibase", "tsize"} -> Outcome(c, {"shown"})
                     [] field = "ibase" /\ (n = 1 \/ n > 36) ->
                          Unsaid([c EXCEPT !.sizes[field] = 0])
                     [] OTHER -> Unsaid([c EXCEPT !.sizes[field] = n])
<1>1. "sizes" \notin Fields
  BY DEF Fields, Separators, Channels
<1>2. Keeps(c, Outcome(c, {"shown"}).result)
  BY KeptItself DEF Outcome
<1>3. ASSUME NEW m PROVE Keeps(c, Unsaid([c EXCEPT !.sizes[field] = m]).result)
  <2> DEFINE sizes == [c.sizes EXCEPT ![field] = m]
  <2>1. Unsaid([c EXCEPT !.sizes[field] = m]).result = [c EXCEPT !["sizes"] = sizes]
    BY DEF Unsaid, Outcome
  <2>2. DOMAIN sizes = DOMAIN c.sizes
    OBVIOUS
  <2> HIDE DEF sizes
  <2>3. Keeps(c, [c EXCEPT !["sizes"] = sizes])
    BY <1>1, <2>2, OtherKept
  <2>4. QED
    BY <2>1, <2>3
<1> HIDE DEF n
<1>4. Keeps(c, Keep.result)
  <2>1. \/ Keep = Outcome(c, {"shown"})
        \/ Keep = Unsaid([c EXCEPT !.sizes[field] = 0])
        \/ Keep = Unsaid([c EXCEPT !.sizes[field] = n])
    OBVIOUS
  <2> HIDE DEF Keep
  <2>2. QED
    BY <2>1, <1>2, <1>3
<1>5. SetSize(c, field, arg) = IF arg = <<>> THEN Outcome(c, {"shown"}) ELSE Then(number, Keep)
  BY DEF SetSize, n
<1> HIDE DEF Keep, number
<1>6. QED
  BY <1>2, <1>4, <1>5, ThenKeeps

LEMMA SetFormatKeeps ==
  ASSUME NEW c, NEW op
  PROVE  Keeps(c, SetFormat(c, op).result)
<1>1. ASSUME NEW r, Keeps(c, r.result) PROVE Keeps(c, CommaFormat(r, "csv").result)
  BY <1>1, SetModeKeeps, ThenKeeps, KeptTwice DEF CommaFormat
<1>2. ASSUME NEW r, Keeps(c, r.result) PROVE Keeps(c, CommaFormat(r, "db2").result)
  <2>1. Keeps(c, SetName(r.result, "date", "yyyy-mm-dd"))
    BY <1>2, SetNameKeeps, KeptTwice
  <2>2. Keeps(c, SetMode(SetName(r.result, "date", "yyyy-mm-dd"), "format", <<"db2">>).result)
    BY <2>1, SetModeKeeps, KeptTwice
  <2>3. CommaFormat(r, "db2")
          = Then(r, SetMode(SetName(r.result, "date", "yyyy-mm-dd"), "format", <<"db2">>))
    BY DEF CommaFormat
  <2>4. QED
    BY <2>2, <2>3, ThenKeeps
<1>3. Keeps(c, SetQuoted(c, "delim", Comma).result)
  BY SetQuotedKeeps DEF Separators
<1>4. QED
  BY <1>1, <1>2, <1>3, SetModeKeeps DEF SetFormat

LEMMA FormatSetKeeps ==
  ASSUME NEW c, NEW words, IsSequence(words)
  PROVE  Keeps(c, FormatSet(c, words).result)
<1>1. ASSUME NEW r, NEW tags, IsSequence(tags), Keeps(c, r.result)
      PROVE  Keeps(c, WithTags(r, tags).result)
  BY <1>1, SetTagsKeeps, ThenKeeps, KeptTwice DEF WithTags
<1>2. words # <<>> => IsSequence(Tail(words))
  <2>1. PICK S : words \in Seq(S)
    BY SequenceIs
  <2>2. words # <<>> => Tail(words) \in Seq(S)
    BY <2>1
  <2>3. QED
    BY <2>2, IsOfSequence
<1>3. QED
  BY <1>1, <1>2, SetFormatKeeps DEF FormatSet

LEMMA CommandSetKeeps ==
  ASSUME NEW c, NEW cmd, WellFormed(cmd), cmd.do \in Typed
  PROVE  Keeps(c, CommandSet(c, cmd).result)
<1>1. CASE cmd.do = "separator"
  BY <1>1, SetTextKeeps DEF CommandSet, WellFormed
<1>2. CASE cmd.do = "mode"
  BY <1>2, SetModeKeeps, FormatSetKeeps DEF CommandSet, ModeSet, WellFormed
<1>3. CASE cmd.do = "size"
  BY <1>3, SetSizeKeeps DEF CommandSet
<1>4. CASE cmd.do = "name"
  BY <1>4, SetNameKeeps, KeptItself DEF CommandSet, NameSet, Unsaid, Outcome
<1>5. QED
  BY <1>1, <1>2, <1>3, <1>4 DEF Typed

LEMMA OptionSetKeeps ==
  ASSUME NEW c, NEW cmd, WellFormed(cmd), cmd.do \in Settles
  PROVE  Keeps(c, OptionSet(c, cmd).result)
<1>1. CASE cmd.do = "separator"
  BY <1>1, SetQuotedKeeps, KeptItself DEF OptionSet, WellFormed, Outcome
<1>2. CASE cmd.do = "tags"
  BY <1>2, SetTagsKeeps DEF OptionSet, Strictly, WellFormed
<1>3. CASE cmd.do \notin {"separator", "tags"}
  BY <1>3, CommandSetKeeps DEF OptionSet, Settles, Typed
<1>4. QED
  BY <1>1, <1>2, <1>3

LEMMA AppliedKeeps ==
  ASSUME NEW c, NEW load, load.eor \in Seq(Chars)
  PROVE  Keeps(c, Applied(c, load).result)
<1>1. ASSUME NEW r, NEW field \in Separators \union {"eor"}, Keeps(c, r.result)
      PROVE  Keeps(c, Asked(r, load, field).result)
  BY <1>1, SetQuotedKeeps, ThenKeeps, KeptTwice DEF Asked
<1>2. ASSUME NEW r, Keeps(c, r.result) PROVE Keeps(c, Formatted(r, load).result)
  BY <1>2, SetFormatKeeps, ThenKeeps, KeptTwice DEF Formatted
<1>3. ASSUME NEW r, Keeps(c, r.result) PROVE Keeps(c, Tagged(r, load).result)
  <2>1. Keeps(c, SetName(r.result, "record", "tag"))
    BY <1>3, SetNameKeeps, KeptTwice
  <2>2. Unsaid(SetName(r.result, "record", "tag")).result = SetName(r.result, "record", "tag")
    BY DEF Unsaid, Outcome
  <2>3. Keeps(c, Then(r, Unsaid(SetName(r.result, "record", "tag"))).result)
    BY <2>1, <2>2, ThenKeeps
  <2>4. QED
    BY <1>3, <2>3 DEF Tagged
<1>4. ASSUME NEW r, Keeps(c, r.result) PROVE Keeps(c, Skipped(r, load).result)
  BY <1>4, SetSizeKeeps, ThenKeeps, KeptTwice DEF Skipped
<1> DEFINE delimited == Asked(Unsaid(c), load, "delim")
           quoted == Asked(delimited, load, "quote")
           escaped == Asked(quoted, load, "escape")
           separated == Asked(escaped, load, "eor")
<1>5. Keeps(c, Unsaid(c).result)
  BY KeptItself DEF Unsaid, Outcome
<1>6. Keeps(c, delimited.result)
  BY <1>1, <1>5 DEF Separators
<1> HIDE DEF delimited
<1>7. Keeps(c, quoted.result)
  BY <1>1, <1>6 DEF Separators
<1> HIDE DEF quoted
<1>8. Keeps(c, escaped.result)
  BY <1>1, <1>7 DEF Separators
<1> HIDE DEF escaped
<1>9. Keeps(c, separated.result)
  BY <1>1, <1>8 DEF Separators
<1>10. Applied(c, load) = Skipped(Tagged(Formatted(separated, load), load), load)
  BY DEF Applied, separated, escaped, quoted, delimited
<1> HIDE DEF separated
<1>11. Keeps(c, Formatted(separated, load).result)
  BY <1>2, <1>9
<1>12. Keeps(c, Tagged(Formatted(separated, load), load).result)
  BY <1>3, <1>11
<1>13. QED
  BY <1>4, <1>10, <1>12

-----------------------------------------------------------------------------
(* The tokens of a statement, and which of them are options.               *)
Tokens(ts) ==
  /\ IsSequence(ts)
  /\ \A token \in Range(ts) :
       /\ IsSequence(token.t)
       /\ token.k = "number" => token.t # <<>>
       /\ token.k \in Strings => token.t \in Seq(Chars)

LEMMA FileIsSomewhere == ASSUME NEW ts PROVE FileAt(ts) \in Nat
<1>1. ASSUME NEW i \in Nat, NEW ks PROVE Skip(ts, i, ks) \in Nat
  BY DEF Skip
<1>2. LoadFile(ts) \in Nat
  BY <1>1 DEF LoadFile
<1>3. UnloadFile(ts) \in Nat
  <2> DEFINE to == Skip(ts, 2, {"TO"})
             j == CASE Is(ts, to, {"PIPE"}) -> to + 1
                    [] Is(ts, 2, {"TO", "CREATE"}) -> Skip(ts, 3, {"FILE"})
                    [] Is(ts, 2, {"APPEND"}) -> Skip(ts, Skip(ts, 3, {"TO"}), {"FILE"})
                    [] OTHER -> 0
  <2>1. to + 1 \in Nat /\ Skip(ts, 3, {"FILE"}) \in Nat
        /\ Skip(ts, Skip(ts, 3, {"TO"}), {"FILE"}) \in Nat
    BY <1>1
  <2>2. j \in {to + 1, Skip(ts, 3, {"FILE"}), Skip(ts, Skip(ts, 3, {"TO"}), {"FILE"}), 0}
    <3> HIDE DEF to
    <3>1. QED
      OBVIOUS
  <2>3. UnloadFile(ts) = IF Is(ts, j, Strings) THEN j ELSE 0
    BY DEF UnloadFile
  <2> HIDE DEF j, to
  <2>4. QED
    BY <2>1, <2>2, <2>3
<1>4. QED
  BY <1>2, <1>3 DEF FileAt

LEMMA TokenAt ==
  ASSUME NEW ts, Tokens(ts), NEW i \in Nat, NEW ks, "end" \notin ks, Is(ts, i, ks)
  PROVE  /\ i \in 1..Len(ts)
         /\ ts[i].k \in ks
         /\ IsSequence(ts[i].t)
         /\ ts[i].k = "number" => ts[i].t # <<>>
         /\ ts[i].k \in Strings => ts[i].t \in Seq(Chars)
<1>1. i \in 1..Len(ts) /\ ts[i].k \in ks
  BY DEF Is, Kind
<1>2. ts[i] \in Range(ts)
  BY <1>1 DEF Tokens, IsSequence, Range
<1>3. QED
  BY <1>1, <1>2 DEF Tokens

OptionKeys == {"DELIMITER", "QUOTE", "ESCAPE", "EOR", "FORMAT", "SKIP", "RECORDTAG"}

LEMMA OptionIs ==
  ASSUME NEW ts, Tokens(ts), NEW i \in Nat, OptionAt(ts, i)
  PROVE  /\ i \in 1..Len(ts)
         /\ ts[i].k \in OptionKeys
         /\ IsSequence(ts[i + 1].t)
         /\ ts[i].k = "SKIP" => ts[i + 1].t # <<>>
         /\ ts[i].k = "EOR" => ts[i + 1].t \in Seq(Chars)
<1> DEFINE words == Strings \union DOMAIN FormatWords
<1>1. "end" \notin Strings /\ "end" \notin words /\ "end" \notin {"number"} /\ "end" \notin OptionKeys
  BY DEF Strings, FormatWords, OptionKeys
<1>2. \/ Is(ts, i, OptionKeys \ {"SKIP"}) /\ (Is(ts, i + 1, Strings) \/ Is(ts, i + 1, words))
      \/ Is(ts, i, {"SKIP"}) /\ Is(ts, i + 1, {"number"})
  BY DEF OptionAt, Is, OptionKeys
<1> HIDE DEF words
<1>3. i + 1 \in Nat
  OBVIOUS
<1>4. CASE Is(ts, i, OptionKeys \ {"SKIP"}) /\ (Is(ts, i + 1, Strings) \/ Is(ts, i + 1, words))
  <2>1. i \in 1..Len(ts) /\ ts[i].k \in OptionKeys \ {"SKIP"}
    BY <1>1, <1>4, TokenAt
  <2>2. IsSequence(ts[i + 1].t)
    BY <1>1, <1>3, <1>4, TokenAt
  <2>3. ASSUME ts[i].k = "EOR" PROVE ts[i + 1].t \in Seq(Chars)
    <3>1. Is(ts, i, {"DELIMITER", "QUOTE", "ESCAPE", "EOR"})
      BY <2>1, <2>3 DEF Is, Kind
    <3>2. ~Is(ts, i, {"FORMAT"}) /\ ~Is(ts, i, {"SKIP"}) /\ ~Is(ts, i, {"RECORDTAG"})
      BY <3>1 DEF Is
    <3>3. Is(ts, i + 1, Strings)
      BY <3>1, <3>2 DEF OptionAt
    <3>4. QED
      BY <1>1, <1>3, <3>3, TokenAt
  <2>4. QED
    BY <2>1, <2>2, <2>3
<1>5. CASE Is(ts, i, {"SKIP"}) /\ Is(ts, i + 1, {"number"})
  <2>1. i \in 1..Len(ts) /\ ts[i].k \in {"SKIP"}
    <3>1. "end" \notin {"SKIP"}
      OBVIOUS
    <3>2. QED
      BY <1>5, <3>1, TokenAt
  <2>2. IsSequence(ts[i + 1].t) /\ ts[i + 1].k \in {"number"}
        /\ (ts[i + 1].k = "number" => ts[i + 1].t # <<>>)
    BY <1>1, <1>3, <1>5, TokenAt
  <2>3. QED
    BY <2>1, <2>2 DEF OptionKeys
<1>6. QED
  BY <1>2, <1>4, <1>5

LEMMA OptionsCounted ==
  ASSUME NEW ts, Tokens(ts)
  PROVE  /\ OptionCount(ts) \in Nat
         /\ \A k \in 1..OptionCount(ts) : KeyAt(ts, k) \in Nat /\ OptionAt(ts, KeyAt(ts, k))
<1> DEFINE S == {m \in 0..Len(ts) : \A k \in 1..m : OptionAt(ts, KeyAt(ts, k))}
<1>1. Len(ts) \in Nat
  BY DEF Tokens, IsSequence
<1>2. 0 \in S /\ S \subseteq 0..Len(ts)
  BY <1>1
<1>3. OptionCount(ts) = Max(S)
  BY DEF OptionCount
<1>4. Max(S) \in S
  <2> HIDE DEF S
  <2>1. S # {}
    BY <1>2
  <2>2. QED
    BY <1>1, <1>2, <2>1, MaximumOf
<1>5. OptionCount(ts) \in Nat /\ \A k \in 1..OptionCount(ts) : OptionAt(ts, KeyAt(ts, k))
  BY <1>1, <1>3, <1>4
<1>6. \A k \in 1..OptionCount(ts) : KeyAt(ts, k) \in Nat
  BY <1>5, FileIsSomewhere DEF KeyAt
<1>7. QED
  BY <1>5, <1>6

Texts == {"delim", "quote", "escape", "eor", "tag"}
LoadFields == Texts \union {"skip", "format", "cut"}
IsLoad(load) == DOMAIN load = LoadFields /\ load.cut \in BOOLEAN

(* The end of record that a LOAD, RELOAD or UNLOAD asks for is a text.     *)
HasEor(load) == DOMAIN load = LoadFields /\ load.eor \in Seq(Chars)

LEMMA EorKept ==
  ASSUME NEW load, HasEor(load), NEW field \in Texts, NEW text,
         field = "eor" => text \in Seq(Chars)
  PROVE  HasEor(Kept(load, field, text))
<1> DEFINE room == Sizes[field]
           part == SubSeq(text, 1, Min({Len(text), room - 1}))
           over == load.cut \/ Len(text) + 1 > room
           first == [load EXCEPT ![field] = part]
<1>1. field # "cut" /\ field \in LoadFields /\ "cut" \in LoadFields /\ DOMAIN load = LoadFields
  BY DEF Texts, LoadFields, HasEor
<1>2. Kept(load, field, text) = [first EXCEPT !.cut = over]
  BY <1>1 DEF Kept
<1>3. /\ DOMAIN first = LoadFields /\ first[field] = part
      /\ \A f \in LoadFields \ {field} : first[f] = load[f]
  BY <1>1
<1>4. field = "eor" => part \in Seq(Chars)
  <2>1. field = "eor" => room = 8 /\ Len(text) \in Nat /\ text \in Seq(Chars)
    BY DEF Sizes
  <2>2. field = "eor" => Min({Len(text), room - 1}) \in 0..Len(text)
    BY <2>1 DEF Min
  <2> HIDE DEF room
  <2>3. QED
    BY <2>1, <2>2, PrefixOf
<1> HIDE DEF first, over, part
<1>5. "eor" \in LoadFields /\ "eor" # "cut"
  BY DEF LoadFields, Texts
<1>6. DOMAIN Kept(load, field, text) = LoadFields
      /\ Kept(load, field, text).eor = first.eor
  BY <1>1, <1>2, <1>3, <1>5
<1>7. first.eor \in Seq(Chars)
  BY <1>3, <1>4, <1>5 DEF HasEor
<1>. QED BY <1>6, <1>7 DEF HasEor

LEMMA EorTaken ==
  ASSUME NEW load, HasEor(load), NEW key \in OptionKeys, NEW value,
         key = "EOR" => value.t \in Seq(Chars)
  PROVE  HasEor(OptionTaken(load, key, value))
<1>1. ASSUME NEW field \in Texts, field = "eor" => value.t \in Seq(Chars),
             OptionTaken(load, key, value) = Kept(load, field, value.t)
      PROVE  HasEor(OptionTaken(load, key, value))
  BY <1>1, EorKept
<1>2. CASE key \in {"DELIMITER", "QUOTE", "ESCAPE", "EOR", "RECORDTAG"}
  <2>1. /\ key = "DELIMITER" => OptionTaken(load, key, value) = Kept(load, "delim", value.t)
        /\ key = "QUOTE" => OptionTaken(load, key, value) = Kept(load, "quote", value.t)
        /\ key = "ESCAPE" => OptionTaken(load, key, value) = Kept(load, "escape", value.t)
        /\ key = "EOR" => OptionTaken(load, key, value) = Kept(load, "eor", value.t)
        /\ key = "RECORDTAG" => OptionTaken(load, key, value) = Kept(load, "tag", value.t)
    BY DEF OptionTaken
  <2>2. /\ "delim" \in Texts /\ "quote" \in Texts /\ "escape" \in Texts
        /\ "eor" \in Texts /\ "tag" \in Texts
    BY DEF Texts
  <2>3. QED
    BY <1>1, <1>2, <2>1, <2>2
<1>3. ASSUME NEW field \in {"format", "skip"}, NEW v
      PROVE  HasEor([load EXCEPT ![field] = v])
  BY DEF HasEor, LoadFields, Texts
<1>4. CASE key = "FORMAT"
  <2> DEFINE word == IF value.k \in Strings THEN value.w ELSE FormatWords[value.k]
  <2>1. OptionTaken(load, key, value) = [load EXCEPT !["format"] = word]
    BY <1>4 DEF OptionTaken
  <2> HIDE DEF word
  <2>2. QED
    BY <1>3, <2>1
<1>5. CASE key = "SKIP"
  <2>1. OptionTaken(load, key, value) = [load EXCEPT !["skip"] = value.t]
    BY <1>5 DEF OptionTaken
  <2>2. QED
    BY <1>3, <2>1
<1>. QED BY <1>2, <1>4, <1>5 DEF OptionKeys

LEMMA EorAsked ==
  ASSUME NEW ts, Tokens(ts)
  PROVE  LoadInfo(ts).eor \in Seq(Chars)
<1> DEFINE n == OptionCount(ts)
           keys == [k \in 1..n |-> KeyAt(ts, k)]
<1>1. n \in Nat
  BY OptionsCounted
<1>2. PICK L : Folded(L, "load", ts, NoOptions, keys, n) /\ LoadInfo(ts) = L[n]
  BY <1>1, LoadFold
<1> DEFINE S == {i \in 0..n : HasEor(L[i])}
<1>3. 0 \in S
  <2>1. L[0] = NoOptions
    BY <1>2 DEF Folded
  <2>2. HasEor(NoOptions)
    BY DEF HasEor, NoOptions, LoadFields, Texts
  <2>3. QED
    BY <1>1, <2>1, <2>2
<1>4. ASSUME NEW i \in 1..n, i - 1 \in S PROVE i \in S
  <2> DEFINE e == KeyAt(ts, i)
  <2>1. /\ e \in Nat /\ ts[e].k \in OptionKeys
        /\ ts[e].k = "EOR" => ts[e + 1].t \in Seq(Chars)
    BY OptionsCounted, OptionIs
  <2>2. L[i] = OptionTaken(L[i - 1], ts[e].k, ts[e + 1])
    <3>1. L[i] = Step("load", ts, L[i - 1], keys[i]) /\ keys[i] = e
      BY <1>2 DEF Folded
    <3> HIDE DEF e
    <3>2. QED
      BY <3>1 DEF Step
  <2>3. HasEor(L[i - 1])
    BY <1>4
  <2> HIDE DEF e
  <2>4. HasEor(L[i])
    BY <2>1, <2>2, <2>3, EorTaken
  <2>5. i \in 0..n
    BY <1>1
  <2>6. QED
    BY <2>4, <2>5
<1>5. n \in S
  <2>1. \A i \in 1..n : i - 1 \in S => i \in S
    BY <1>4
  <2>2. n \in 0..n
    BY <1>1
  <2> HIDE DEF S, n
  <2>3. QED
    BY <1>1, <1>3, <2>1, <2>2, Climbs
<1>6. HasEor(L[n])
  BY <1>5
<1>. QED BY <1>2, <1>6 DEF HasEor

-----------------------------------------------------------------------------
(* Sequences of contexts.                                                  *)
Sequenced(s) == \E S : s \in Seq(S)

LEMMA Appended ==
  ASSUME NEW s, Sequenced(s), NEW c
  PROVE  /\ Sequenced(Append(s, c))
         /\ Len(Append(s, c)) = Len(s) + 1
         /\ Append(s, c)[Len(s) + 1] = c
         /\ \A i \in 1..Len(s) : Append(s, c)[i] = s[i]
<1>1. PICK S : s \in Seq(S)
  BY DEF Sequenced
<1>2. s \in Seq(S \union {c}) /\ c \in S \union {c}
  BY <1>1
<1>3. Append(s, c) \in Seq(S \union {c})
  BY <1>2
<1>4. QED
  BY <1>2, <1>3 DEF Sequenced

LEMMA Fronted ==
  ASSUME NEW s, Sequenced(s), Len(s) > 0
  PROVE  /\ Sequenced(Front(s))
         /\ Len(Front(s)) = Len(s) - 1
         /\ \A i \in 1..Len(s)-1 : Front(s)[i] = s[i]
<1>1. PICK S : s \in Seq(S)
  BY DEF Sequenced
<1> DEFINE n == Len(s) - 1
<1>2. n \in Nat /\ \A i \in 1..n : s[i] \in S
  BY <1>1
<1>3. Front(s) = SubSeq(s, 1, n)
  BY DEF Front
<1> HIDE DEF n
<1>4. /\ SubSeq(s, 1, n) \in Seq(S)
      /\ Len(SubSeq(s, 1, n)) = IF 1 <= n THEN n - 1 + 1 ELSE 0
      /\ \A i \in 1..n-1+1 : SubSeq(s, 1, n)[i] = s[1 + i - 1]
  BY <1>2, SubSeqProperties
<1>5. Len(SubSeq(s, 1, n)) = n
  BY <1>2, <1>4
<1>6. \A i \in 1..n : SubSeq(s, 1, n)[i] = s[i]
  <2>1. SUFFICES ASSUME NEW i \in 1..n PROVE SubSeq(s, 1, n)[i] = s[i]
    OBVIOUS
  <2>2. i \in 1..n-1+1 /\ 1 + i - 1 = i
    BY <1>2
  <2>3. QED
    BY <1>4, <2>2
<1>7. Sequenced(Front(s)) /\ Len(Front(s)) = n /\ \A i \in 1..n : Front(s)[i] = s[i]
  BY <1>3, <1>4, <1>5, <1>6 DEF Sequenced
<1>8. QED
  BY <1>7 DEF n

LEMMA Replaced ==
  ASSUME NEW s, Sequenced(s), Len(s) > 0, NEW c
  PROVE  LET t == [s EXCEPT ![Len(s)] = c]
         IN  /\ Sequenced(t)
             /\ Len(t) = Len(s)
             /\ t[Len(s)] = c
             /\ \A i \in 1..Len(s)-1 : t[i] = s[i]
<1>1. PICK S : s \in Seq(S)
  BY DEF Sequenced
<1>2. s \in Seq(S \union {c})
  BY <1>1
<1>3. [s EXCEPT ![Len(s)] = c] \in Seq(S \union {c})
  BY <1>2
<1>4. QED
  BY <1>2, <1>3 DEF Sequenced

LEMMA Single ==
  ASSUME NEW c
  PROVE  Sequenced(<<c>>) /\ Len(<<c>>) = 1 /\ <<c>>[1] = c
<1>1. <<c>> \in Seq({c})
  OBVIOUS
<1>2. QED
  BY <1>1 DEF Sequenced

LEMMA NoContext == Sequenced(<<>>) /\ Len(<<>>) = 0
<1>1. <<>> \in Seq({})
  OBVIOUS
<1>2. QED
  BY <1>1 DEF Sequenced

LEMMA Sized ==
  ASSUME NEW s, Sequenced(s)
  PROVE  Len(s) \in Nat /\ (s = <<>> <=> Len(s) = 0) /\ (Len(s) > 0 => Last(s) = s[Len(s)])
  BY DEF Sequenced, Last

-----------------------------------------------------------------------------
(* A stack of contexts and the files that are open: each file is closed by *)
(* one channel of one context, and neither another channel of it nor a     *)
(* context below has it.                                                   *)
Private(s, files) ==
  /\ Sequenced(s)
  /\ files \subseteq Files
  /\ \A i \in 1..Len(s) : IsContext(s[i])
  /\ \A i \in 1..Len(s), c \in Channels : s[i][c] \in Standard \union files
  /\ \A i \in 1..Len(s), c \in Channels : c \in s[i].closes => s[i][c] \in files
  /\ \A f \in files : \E i \in 1..Len(s), c \in Channels : c \in s[i].closes /\ s[i][c] = f
  /\ \A i \in 1..Len(s), c \in Channels : c \in s[i].closes =>
       \A j \in 1..i, d \in Channels : j # i \/ d # c => s[j][d] # s[i][c]

Separated(s) == \A i \in 1..Len(s) : Distinct(s[i])

LEMMA PrivateEmpty == Private(<<>>, {}) /\ Separated(<<>>)
<1>1. 1..Len(<<>>) = {}
  BY NoContext
<1>2. QED
  BY <1>1, NoContext DEF Private, Separated

(* A setting of the innermost context.                                     *)
LEMMA PrivateTop ==
  ASSUME NEW s, NEW files, Private(s, files), Len(s) > 0, NEW c, Keeps(s[Len(s)], c)
  PROVE  /\ Private([s EXCEPT ![Len(s)] = c], files)
         /\ Len([s EXCEPT ![Len(s)] = c]) = Len(s)
         /\ Separated(s) => Separated([s EXCEPT ![Len(s)] = c])
<1> DEFINE n == Len(s)
           t == [s EXCEPT ![n] = c]
<1>1. n \in Nat /\ n > 0 /\ n \in 1..n
  BY Sized DEF Private
<1>2. Sequenced(t) /\ Len(t) = n /\ t[n] = c /\ \A i \in 1..n-1 : t[i] = s[i]
  BY Replaced DEF Private
<1>3. /\ IsContext(c) /\ c.closes = s[n].closes /\ \A d \in Channels : c[d] = s[n][d]
      /\ Distinct(s[n]) => Distinct(c)
  BY <1>1 DEF Private, Keeps
<1> HIDE DEF t, n
<1>4. \A i \in 1..n : /\ IsContext(t[i])
                      /\ t[i].closes = s[i].closes
                      /\ \A d \in Channels : t[i][d] = s[i][d]
                      /\ Distinct(s[i]) => Distinct(t[i])
  <2>1. SUFFICES ASSUME NEW i \in 1..n
                 PROVE  /\ IsContext(t[i])
                        /\ t[i].closes = s[i].closes
                        /\ \A d \in Channels : t[i][d] = s[i][d]
                        /\ Distinct(s[i]) => Distinct(t[i])
    OBVIOUS
  <2>2. CASE i = n
    BY <2>2, <1>2, <1>3
  <2>3. CASE i \in 1..n-1
    BY <2>3, <1>2 DEF Private, n
  <2>4. QED
    BY <2>2, <2>3, <1>1
<1>5. Len(s) = n
  BY DEF n
<1>6. Private(t, files)
  BY <1>1, <1>2, <1>4, <1>5 DEF Private
<1>7. Separated(s) => Separated(t)
  BY <1>2, <1>4, <1>5 DEF Separated
<1>8. QED
  BY <1>2, <1>6, <1>7 DEF t, n

(* The innermost context ends.                                             *)
LEMMA PrivateEnd ==
  ASSUME NEW s, NEW files, Private(s, files), Len(s) > 0
  PROVE  /\ Private(Front(s), files \ AllOwned(s[Len(s)]))
         /\ Len(Front(s)) = Len(s) - 1
         /\ Separated(s) => Separated(Front(s))
<1> DEFINE n == Len(s)
           t == Front(s)
           left == files \ AllOwned(s[n])
<1>1. n \in Nat /\ n > 0 /\ n \in 1..n
  BY Sized DEF Private
<1>2. Sequenced(t) /\ Len(t) = n - 1 /\ \A i \in 1..n-1 : t[i] = s[i]
  BY Fronted DEF Private
<1>3. \A f : f \in left <=> f \in files /\ \A c \in Channels : c \in s[n].closes => s[n][c] # f
  BY DEF AllOwned, Owned
<1>4. Len(s) = n
  OBVIOUS
<1> HIDE DEF n, t, left
<1>5. left \subseteq Files
  BY <1>3 DEF Private
<1>6. \A i \in 1..Len(t) : i \in 1..n /\ i # n /\ t[i] = s[i]
  BY <1>1, <1>2
<1>7. \A i \in 1..Len(t) : IsContext(t[i])
  BY <1>4, <1>6 DEF Private
<1>8. \A i \in 1..Len(t), c \in Channels : t[i][c] \in Standard \union left
  <2>1. SUFFICES ASSUME NEW i \in 1..Len(t), NEW c \in Channels, s[i][c] \notin Standard
                 PROVE  s[i][c] \in left
    BY <1>6
  <2>2. s[i][c] \in files
    BY <1>4, <1>6, <2>1 DEF Private
  <2>3. \A d \in Channels : d \in s[n].closes => s[n][d] # s[i][c]
    BY <1>1, <1>4, <1>6 DEF Private
  <2>4. QED
    BY <1>3, <2>2, <2>3
<1>9. \A i \in 1..Len(t), c \in Channels : c \in t[i].closes => t[i][c] \in left
  <2>1. SUFFICES ASSUME NEW i \in 1..Len(t), NEW c \in Channels, c \in s[i].closes
                 PROVE  s[i][c] \in left
    BY <1>6
  <2>2. s[i][c] \in files
    BY <1>4, <1>6, <2>1 DEF Private
  <2>3. \A d \in Channels : d \in s[n].closes => s[n][d] # s[i][c]
    BY <1>1, <1>4, <1>6 DEF Private
  <2>4. QED
    BY <1>3, <2>2, <2>3
<1>10. \A f \in left : \E i \in 1..Len(t), c \in Channels : c \in t[i].closes /\ t[i][c] = f
  <2>1. SUFFICES ASSUME NEW f \in left
                 PROVE  \E i \in 1..Len(t), c \in Channels : c \in t[i].closes /\ t[i][c] = f
    OBVIOUS
  <2>2. PICK i \in 1..n, c \in Channels : c \in s[i].closes /\ s[i][c] = f
    BY <1>3, <1>4 DEF Private
  <2>3. i # n
    BY <1>3, <2>2
  <2>4. i \in 1..Len(t)
    BY <1>1, <1>2, <2>3
  <2>5. QED
    BY <1>6, <2>2, <2>4
<1>11. \A i \in 1..Len(t), c \in Channels : c \in t[i].closes =>
         \A j \in 1..i, d \in Channels : j # i \/ d # c => t[j][d] # t[i][c]
  <2>1. SUFFICES ASSUME NEW i \in 1..Len(t), NEW c \in Channels, c \in s[i].closes,
                        NEW j \in 1..i, NEW d \in Channels, j # i \/ d # c
                 PROVE  s[j][d] # s[i][c]
    BY <1>1, <1>2, <1>6
  <2>2. QED
    BY <1>4, <1>6, <2>1 DEF Private
<1>12. Private(t, left)
  BY <1>2, <1>5, <1>7, <1>8, <1>9, <1>10, <1>11 DEF Private
<1>13. Separated(s) => Separated(t)
  BY <1>4, <1>6 DEF Separated
<1>14. QED
  BY <1>2, <1>12, <1>13 DEF n, t, left

(* A channel of a context gets a stream.                                   *)
LEMMA ChannelSet ==
  ASSUME NEW c, IsContext(c), NEW channel \in Channels,
         NEW file, file \in Files \/ (file = Stdin /\ channel = "input")
  PROVE  LET new == Channelled(c, channel, file)
         IN  /\ IsContext(new)
             /\ new[channel] = file
             /\ \A d \in Channels \ {channel} : new[d] = c[d]
             /\ \A d \in Channels : d \in new.closes <=>
                                      IF d = channel THEN file \in Files ELSE d \in c.closes
             /\ Distinct(c) => Distinct(new)
<1> DEFINE new == Channelled(c, channel, file)
           closes == IF file \in Files THEN c.closes \union {channel} ELSE c.closes \ {channel}
<1>1. channel # "closes" /\ channel \in DOMAIN c /\ "closes" \in DOMAIN c
  BY DEF IsContext, Fields, Channels
<1>2. file \in Files => file \notin Standard
  BY ProgramAssumption
<1>3. file \notin Files => file \in StandardOf(channel)
  BY DEF StandardOf
<1>4. StandardOf(channel) \subseteq Standard
  BY DEF StandardOf, Standard
<1>5. new = [c EXCEPT ![channel] = file, !["closes"] = closes]
  BY <1>1, <1>2, <1>3, <1>4 DEF Channelled
<1>6. \A d \in Channels : d \in closes <=> IF d = channel THEN file \in Files ELSE d \in c.closes
  OBVIOUS
<1> HIDE DEF closes
<1>7. /\ IsContext(new) /\ new[channel] = file
      /\ \A d \in Channels \ {channel} : new[d] = c[d]
      /\ new.closes = closes
  BY <1>1, <1>5 DEF IsContext, Fields, Channels
<1>8. Distinct(c) => Distinct(new)
  BY <1>1, <1>5 DEF IsContext, Fields, Channels, Separators, Distinct
<1>9. QED
  BY <1>6, <1>7, <1>8

(* A context that closes nothing and knows no stream that the innermost    *)
(* one does not know opens a file, or takes standard input.                *)
LEMMA PrivatePush ==
  ASSUME NEW s, NEW files, Private(s, files), Len(s) > 0,
         NEW c, IsContext(c), c.closes = {}, \A d \in Channels : c[d] = s[Len(s)][d],
         NEW channel \in Channels,
         NEW file, file \in Files \ files \/ (file = Stdin /\ channel = "input")
  PROVE  LET t == Append(s, Channelled(c, channel, file))
         IN  /\ Private(t, (files \ Owned(c, channel)) \union ({file} \ Standard))
             /\ Len(t) = Len(s) + 1
             /\ Separated(s) /\ Distinct(c) => Separated(t)
<1> DEFINE n == Len(s)
           new == Channelled(c, channel, file)
           t == Append(s, new)
           now == (files \ Owned(c, channel)) \union ({file} \ Standard)
<1>1. n \in Nat /\ n > 0 /\ n \in 1..n
  BY Sized DEF Private
<1>2. Sequenced(t) /\ Len(t) = n + 1 /\ t[n + 1] = new /\ \A i \in 1..n : t[i] = s[i]
  BY Appended DEF Private
<1>3. Files \cap Standard = {} /\ Stdin \in Standard
  BY ProgramAssumption DEF Standard
<1>4. now = files \union ({file} \ Standard)
  BY DEF Owned
<1>5. /\ IsContext(new) /\ new[channel] = file
      /\ \A d \in Channels \ {channel} : new[d] = c[d]
      /\ \A d \in Channels : d \in new.closes <=> d = channel /\ file \in Files
      /\ Distinct(c) => Distinct(new)
  BY ChannelSet
<1>6. Len(s) = n
  OBVIOUS
<1>7. \A d \in Channels : c[d] = s[n][d]
  OBVIOUS
<1>8. \A d \in Channels : s[n][d] \in Standard \union files
  BY <1>1 DEF Private
<1> HIDE DEF n, t, new, now
<1>9. 1..Len(t) = (1..n) \union {n + 1}
  BY <1>1, <1>2
<1>10. now \subseteq Files /\ files \subseteq now
  BY <1>3, <1>4, <1>6 DEF Private
<1>11. \A i \in 1..Len(t) : IsContext(t[i])
  BY <1>2, <1>5, <1>6, <1>9 DEF Private
<1>12. \A i \in 1..Len(t), d \in Channels : t[i][d] \in Standard \union now
  <2>1. \A d \in Channels : new[d] \in Standard \union now
    BY <1>4, <1>5, <1>7, <1>8
  <2>2. \A i \in 1..n, d \in Channels : s[i][d] \in Standard \union now
    BY <1>6, <1>10 DEF Private
  <2>3. QED
    BY <1>2, <1>9, <2>1, <2>2
<1>13. \A i \in 1..Len(t), d \in Channels : d \in t[i].closes => t[i][d] \in now
  <2>1. \A d \in Channels : d \in new.closes => new[d] \in now
    BY <1>3, <1>4, <1>5
  <2>2. \A i \in 1..n, d \in Channels : d \in s[i].closes => s[i][d] \in now
    BY <1>6, <1>10 DEF Private
  <2>3. QED
    BY <1>2, <1>9, <2>1, <2>2
<1>14. \A f \in now : \E i \in 1..Len(t), d \in Channels : d \in t[i].closes /\ t[i][d] = f
  <2>1. SUFFICES ASSUME NEW f \in now
                 PROVE  \E i \in 1..Len(t), d \in Channels : d \in t[i].closes /\ t[i][d] = f
    OBVIOUS
  <2>2. CASE f \in files
    <3>1. PICK i \in 1..n, d \in Channels : d \in s[i].closes /\ s[i][d] = f
      BY <1>6, <2>2 DEF Private
    <3>2. QED
      BY <1>2, <1>9, <3>1
  <2>3. CASE f \notin files
    <3>1. f = file /\ file \in Files
      BY <1>3, <1>4, <2>3
    <3>2. channel \in t[n + 1].closes /\ t[n + 1][channel] = f /\ n + 1 \in 1..Len(t)
      BY <1>2, <1>5, <1>9, <3>1
    <3>3. QED
      BY <3>2
  <2>4. QED
    BY <2>2, <2>3
<1>15. \A i \in 1..Len(t), d \in Channels : d \in t[i].closes =>
         \A j \in 1..i, e \in Channels : j # i \/ e # d => t[j][e] # t[i][d]
  <2>1. ASSUME NEW i \in 1..n, NEW d \in Channels, d \in s[i].closes,
               NEW j \in 1..i, NEW e \in Channels, j # i \/ e # d
        PROVE  s[j][e] # s[i][d]
    BY <1>6, <2>1 DEF Private
  <2>2. ASSUME NEW d \in Channels, d \in new.closes,
               NEW j \in 1..n, NEW e \in Channels
        PROVE  s[j][e] # new[d]
    <3>1. new[d] = file /\ file \notin files /\ file \notin Standard
      BY <1>3, <1>5, <2>2
    <3>2. s[j][e] \in Standard \union files
      BY <1>6 DEF Private
    <3>3. QED
      BY <3>1, <3>2
  <2>3. ASSUME NEW d \in Channels, d \in new.closes, NEW e \in Channels, e # d
        PROVE  new[e] # new[d]
    <3>1. d = channel /\ new[d] = file /\ file \notin files /\ file \notin Standard
      BY <1>3, <1>5, <2>3
    <3>2. new[e] = s[n][e]
      BY <1>5, <1>7, <2>3, <3>1
    <3>3. QED
      BY <1>8, <3>1, <3>2
  <2>4. SUFFICES ASSUME NEW i \in 1..Len(t), NEW d \in Channels, d \in t[i].closes,
                        NEW j \in 1..i, NEW e \in Channels, j # i \/ e # d
                 PROVE  t[j][e] # t[i][d]
    OBVIOUS
  <2>5. CASE i \in 1..n
    BY <1>1, <1>2, <2>1, <2>4, <2>5
  <2>6. CASE i = n + 1 /\ j \in 1..n
    BY <1>2, <2>2, <2>4, <2>6
  <2>7. CASE i = n + 1 /\ j = n + 1
    BY <1>2, <2>3, <2>4, <2>7
  <2>8. QED
    BY <1>1, <1>9, <2>5, <2>6, <2>7
<1>16. Private(t, now)
  BY <1>2, <1>10, <1>11, <1>12, <1>13, <1>14, <1>15 DEF Private
<1>17. Separated(s) /\ Distinct(c) => Separated(t)
  BY <1>2, <1>5, <1>6, <1>9 DEF Separated
<1>18. QED
  BY <1>2, <1>16, <1>17 DEF n, new, t, now

(* A channel of the innermost context is replaced by a file; what it had   *)
(* is closed if the context opened it.                                     *)
LEMMA PrivateChannel ==
  ASSUME NEW s, NEW files, Private(s, files), Len(s) > 0,
         NEW channel \in Channels, NEW file \in Files \ files
  PROVE  LET c == s[Len(s)]
             t == Append(Front(s), Channelled(c, channel, file))
         IN  /\ Private(t, (files \ Owned(c, channel)) \union ({file} \ Standard))
             /\ Len(t) = Len(s)
             /\ Separated(s) => Separated(t)
<1> DEFINE n == Len(s)
           c == s[n]
           new == Channelled(c, channel, file)
           t == Append(Front(s), new)
           now == (files \ Owned(c, channel)) \union ({file} \ Standard)
<1>1. n \in Nat /\ n > 0 /\ n \in 1..n
  BY Sized DEF Private
<1>2. Sequenced(t) /\ Len(t) = n /\ t[n] = new /\ \A i \in 1..n-1 : t[i] = s[i]
  <2>1. Sequenced(Front(s)) /\ Len(Front(s)) = n - 1 /\ \A i \in 1..n-1 : Front(s)[i] = s[i]
    BY Fronted DEF Private
  <2>2. /\ Sequenced(t) /\ Len(t) = Len(Front(s)) + 1 /\ t[Len(Front(s)) + 1] = new
        /\ \A i \in 1..Len(Front(s)) : t[i] = Front(s)[i]
    BY <2>1, Appended
  <2>3. QED
    BY <1>1, <2>1, <2>2
<1>3. Files \cap Standard = {}
  BY ProgramAssumption
<1>4. \A f : f \in now <=> \/ f = file
                           \/ f \in files /\ (channel \in c.closes => f # c[channel])
  BY <1>3 DEF Owned
<1>5. /\ IsContext(new) /\ new[channel] = file
      /\ \A d \in Channels \ {channel} : new[d] = c[d]
      /\ \A d \in Channels : d \in new.closes <=> d = channel \/ d \in c.closes
      /\ Distinct(c) => Distinct(new)
  <2>1. IsContext(c)
    BY <1>1 DEF Private
  <2>2. QED
    BY <2>1, ChannelSet
<1>6. Len(s) = n /\ s[n] = c
  OBVIOUS
<1> HIDE DEF n, c, t, new, now
<1>7. 1..Len(t) = 1..n /\ \A i \in 1..n : i # n => t[i] = s[i]
  BY <1>1, <1>2
<1>8. /\ \A i \in 1..n, d \in Channels : s[i][d] \in Standard \union files
      /\ \A i \in 1..n, d \in Channels : d \in s[i].closes => s[i][d] \in files
      /\ \A f \in files : \E i \in 1..n, d \in Channels : d \in s[i].closes /\ s[i][d] = f
      /\ \A i \in 1..n, d \in Channels : d \in s[i].closes =>
           \A j \in 1..i, e \in Channels : j # i \/ e # d => s[j][e] # s[i][d]
  BY <1>6 DEF Private
<1>9. \A i \in 1..n, d \in Channels :
        (i # n \/ d # channel) /\ channel \in c.closes => s[i][d] # c[channel]
  BY <1>1, <1>6, <1>8
<1>10. now \subseteq Files
  BY <1>4, <1>6 DEF Private
<1>11. \A i \in 1..Len(t) : IsContext(t[i])
  BY <1>2, <1>5, <1>6, <1>7 DEF Private
<1>12. \A i \in 1..n, d \in Channels : (i # n \/ d # channel) => s[i][d] \in Standard \union now
  BY <1>4, <1>8, <1>9
<1>13. \A i \in 1..n, d \in Channels : (i # n \/ d # channel) => t[i][d] = s[i][d]
  BY <1>2, <1>5, <1>6, <1>7
<1>14. t[n][channel] = file /\ file \in now /\ file \notin files /\ file \notin Standard
  BY <1>2, <1>3, <1>4, <1>5
<1>15. \A i \in 1..n, d \in Channels :
         d \in t[i].closes <=> d \in s[i].closes \/ (i = n /\ d = channel)
  BY <1>2, <1>5, <1>6, <1>7
<1>16. \A i \in 1..Len(t), d \in Channels : t[i][d] \in Standard \union now
  BY <1>7, <1>12, <1>13, <1>14
<1>17. \A i \in 1..Len(t), d \in Channels : d \in t[i].closes => t[i][d] \in now
  <2>1. SUFFICES ASSUME NEW i \in 1..n, NEW d \in Channels, d \in t[i].closes
                 PROVE  t[i][d] \in now
    BY <1>7
  <2>2. CASE i = n /\ d = channel
    BY <1>14, <2>2
  <2>3. CASE i # n \/ d # channel
    <3>1. d \in s[i].closes /\ t[i][d] = s[i][d]
      BY <1>13, <1>15, <2>1, <2>3
    <3>2. s[i][d] \in files
      BY <1>8, <3>1
    <3>3. QED
      BY <1>4, <1>9, <2>3, <3>1, <3>2
  <2>4. QED
    BY <2>2, <2>3
<1>18. \A f \in now : \E i \in 1..Len(t), d \in Channels : d \in t[i].closes /\ t[i][d] = f
  <2>1. SUFFICES ASSUME NEW f \in now
                 PROVE  \E i \in 1..n, d \in Channels : d \in t[i].closes /\ t[i][d] = f
    BY <1>7
  <2>2. CASE f = file
    BY <1>1, <1>14, <1>15, <2>2
  <2>3. CASE f # file
    <3>1. f \in files /\ (channel \in c.closes => f # c[channel])
      BY <1>4, <2>1, <2>3
    <3>2. PICK i \in 1..n, d \in Channels : d \in s[i].closes /\ s[i][d] = f
      BY <1>8, <3>1
    <3>3. i # n \/ d # channel
      BY <1>6, <3>1, <3>2
    <3>4. QED
      BY <1>13, <1>15, <3>2, <3>3
  <2>4. QED
    BY <2>2, <2>3
<1>19. \A i \in 1..Len(t), d \in Channels : d \in t[i].closes =>
         \A j \in 1..i, e \in Channels : j # i \/ e # d => t[j][e] # t[i][d]
  <2>1. SUFFICES ASSUME NEW i \in 1..n, NEW d \in Channels, d \in t[i].closes,
                        NEW j \in 1..i, NEW e \in Channels, j # i \/ e # d
                 PROVE  t[j][e] # t[i][d]
    BY <1>7
  <2>2. j \in 1..n
    BY <1>1
  <2>3. CASE i = n /\ d = channel
    <3>1. j # n \/ e # channel
      BY <2>1, <2>3
    <3>2. t[j][e] = s[j][e] /\ s[j][e] \in Standard \union files
      BY <1>8, <1>13, <2>2, <3>1
    <3>3. QED
      BY <1>14, <2>3, <3>2
  <2>4. CASE i # n \/ d # channel
    <3>1. d \in s[i].closes /\ t[i][d] = s[i][d] /\ s[i][d] \in files
      BY <1>8, <1>13, <1>15, <2>1, <2>4
    <3>2. CASE j = n /\ e = channel
      BY <1>14, <3>1, <3>2
    <3>3. CASE j # n \/ e # channel
      BY <1>8, <1>13, <2>1, <2>2, <3>1, <3>3
    <3>4. QED
      BY <3>2, <3>3
  <2>5. QED
    BY <2>3, <2>4
<1>20. Private(t, now)
  BY <1>2, <1>10, <1>11, <1>16, <1>17, <1>18, <1>19 DEF Private
<1>21. Separated(s) => Separated(t)
  BY <1>1, <1>2, <1>5, <1>6, <1>7 DEF Separated
<1>22. QED
  BY <1>2, <1>20, <1>21 DEF n, c, new, t, now

(* The program is back in its base context.                                *)
LEMMA PrivateBase ==
  ASSUME NEW s, NEW files, Private(s, files), Len(s) > 0
  PROVE  /\ Private(<<s[1]>>, files \ UNION {AllOwned(s[i]) : i \in 2..Len(s)})
         /\ Len(<<s[1]>>) = 1
         /\ Separated(s) => Separated(<<s[1]>>)
<1> DEFINE n == Len(s)
           t == <<s[1]>>
           left == files \ UNION {AllOwned(s[i]) : i \in 2..n}
<1>1. n \in Nat /\ n > 0 /\ 1 \in 1..n
  BY Sized DEF Private
<1>2. Sequenced(t) /\ Len(t) = 1 /\ t[1] = s[1]
  BY Single
<1>3. \A f : f \in left <=>
        f \in files /\ \A i \in 2..n, c \in Channels : c \in s[i].closes => s[i][c] # f
  BY DEF AllOwned, Owned
<1>4. Len(s) = n
  OBVIOUS
<1> HIDE DEF n, t, left
<1>5. \A i \in 1..Len(t) : i = 1 /\ t[i] = s[1]
  BY <1>2
<1>6. \A c \in Channels : s[1][c] \in files => s[1][c] \in left
  <2>1. SUFFICES ASSUME NEW c \in Channels, s[1][c] \in files PROVE s[1][c] \in left
    OBVIOUS
  <2>2. ASSUME NEW i \in 2..n, NEW d \in Channels, d \in s[i].closes PROVE s[i][d] # s[1][c]
    <3>1. i \in 1..n /\ 1 \in 1..i /\ 1 # i
      BY <1>1
    <3>2. QED
      BY <1>4, <2>2, <3>1 DEF Private
  <2>3. QED
    BY <1>3, <2>1, <2>2
<1>7. \A f \in left : \E c \in Channels : c \in s[1].closes /\ s[1][c] = f
  <2>1. SUFFICES ASSUME NEW f \in left PROVE \E c \in Channels : c \in s[1].closes /\ s[1][c] = f
    OBVIOUS
  <2>2. PICK i \in 1..n, c \in Channels : c \in s[i].closes /\ s[i][c] = f
    BY <1>3, <1>4 DEF Private
  <2>3. i \notin 2..n
    BY <1>3, <2>2
  <2>4. i = 1
    BY <1>1, <2>3
  <2>5. QED
    BY <2>2, <2>4
<1>8. left \subseteq files /\ files \subseteq Files
  BY <1>3 DEF Private
<1>9. /\ IsContext(s[1])
      /\ \A c \in Channels : s[1][c] \in Standard \union files
      /\ \A c \in Channels : c \in s[1].closes => s[1][c] \in files
      /\ \A c \in Channels : c \in s[1].closes =>
           \A d \in Channels : d # c => s[1][d] # s[1][c]
  BY <1>1, <1>4 DEF Private
<1>10. \A i \in 1..Len(t) : \A j \in 1..i : j = 1
  BY <1>5
<1>11. 1 \in 1..Len(t)
  BY <1>2
<1>12. Private(t, left)
  BY <1>2, <1>5, <1>6, <1>7, <1>8, <1>9, <1>10, <1>11 DEF Private
<1>13. Separated(s) => Separated(t)
  BY <1>1, <1>4, <1>5 DEF Separated
<1>14. QED
  BY <1>2, <1>12, <1>13 DEF n, t, left

-----------------------------------------------------------------------------
(* The invariant: the files are private to the contexts; as long as the    *)
(* program runs there is a context, and another one for the statement that *)
(* is at work; and what is still to be executed is well-formed.            *)
AllWellFormed(s) == \E S : s \in Seq(S) /\ \A x \in S : WellFormed(x)
OptionsWellFormed(s) == \E S : s \in Seq(S) /\ \A x \in S : WellFormed(x.c)

Running ==
  IF stage = "exited" THEN contexts = <<>> /\ given = <<>> /\ statement = <<>>
  ELSE Len(contexts) > 0

SInv ==
  /\ Private(contexts, open)
  /\ Running
  /\ statement # <<>> => Len(contexts) > 1
  /\ given # <<>> => WellFormed(given[1])
  /\ OptionsWellFormed(options)
  /\ AllWellFormed(arguments)

AllDistinct == Separated(contexts)

Stacks(n) ==
  /\ Private(contexts', open')
  /\ Len(contexts') = n
  /\ AllDistinct => AllDistinct'

LEMMA DepthNat ==
  ASSUME SInv
  PROVE  /\ Depth \in Nat
         /\ stage # "exited" => Depth > 0
         /\ Depth > 0 => Top = contexts[Depth] /\ Depth \in 1..Depth
  BY Sized DEF SInv, Running, Private, Depth, Top

LEMMA StacksSame ==
  ASSUME SInv, UNCHANGED <<contexts, open>>
  PROVE  Stacks(Depth)
  BY DEF SInv, Stacks, AllDistinct, Depth

LEMMA StacksTop ==
  ASSUME SInv, Depth > 0, NEW c, Keeps(Top, c), contexts' = WithTop(c), UNCHANGED open
  PROVE  Stacks(Depth)
<1>1. Private(contexts, open) /\ Len(contexts) > 0 /\ Keeps(contexts[Len(contexts)], c)
  BY DepthNat DEF SInv, Depth
<1> DEFINE t == [contexts EXCEPT ![Len(contexts)] = c]
<1>2. /\ Private(t, open) /\ Len(t) = Len(contexts)
      /\ Separated(contexts) => Separated(t)
  BY <1>1, PrivateTop
<1>3. contexts' = t /\ open' = open
  BY DEF WithTop, Depth
<1> HIDE DEF t
<1>4. QED
  BY <1>2, <1>3 DEF Stacks, AllDistinct, Depth

LEMMA NextFileIsNew ==
  ASSUME SInv, CanOpen
  PROVE  NextFile \in Files \ open
<1>1. \E f \in Files \ open : TRUE
  BY DEF SInv, Private, CanOpen
<1>2. QED
  BY <1>1 DEF NextFile

(* A copy of the innermost context.                                        *)
Copies(c) ==
  /\ IsContext(c) /\ c.closes = {}
  /\ \A channel \in Channels : c[channel] = Top[channel]
  /\ Distinct(Top) => Distinct(c)

LEMMA NewContextCopies ==
  ASSUME SInv, Depth > 0
  PROVE  Copies(NewContext(Top))
<1>1. IsContext(Top)
  BY DepthNat DEF SInv, Private, Depth
<1> DEFINE modes == [m \in Modes |-> <<Last(Top.modes[m])>>]
<1>2. NewContext(Top) = [Top EXCEPT !["closes"] = {}, !["load"] = FALSE, !["modes"] = modes]
  BY DEF NewContext
<1> HIDE DEF modes
<1>3. QED
  BY <1>1, <1>2 DEF Copies, IsContext, Fields, Separators, Channels, Distinct

LEMMA CopyKept ==
  ASSUME NEW c, NEW d, Copies(c), Keeps(c, d)
  PROVE  Copies(d)
  BY DEF Copies, Keeps

LEMMA StacksPush ==
  ASSUME SInv, Depth > 0, NEW c, Copies(c), NEW channel \in Channels,
         NEW file, file \in Files \ open \/ (file = Stdin /\ channel = "input"),
         Opens(contexts, c, channel, file)
  PROVE  Stacks(Depth + 1)
<1>1. /\ Private(contexts, open) /\ Len(contexts) > 0
      /\ IsContext(c) /\ c.closes = {} /\ \A d \in Channels : c[d] = contexts[Len(contexts)][d]
      /\ Separated(contexts) => Distinct(c)
  BY DepthNat DEF SInv, Depth, Copies, Separated
<1>2. QED
  BY <1>1, PrivatePush DEF Stacks, AllDistinct, Opens, Depth

LEMMA StacksChannel ==
  ASSUME SInv, Depth > 0, NEW channel \in Channels, CanOpen,
         Opens(Front(contexts), Top, channel, NextFile)
  PROVE  Stacks(Depth)
<1>1. Private(contexts, open) /\ Len(contexts) > 0 /\ Top = contexts[Len(contexts)]
  BY DepthNat DEF SInv, Depth
<1>2. NextFile \in Files \ open
  BY NextFileIsNew
<1> DEFINE file == NextFile
           c == contexts[Len(contexts)]
           t == Append(Front(contexts), Channelled(c, channel, file))
           now == (open \ Owned(c, channel)) \union ({file} \ Standard)
<1>3. file \in Files \ open
  BY <1>2
<1> HIDE DEF file
<1>4. Private(t, now) /\ Len(t) = Len(contexts) /\ (Separated(contexts) => Separated(t))
  BY <1>1, <1>3, PrivateChannel
<1>5. contexts' = t /\ open' = now
  BY <1>1 DEF Opens, file
<1> HIDE DEF t, now
<1>6. QED
  BY <1>4, <1>5 DEF Stacks, AllDistinct, Depth

LEMMA StacksEnd ==
  ASSUME SInv, Depth > 0, EndContext
  PROVE  Stacks(Depth - 1)
<1>1. Private(contexts, open) /\ Len(contexts) > 0 /\ Top = contexts[Len(contexts)]
  BY DepthNat DEF SInv, Depth
<1>2. QED
  BY <1>1, PrivateEnd DEF Stacks, AllDistinct, EndContext, Depth

-----------------------------------------------------------------------------
(* Every step preserves the invariant, and leaves separators that are      *)
(* distinct distinct.                                                      *)
Preserved == SInv' /\ (AllDistinct => AllDistinct')

LEMMA Ends ==
  ASSUME SInv, Leaves
  PROVE  Preserved
<1>1. Private(contexts', open') /\ Separated(contexts')
  BY PrivateEmpty DEF Leaves
<1>2. QED
  BY <1>1 DEF Leaves, SInv, Running, Preserved, AllDistinct

LEMMA Exits == ASSUME SInv, Exit PROVE Preserved
  BY Ends DEF Exit

LEMMA GoesOn ==
  ASSUME SInv, stage' # "exited", NEW n \in Nat, n > 0, Stacks(n),
         statement' # <<>> => n > 1,
         given' # <<>> => WellFormed(given'[1]),
         OptionsWellFormed(options'), AllWellFormed(arguments')
  PROVE  Preserved
  BY DEF SInv, Running, Preserved, Stacks

LEMMA TakesOption ==
  ASSUME SInv, options # <<>>
  PROVE  WellFormed(Stands) /\ OptionsWellFormed(Tail(options))
<1>1. OptionsWellFormed(options)
  BY DEF SInv
<1>2. PICK S : options \in Seq(S) /\ \A x \in S : WellFormed(x.c)
  BY <1>1, Zenon DEF OptionsWellFormed
<1>3. Head(options) \in S /\ Tail(options) \in Seq(S)
  BY <1>2
<1>4. WellFormed(Head(options).c)
  BY <1>2, <1>3, Zenon
<1>5. OptionsWellFormed(Tail(options))
  BY <1>2, <1>3, Zenon DEF OptionsWellFormed
<1>6. QED
  BY <1>4, <1>5 DEF Stands

LEMMA TakesArgument ==
  ASSUME SInv, arguments # <<>>
  PROVE  WellFormed(Head(arguments)) /\ AllWellFormed(Tail(arguments))
<1>1. PICK S : arguments \in Seq(S) /\ \A x \in S : WellFormed(x)
  BY DEF SInv, AllWellFormed
<1>2. Head(arguments) \in S /\ Tail(arguments) \in Seq(S)
  BY <1>1
<1>3. QED
  BY <1>1, <1>2 DEF AllWellFormed

LEMMA NoneWellFormed == AllWellFormed(<<>>)
<1>1. PICK S : S = {}
  OBVIOUS
<1>2. <<>> \in Seq(S) /\ \A x \in S : WellFormed(x)
  BY <1>1
<1>3. QED
  BY <1>2, Zenon DEF AllWellFormed

(* A file of commands is opened, or passed over.                           *)
LEMMA ReadsFileStacks ==
  ASSUME SInv, Depth > 0, ReadsFile
  PROVE  Stacks(Depth + 1) \/ Stacks(Depth)
<1>1. CASE UNCHANGED <<contexts, open>>
  BY <1>1, StacksSame
<1>2. CASE CanOpen /\ Opens(contexts, [NewContext(Top) EXCEPT !.modes["history"] = <<"off">>],
                            "input", NextFile)
  <2> DEFINE new == NewContext(Top)
             modes == [new.modes EXCEPT !["history"] = <<"off">>]
             c == [new EXCEPT !["modes"] = modes]
  <2>1. Opens(contexts, c, "input", NextFile)
    BY <1>2
  <2>2. "modes" \notin Fields /\ "input" \in Channels
    BY DEF Fields, Separators, Channels
  <2>3. Copies(new)
    BY NewContextCopies
  <2> HIDE DEF new, modes
  <2>4. Keeps(new, c)
    BY <2>2, OtherKept
  <2>5. Copies(c)
    BY <2>3, <2>4, CopyKept
  <2> HIDE DEF c
  <2>6. NextFile \in Files \ open
    BY <1>2, NextFileIsNew
  <2>7. QED
    BY <2>1, <2>2, <2>5, <2>6, StacksPush
<1>3. QED
  BY <1>1, <1>2 DEF ReadsFile

(* The options.                                                            *)
LEMMA OptionStep ==
  ASSUME SInv, OptionRefused \/ OptionSetting \/ OptionFile \/ OptionNoted
               \/ OptionCommand \/ OptionRead
  PROVE  Preserved
<1>1. AtOption
  BY DEF OptionRefused, OptionSetting, OptionFile, OptionNoted, OptionCommand, OptionRead
<1>2. /\ stage = "options" /\ Depth = 1 /\ Depth \in Nat /\ given = <<>> /\ statement = <<>>
      /\ options # <<>>
  BY <1>1 DEF AtOption, Idle
<1>3. WellFormed(Stands) /\ OptionsWellFormed(Tail(options)) /\ AllWellFormed(arguments)
  <2>1. WellFormed(Stands) /\ OptionsWellFormed(Tail(options))
    BY <1>2, TakesOption
  <2>2. AllWellFormed(arguments)
    BY DEF SInv
  <2>3. QED
    BY <2>1, <2>2
<1>4. CASE Exit
  BY <1>4, Exits
<1>5. CASE OptionSetting /\ ~Exit
  <2>1. PICK outcome \in {OptionSet(Top, Stands)} :
          /\ contexts' = WithTop(outcome.result) /\ said' = outcome.said
          /\ Taken
          /\ UNCHANGED <<open, arguments, program, stage, given, statement, asked, read>>
    BY <1>5 DEF OptionSetting
  <2>2. Keeps(Top, outcome.result)
    BY <1>3, <1>5, OptionSetKeeps DEF OptionSetting
  <2>3. Stacks(1)
    BY <1>2, <2>1, <2>2, StacksTop
  <2>4. QED
    BY <1>2, <1>3, <2>1, <2>3, GoesOn DEF Taken
<1>6. CASE OptionFile /\ ~Exit
  <2>1. \E channel \in {"input", "output"} : CanOpen /\ Opens(<<>>, Top, channel, NextFile)
    BY <1>6 DEF OptionFile
  <2>2. Front(contexts) = <<>>
    <3>1. Sequenced(Front(contexts)) /\ Len(Front(contexts)) = 0
      BY <1>2, Fronted DEF SInv, Private, Depth
    <3>2. QED
      BY <3>1, Sized
  <2>3. Stacks(1)
    BY <1>2, <2>1, <2>2, StacksChannel DEF Channels
  <2>4. Taken /\ UNCHANGED <<arguments, stage, given, statement>>
    BY <1>6 DEF OptionFile
  <2>5. QED
    BY <1>2, <1>3, <2>3, <2>4, GoesOn DEF Taken
<1>7. CASE OptionNoted /\ ~Exit
  <2>1. /\ contexts' = IF Letter = "y" THEN WithTop(Switched(Top, "history", "on")) ELSE contexts
        /\ Taken /\ UNCHANGED <<open, arguments, stage, given, statement>>
    BY <1>7 DEF OptionNoted
  <2>2. Stacks(1)
    BY <1>2, <2>1, SwitchedKeeps, StacksTop, StacksSame
  <2>3. QED
    BY <1>2, <1>3, <2>1, <2>2, GoesOn DEF Taken
<1>8. CASE OptionCommand
  <2>1. Taken /\ given' = <<Stands>> /\ UNCHANGED <<contexts, open, arguments, stage, statement>>
    BY <1>8 DEF OptionCommand
  <2>2. Stacks(1)
    BY <1>2, <2>1, StacksSame
  <2>3. QED
    BY <1>2, <1>3, <2>1, <2>2, GoesOn DEF Taken
<1>9. CASE OptionRead
  <2>1. Taken /\ ReadsFile /\ UNCHANGED <<arguments, stage, given, statement>>
    BY <1>9 DEF OptionRead
  <2>2. Stacks(2) \/ Stacks(1)
    BY <1>2, <2>1, ReadsFileStacks
  <2>3. QED
    BY <1>2, <1>3, <2>1, <2>2, GoesOn DEF Taken
<1>10. QED
  BY <1>4, <1>5, <1>6, <1>7, <1>8, <1>9 DEF OptionRefused

(* What follows the options.                                               *)
LEMMA BecomeStep ==
  ASSUME SInv, AtEnd, NEW next, next # "exited", NEW pflag, NEW c, Keeps(Top, c),
         NEW cmd, cmd # <<>> => WellFormed(cmd[1]), Become(next, pflag, c, cmd)
  PROVE  Preserved
<1>1. stage # "exited" /\ Depth = 1 /\ Depth \in Nat /\ statement = <<>>
  BY DepthNat DEF AtEnd, Idle
<1>2. /\ stage' = next /\ contexts' = WithTop(c) /\ given' = cmd
      /\ UNCHANGED <<open, options, arguments, statement>>
  BY DEF Become
<1>3. Stacks(1)
  BY <1>1, <1>2, StacksTop
<1>4. OptionsWellFormed(options) /\ AllWellFormed(arguments)
  BY DEF SInv
<1>5. QED
  BY <1>1, <1>2, <1>3, <1>4, GoesOn

LEMMA InteractiveStep ==
  ASSUME SInv, AtEnd, NEW c, Keeps(Top, c), Interactive(c)
  PROVE  Preserved
<1>1. Keeps(Top, OnTerminal(c))
  <2> DEFINE d == Switched(c, "nonstop", "on")
  <2>1. Keeps(Top, d)
    BY SwitchedKeeps, KeptTwice
  <2> HIDE DEF d
  <2>2. Keeps(Top, Switched(d, "history", "on"))
    BY <2>1, SwitchedKeeps, KeptTwice
  <2>3. OnTerminal(c) = IF program.history THEN Switched(d, "history", "on") ELSE d
    BY DEF OnTerminal, d
  <2>4. QED
    BY <2>1, <2>2, <2>3
<1>2. PICK d \in {c, OnTerminal(c)} : Become("interactive", program.pflag, d, <<>>)
  BY DEF Interactive
<1>3. Keeps(Top, d)
  BY <1>1
<1>4. QED
  BY <1>2, <1>3, BecomeStep

(* The statement that SQLUNLOAD and SQLRELOAD make of -t.                  *)
LEMMA TableTokens == WellFormed(Statement(TableStatement))
<1> DEFINE skip == InEffect("skip")
           S == {W("LOAD"), W("FROM"), DqStr(<<>>), W("SKIP"), Num(skip), W("INSERT"),
                 W("UNLOAD"), W("TO"), W("SELECT")}
<1>1. UnloadTable \in Seq(S)
  BY DEF UnloadTable
<1>2. /\ <<W("LOAD"), W("FROM"), DqStr(<<>>)>> \in Seq(S)
      /\ <<W("SKIP"), Num(skip)>> \in Seq(S)
      /\ <<>> \in Seq(S)
      /\ <<W("INSERT")>> \in Seq(S)
  OBVIOUS
<1>3. ReloadTable = <<W("LOAD"), W("FROM"), DqStr(<<>>)>>
                    \o (IF skip > 0 THEN <<W("SKIP"), Num(skip)>> ELSE <<>>) \o <<W("INSERT")>>
  BY DEF ReloadTable
<1>4. ASSUME NEW token \in S
      PROVE  /\ IsSequence(token.t) /\ (token.k = "number" => token.t # <<>>)
             /\ token.k \in Strings => token.t \in Seq(Chars)
  <2>1. IsSequence(<<>>) /\ IsSequence(<<skip>>) /\ <<skip>> # <<>>
    <3>1. <<>> \in Seq({skip}) /\ <<skip>> \in Seq({skip})
      OBVIOUS
    <3>2. QED
      BY <3>1, IsOfSequence
  <2>2. \/ token = Num(skip)
        \/ token = DqStr(<<>>)
        \/ \E k \in {"LOAD", "FROM", "SKIP", "INSERT", "UNLOAD", "TO", "SELECT"} : token = W(k)
    BY <1>4
  <2>3. \/ token.t = <<skip>> /\ token.k \notin Strings
        \/ token.t = <<>> /\ token.k # "number"
    <3>1. CASE token = Num(skip)
      BY <3>1 DEF Num, Token, Strings
    <3>2. CASE token = DqStr(<<>>)
      BY <3>2 DEF DqStr, Token
    <3>3. ASSUME NEW k \in {"LOAD", "FROM", "SKIP", "INSERT", "UNLOAD", "TO", "SELECT"},
                 token = W(k)
          PROVE  token.t = <<>> /\ token.k # "number"
      BY <3>3 DEF W, Token
    <3>4. QED
      BY <2>2, <3>1, <3>2, <3>3
  <2>4. <<>> \in Seq(Chars)
    OBVIOUS
  <2>5. QED
    BY <2>1, <2>3, <2>4
<1> HIDE DEF S, skip
<1>5. ReloadTable \in Seq(S)
  BY <1>2, <1>3
<1>6. TableStatement \in Seq(S)
  BY <1>1, <1>5 DEF TableStatement
<1>7. IsSequence(TableStatement) /\ Range(TableStatement) \subseteq S
  BY <1>6, IsOfSequence DEF Range
<1>8. Statement(TableStatement).do = "statement" /\ Statement(TableStatement).ts = TableStatement
  BY DEF Statement, Command
<1>9. QED
  BY <1>4, <1>7, <1>8 DEF WellFormed

LEMMA EndOfOptionsStep ==
  ASSUME SInv, EndOfOptions
  PROVE  Preserved
<1>1. AtEnd
  BY DEF EndOfOptions
<1>2. CASE Exit
  BY <1>2, Exits
<1>3. CASE StartDbaccess /\ ~Exit
  <2> DEFINE c == SetFormat(Top, "block").result
  <2>1. Keeps(Top, c)
    BY SetFormatKeeps
  <2>2. Become("script", program.pflag, c, <<>>) \/ Interactive(c)
    BY <1>3 DEF StartDbaccess
  <2> HIDE DEF c
  <2>3. QED
    BY <1>1, <2>1, <2>2, BecomeStep, InteractiveStep
<1>4. CASE StartTable /\ ~Exit
  <2> DEFINE cmd == <<Statement(TableStatement)>>
  <2>1. Become("table", program.pflag, Top, cmd)
    BY <1>4 DEF StartTable
  <2>2. WellFormed(cmd[1])
    BY TableTokens
  <2> HIDE DEF cmd
  <2>3. QED
    BY <1>1, <2>1, <2>2, KeptItself, BecomeStep
<1>5. CASE StartCommands /\ ~Exit
  <2>1. \/ \E next \in {"fifo", "arguments"}, pflag \in {"SQLFIFO", "SQLCMD"} :
             Become(next, pflag, Top, <<>>)
        \/ Interactive(Top)
    BY <1>5 DEF StartCommands
  <2>2. QED
    BY <1>1, <2>1, KeptItself, BecomeStep, InteractiveStep
<1>6. QED
  BY <1>2, <1>3, <1>4, <1>5 DEF EndOfOptions

LEMMA ArgumentStep ==
  ASSUME SInv, NextArgument \/ Script
  PROVE  Preserved
<1>1. /\ stage # "exited" /\ Depth = 1 /\ Depth \in Nat /\ statement = <<>> /\ given = <<>>
      /\ arguments # <<>>
  BY DEF NextArgument, Script, Idle
<1>2. OptionsWellFormed(options) /\ WellFormed(Head(arguments)) /\ AllWellFormed(Tail(arguments))
  <2>1. WellFormed(Head(arguments)) /\ AllWellFormed(Tail(arguments))
    BY <1>1, TakesArgument
  <2>2. OptionsWellFormed(options)
    BY DEF SInv
  <2>3. QED
    BY <2>1, <2>2
<1>3. /\ UNCHANGED <<options, stage, statement>>
      /\ arguments' \in {Tail(arguments), <<>>}
      /\ ReadsFile \/ UNCHANGED <<contexts, open>>
      /\ given' \in {given, <<Head(arguments)>>}
  BY DEF NextArgument, Script
<1>4. Stacks(1) \/ Stacks(2)
  BY <1>1, <1>3, ReadsFileStacks, StacksSame
<1>5. AllWellFormed(arguments')
  BY <1>2, <1>3, NoneWellFormed
<1>6. given' # <<>> => WellFormed(given'[1])
  BY <1>1, <1>2, <1>3
<1>7. QED
  BY <1>1, <1>2, <1>3, <1>4, <1>5, <1>6, GoesOn

LEMMA FifoStep ==
  ASSUME SInv, ReadFifo
  PROVE  Preserved
<1>1. stage # "exited" /\ Depth = 1 /\ Depth \in Nat /\ statement = <<>> /\ given = <<>>
  BY DEF ReadFifo, Idle
<1>2. CASE Exit
  BY <1>2, Exits
<1>3. CASE CanOpen /\ Opens(contexts, NewContext(Top), "input", NextFile)
           /\ UNCHANGED <<options, arguments, stage, given, statement>>
  <2>1. Stacks(2)
    BY <1>1, <1>3, NewContextCopies, NextFileIsNew, StacksPush DEF Channels
  <2>2. OptionsWellFormed(options) /\ AllWellFormed(arguments)
    BY DEF SInv
  <2>3. QED
    BY <1>1, <1>3, <2>1, <2>2, GoesOn
<1>4. QED
  BY <1>2, <1>3 DEF ReadFifo

(* A command that goes on in the context it finds or in a new one.         *)
LEMMA Carried ==
  ASSUME SInv, stage # "exited", NEW n \in Nat, n > 0, Stacks(n),
         NEW what, Carries(what), statement' # <<>> => n > 1
  PROVE  Preserved
<1>1. OptionsWellFormed(options) /\ AllWellFormed(arguments)
  BY DEF SInv
<1>2. given' = <<>> /\ UNCHANGED <<options, arguments, stage>>
  BY DEF Carries
<1>3. QED
  BY <1>1, <1>2, GoesOn

LEMMA CommandStarts ==
  ASSUME SInv, Ready, NEW cmd \in Candidates
  PROVE  /\ stage # "exited" /\ Depth \in Nat /\ Depth > 0
         /\ statement # <<>> => Depth > 1
         /\ WellFormed(cmd)
<1>1. stage # "exited"
  BY NoContext DEF SInv, Running, Ready, Reading, Depth
<1>2. Depth \in Nat /\ Depth > 0 /\ (statement # <<>> => Depth > 1)
  BY <1>1, DepthNat DEF SInv, Depth
<1>3. WellFormed(cmd)
  BY CommandsAssumption DEF SInv, Candidates
<1>4. QED
  BY <1>1, <1>2, <1>3

(* Commands that leave the stack as it is, set something in the innermost  *)
(* context, read a file or replace a channel.                              *)
LEMMA SettingStep ==
  ASSUME SInv, Ready, NEW cmd \in Candidates, DoSetting(cmd)
  PROVE  Preserved
<1>1. CASE Exit
  BY <1>1, Exits
<1>2. CASE ~Exit
  <2>1. PICK outcome \in {CommandSet(Top, cmd)} :
          /\ contexts' = WithTop(outcome.result)
          /\ Carries(outcome.said) /\ UNCHANGED <<open, statement>>
    BY <1>2 DEF DoSetting
  <2>2. Keeps(Top, outcome.result)
    BY CommandStarts, CommandSetKeeps DEF DoSetting
  <2>3. Stacks(Depth)
    BY <2>1, <2>2, CommandStarts, StacksTop
  <2>4. QED
    BY <2>1, <2>3, CommandStarts, Carried
<1>3. QED
  BY <1>1, <1>2

LEMMA PassesStep ==
  ASSUME SInv, Ready, NEW cmd \in Candidates, Passes \/ Fails, UNCHANGED statement
  PROVE  Preserved
<1>1. CASE Leaves
  BY <1>1, Ends
<1>2. CASE ~Leaves
  <2>1. Carries({}) /\ UNCHANGED <<contexts, open>>
    BY <1>2 DEF Passes, Fails
  <2>2. QED
    BY <2>1, StacksSame, CommandStarts, Carried
<1>3. QED
  BY <1>1, <1>2

LEMMA ChannelStep ==
  ASSUME SInv, Ready, NEW cmd \in Candidates, DoInput(cmd) \/ DoChannel(cmd)
  PROVE  Preserved
<1>1. /\ stage # "exited" /\ Depth \in Nat /\ Depth > 0
      /\ statement # <<>> => Depth > 1
  BY CommandStarts
<1>2. Carries({}) /\ UNCHANGED statement
  BY DEF DoInput, DoChannel
<1>3. CASE DoInput(cmd)
  <2>1. Stacks(Depth + 1) \/ Stacks(Depth)
    BY <1>1, <1>3, ReadsFileStacks DEF DoInput
  <2>2. CASE Stacks(Depth + 1)
    <3> DEFINE n == Depth + 1
    <3>1. n \in Nat /\ n > 0 /\ (statement' # <<>> => n > 1) /\ Stacks(n)
      BY <1>1, <1>2, <2>2
    <3> HIDE DEF n
    <3>2. QED
      BY <1>1, <1>2, <3>1, Carried
  <2>3. CASE Stacks(Depth)
    BY <1>1, <1>2, <2>3, Carried
  <2>4. QED
    BY <2>1, <2>2, <2>3
<1>4. CASE DoChannel(cmd)
  <2>1. cmd.do \in Channels
    BY <1>4 DEF DoChannel, Channels
  <2>2. Stacks(Depth)
    BY <1>1, <1>4, <2>1, StacksChannel, StacksSame DEF DoChannel
  <2>3. QED
    BY <1>1, <1>2, <2>2, Carried
<1>5. QED
  BY <1>3, <1>4

(* LOAD and RELOAD, and UNLOAD, in a context of their own.                 *)
LEMMA LoadsStep ==
  ASSUME SInv, Ready, NEW cmd \in Candidates, NEW ts, Tokens(ts), LoadsFrom(ts)
  PROVE  Preserved
<1>1. /\ stage # "exited" /\ Depth \in Nat /\ Depth > 0
  BY CommandStarts
<1>2. CASE Exit
  BY <1>2, Exits
<1>3. CASE ~Exit
  <2> DEFINE new == NewContext(Top)
             loads == [new EXCEPT !["load"] = TRUE]
  <2>1. PICK load \in {LoadInfo(ts)} : \E outcome \in {Applied(loads, load)} :
          /\ \E file \in LoadInputs(ts) : Opens(contexts, outcome.result, "input", file)
          /\ Carries(outcome.said \union Remark(ts))
    BY <1>3 DEF LoadsFrom
  <2>2. PICK outcome \in {Applied(loads, load)} :
          /\ \E file \in LoadInputs(ts) : Opens(contexts, outcome.result, "input", file)
          /\ Carries(outcome.said \union Remark(ts))
    BY <2>1
  <2>3. Copies(new)
    BY <1>1, NewContextCopies
  <2> HIDE DEF new
  <2>4. Copies(loads)
    <3>1. "load" \notin Fields
      BY DEF Fields, Separators, Channels
    <3>2. QED
      BY <2>3, <3>1, OtherKept, CopyKept
  <2>5. outcome.result = Applied(loads, load).result
    BY <2>2
  <2> HIDE DEF loads
  <2>6. Copies(outcome.result)
    <3>1. load.eor \in Seq(Chars)
      BY EorAsked
    <3>2. QED
      BY <2>4, <2>5, <3>1, AppliedKeeps, CopyKept
  <2>7. PICK file \in LoadInputs(ts) : Opens(contexts, outcome.result, "input", file)
    BY <2>2
  <2>8. file \in Files \ open \/ file = Stdin
    BY <2>7, NextFileIsNew DEF LoadInputs
  <2>9. Stacks(Depth + 1)
    BY <1>1, <2>6, <2>7, <2>8, StacksPush DEF Channels
  <2> DEFINE n == Depth + 1
  <2>10. n \in Nat /\ n > 1 /\ Stacks(n)
    BY <1>1, <2>9
  <2> HIDE DEF n
  <2>11. QED
    BY <1>1, <2>2, <2>10, Carried
<1>4. QED
  BY <1>2, <1>3

LEMMA UnloadsStep ==
  ASSUME SInv, Ready, NEW cmd \in Candidates, NEW ts, Tokens(ts), UnloadsTo(ts)
  PROVE  Preserved
<1>1. /\ stage # "exited" /\ Depth \in Nat /\ Depth > 0
  BY CommandStarts
<1>2. CASE Exit
  BY <1>2, Exits
<1>3. CASE ~Exit
  <2> DEFINE new == NewContext(Top)
             written == Unloading(new)
             quiet == Switched(written, "trace", "off")
  <2>1. PICK load \in {LoadInfo(ts)} : \E outcome \in {Applied(quiet, load)} :
          /\ CanOpen /\ Opens(contexts, outcome.result, "output", NextFile)
          /\ Carries(outcome.said \union Remark(ts))
    BY <1>3 DEF UnloadsTo
  <2>2. PICK outcome \in {Applied(quiet, load)} :
          /\ CanOpen /\ Opens(contexts, outcome.result, "output", NextFile)
          /\ Carries(outcome.said \union Remark(ts))
    BY <2>1
  <2>3. Copies(new)
    BY <1>1, NewContextCopies
  <2> HIDE DEF new
  <2>4. Copies(written)
    BY <2>3, SetFormatKeeps, CopyKept DEF Unloading
  <2> HIDE DEF written
  <2>5. Copies(quiet)
    BY <2>4, SwitchedKeeps, CopyKept
  <2>6. outcome.result = Applied(quiet, load).result
    BY <2>2
  <2> HIDE DEF quiet
  <2>7. Copies(outcome.result)
    <3>1. load.eor \in Seq(Chars)
      BY EorAsked
    <3>2. QED
      BY <2>5, <2>6, <3>1, AppliedKeeps, CopyKept
  <2>8. NextFile \in Files \ open
    BY <2>2, NextFileIsNew
  <2>9. Stacks(Depth + 1)
    BY <1>1, <2>2, <2>7, <2>8, StacksPush DEF Channels
  <2> DEFINE n == Depth + 1
  <2>10. n \in Nat /\ n > 1 /\ Stacks(n)
    BY <1>1, <2>9
  <2> HIDE DEF n
  <2>11. QED
    BY <1>1, <2>2, <2>10, Carried
<1>4. QED
  BY <1>2, <1>3

LEMMA CommandStep ==
  ASSUME SInv, DoCommand
  PROVE  Preserved
<1>1. PICK cmd \in Candidates :
        \/ DoSetting(cmd) \/ DoInput(cmd) \/ DoChannel(cmd) \/ DoOther(cmd) \/ DoExit(cmd)
        \/ DoLoad(cmd) \/ DoStatement(cmd)
  BY DEF DoCommand
<1>2. Ready
  BY DEF DoCommand
<1>3. CASE DoExit(cmd)
  BY <1>3, Exits DEF DoExit
<1>4. CASE DoOther(cmd)
  BY <1>2, <1>4, PassesStep DEF DoOther
<1>5. CASE DoStatement(cmd)
  BY <1>2, <1>5, PassesStep DEF DoStatement
<1>6. CASE DoLoad(cmd)
  <2>1. Tokens(cmd.ts)
    BY <1>2, <1>6, CommandStarts DEF DoLoad, WellFormed, Tokens
  <2>2. QED
    BY <1>2, <1>6, <2>1, PassesStep, LoadsStep, UnloadsStep DEF DoLoad
<1>7. QED
  BY <1>1, <1>2, <1>3, <1>4, <1>5, <1>6, SettingStep, ChannelStep

(* The end of a statement or of a file of commands; a signal.              *)
LEMMA EndStep ==
  ASSUME SInv, StatementEnds \/ EndOfFile
  PROVE  Preserved
<1>1. CASE Exit
  BY <1>1, Exits
<1>2. CASE ~Exit
  <2>1. EndContext /\ Depth # 1 /\ stage # "exited" /\ Depth > 1 /\ Depth \in Nat
        /\ UNCHANGED <<options, arguments, stage, given>> /\ statement' = <<>>
    <3>1. CASE StatementEnds
      BY <1>2, <3>1, DepthNat DEF StatementEnds, SInv, Running, Depth
    <3>2. CASE EndOfFile
      <4>1. Reading /\ Depth # 1 /\ EndContext
            /\ UNCHANGED <<options, arguments, stage, given, statement>>
        BY <1>2, <3>2 DEF EndOfFile
      <4>2. stage # "exited"
        BY <4>1, NoContext DEF Reading, SInv, Running, Depth
      <4>3. QED
        BY <4>1, <4>2, DepthNat DEF Reading
    <3>3. QED
      BY <3>1, <3>2
  <2>2. Stacks(Depth - 1)
    BY <2>1, StacksEnd
  <2> DEFINE n == Depth - 1
  <2>3. n \in Nat /\ n > 0 /\ Stacks(n)
    BY <2>1, <2>2
  <2>4. OptionsWellFormed(options) /\ AllWellFormed(arguments)
        /\ (given # <<>> => WellFormed(given[1]))
    BY DEF SInv
  <2> HIDE DEF n
  <2>5. QED
    BY <2>1, <2>3, <2>4, GoesOn
<1>3. QED
  BY <1>1, <1>2

LEMMA InterruptStep ==
  ASSUME SInv, Interrupt
  PROVE  Preserved
<1>1. CASE Exit
  BY <1>1, Exits
<1>2. CASE ~Exit
  <2>1. /\ contexts' = <<contexts[1]>>
        /\ open' = open \ UNION {AllOwned(contexts[i]) : i \in 2..Depth}
        /\ statement' = <<>>
        /\ UNCHANGED <<options, arguments, stage, given>>
        /\ stage # "exited"
    BY <1>2 DEF Interrupt
  <2>2. Private(contexts, open) /\ Len(contexts) > 0
    BY <2>1 DEF SInv, Running
  <2>3. Stacks(1)
    BY <2>1, <2>2, PrivateBase DEF Stacks, AllDistinct, Depth
  <2>4. OptionsWellFormed(options) /\ AllWellFormed(arguments)
        /\ (given # <<>> => WellFormed(given[1]))
    BY DEF SInv
  <2>5. QED
    BY <2>1, <2>3, <2>4, GoesOn
<1>3. QED
  BY <1>1, <1>2

LEMMA NextPreserves ==
  ASSUME SInv, [Next]_vars
  PROVE  Preserved
<1>1. CASE NothingLeft
  BY <1>1, Exits DEF NothingLeft
<1>2. CASE UNCHANGED vars
  <2>1. UNCHANGED <<contexts, open, options, arguments, stage, given, statement>>
    BY <1>2 DEF vars
  <2>2. QED
    BY <2>1 DEF Preserved, AllDistinct, SInv, Running
<1>3. QED
  BY <1>1, <1>2, OptionStep, EndOfOptionsStep, ArgumentStep, FifoStep, CommandStep, EndStep,
     InterruptStep DEF Next, Exited

-----------------------------------------------------------------------------
LEMMA InitHolds ==
  ASSUME Init
  PROVE  SInv
<1>1. PICK e \in Environments :
        contexts = <<BaseContext(e.delim, e.escape, e.quote, e.eor)>>
  BY DEF Init
<1>2. PICK line \in CommandLines : options = line.options /\ arguments = line.args
  BY DEF Init
<1>3. stage = "options" /\ open = {} /\ given = <<>> /\ statement = <<>>
  BY DEF Init
<1> DEFINE c == BaseContext(e.delim, e.escape, e.quote, e.eor)
<1>4. /\ IsContext(c) /\ c.closes = {}
      /\ \A channel \in Channels : c[channel] \in Standard
  <2> DEFINE n == Min({Len(e.eor), 7})
             eor == SubSeq(e.eor, 1, n)
  <2>1. e.eor \in Seq(Chars)
    BY EnvironmentsAssumption
  <2>2. n \in 0..Len(e.eor) /\ n <= 7
    BY <2>1 DEF Min
  <2>3. c.eor = eor
    BY DEF BaseContext
  <2> HIDE DEF n
  <2>4. eor \in Seq(Chars) /\ Len(eor) = n
    BY <2>1, <2>2, PrefixOf
  <2>5. IsEor(c.eor)
    BY <2>2, <2>3, <2>4 DEF IsEor
  <2>6. QED
    BY <2>5 DEF BaseContext, IsContext, Fields, Separators, Channels, Standard
<1>5. contexts = <<c>>
  BY <1>1
<1> HIDE DEF c
<1>6. Sequenced(contexts) /\ Len(contexts) = 1 /\ \A i \in 1..Len(contexts) : contexts[i] = c
  BY <1>5, Single
<1>7. Private(contexts, open)
  BY <1>3, <1>4, <1>6 DEF Private
<1>8. OptionsWellFormed(options)
  <2>1. options \in Seq(Range(options)) /\ \A option \in Range(options) : WellFormed(option.c)
    BY <1>2, CommandsAssumption, SequenceIs
  <2>2. QED
    BY <2>1, Zenon DEF OptionsWellFormed
<1>9. AllWellFormed(arguments)
  <2>1. arguments \in Seq(Range(arguments)) /\ \A cmd \in Range(arguments) : WellFormed(cmd)
    BY <1>2, CommandsAssumption, SequenceIs
  <2>2. QED
    BY <2>1, Zenon DEF AllWellFormed
<1>10. QED
  BY <1>3, <1>6, <1>7, <1>8, <1>9 DEF SInv, Running

LEMMA OwnersAreUnique ==
  ASSUME SInv
  PROVE  StreamsOwned
<1>1. Private(contexts, open) /\ Depth \in Nat /\ Depth = Len(contexts)
  BY DepthNat DEF SInv, Depth
<1>2. \A i \in 1..Depth, channel \in Channels : contexts[i][channel] \in Standard \union open
  BY <1>1 DEF Private
<1>3. \A i \in 1..Depth : AllOwned(contexts[i]) \subseteq open
  BY <1>1 DEF Private, AllOwned, Owned
<1>4. ASSUME NEW f \in open PROVE \E o \in Owners(f) : Owners(f) = {o}
  <2>1. PICK i \in 1..Depth, c \in Channels : c \in contexts[i].closes /\ contexts[i][c] = f
    BY <1>1 DEF Private
  <2>2. <<i, c>> \in Owners(f)
    BY <2>1 DEF Owners, Owned
  <2>3. ASSUME NEW o \in Owners(f) PROVE o = <<i, c>>
    <3>1. PICK j \in 1..Depth, d \in Channels :
            o = <<j, d>> /\ d \in contexts[j].closes /\ contexts[j][d] = f
      BY <2>3 DEF Owners, Owned
    <3>2. j \in Nat /\ i \in Nat /\ (j <= i \/ i <= j)
      BY <1>1
    <3>3. CASE j <= i
      <4>1. j \in 1..i
        BY <3>2, <3>3
      <4>2. j = i /\ d = c
        BY <1>1, <2>1, <3>1, <4>1 DEF Private
      <4>3. QED
        BY <3>1, <4>2
    <3>4. CASE i <= j
      <4>1. i \in 1..j
        BY <3>2, <3>4
      <4>2. j = i /\ d = c
        BY <1>1, <2>1, <3>1, <4>1 DEF Private
      <4>3. QED
        BY <3>1, <4>2
    <3>5. QED
      BY <3>2, <3>3, <3>4
  <2>4. Owners(f) = {<<i, c>>}
    BY <2>2, <2>3
  <2>5. QED
    BY <2>2, <2>4
<1>5. QED
  BY <1>2, <1>3, <1>4 DEF StreamsOwned

(* However files of commands, OUTPUT, ERROR, LOAD, RELOAD and UNLOAD are   *)
(* nested, end, fail or are interrupted: every open file is closed by      *)
(* exactly one channel of one context, and no context has a stream that    *)
(* has been closed (ctxt_newcontext, ctxt_newinput, ctxt_endcontext and    *)
(* ctxt_recover of context.c).                                             *)
THEOREM StreamsAlwaysOwned == Spec => []StreamsOwned
<1>1. Init => SInv
  BY InitHolds
<1>2. SInv /\ [Next]_vars => SInv'
  BY NextPreserves DEF Preserved
<1>3. SInv => StreamsOwned
  BY OwnersAreUnique
<1>4. QED
  BY <1>1, <1>2, <1>3, PTL DEF Spec

(* If the environment gives three separators that differ, delimiter,       *)
(* escape and quote differ in every context ever after, whatever commands, *)
(* options and LOAD clauses set (ctxt_setdelim, ctxt_setescape and         *)
(* ctxt_setquote).  The environment itself is not checked by ctxt_init.    *)
THEOREM SeparatorsStayDistinct == Spec /\ AllDistinct => []AllDistinct
<1>1. Init => SInv
  BY InitHolds
<1>2. SInv /\ AllDistinct /\ [Next]_vars => SInv' /\ AllDistinct'
  BY NextPreserves DEF Preserved
<1>3. QED
  BY <1>1, <1>2, PTL DEF Spec
-----------------------------------------------------------------------------
(* The statement parser.  Of what it accepts, every token is looked at:    *)
(* with one more token the part of the statement up to the old end is read *)
(* as before, and the new token is one word too many or the semicolon.     *)
(* What is appended to a statement is the only token that is new.          *)
LEMMA TokenAppended ==
  ASSUME NEW ts, Sequenced(ts), NEW t
  PROVE  /\ Len(ts) \in Nat /\ DOMAIN ts = 1..Len(ts)
         /\ Sequenced(Append(ts, t))
         /\ Len(Append(ts, t)) = Len(ts) + 1
         /\ \A i \in 1..Len(ts) : Append(ts, t)[i] = ts[i]
         /\ Append(ts, t)[Len(ts) + 1] = t
<1>1. PICK S : ts \in Seq(S)
  BY DEF Sequenced
<1>2. ts \in Seq(S \union {t}) /\ t \in S \union {t}
  BY <1>1
<1>3. Append(ts, t) \in Seq(S \union {t})
  BY <1>2
<1>. QED
  BY <1>2, <1>3 DEF Sequenced

LEMMA KindsAppended ==
  ASSUME NEW ts, Sequenced(ts), NEW t
  PROVE  /\ \A i \in Nat : i <= Len(ts) => Kind(Append(ts, t), i) = Kind(ts, i)
         /\ Kind(Append(ts, t), Len(ts) + 1) = t.k
         /\ \A i \in Nat : i > Len(ts) => Kind(ts, i) = "end"
         /\ \A i \in Nat : i > Len(ts) + 1 => Kind(Append(ts, t), i) = "end"
BY TokenAppended DEF Kind

LEMMA Present ==
  ASSUME NEW ts, Sequenced(ts), NEW i \in Nat, NEW ks, "end" \notin ks, Is(ts, i, ks)
  PROVE  i <= Len(ts)
<1>1. ~(i > Len(ts))
  BY KindsAppended DEF Is
<1>. QED BY <1>1, TokenAppended

(* A clause that is finished, or not begun, stays so.                      *)
LEMMA ClauseAppended ==
  ASSUME NEW ts, Sequenced(ts), NEW t, NEW first, t.k \notin first, "end" \notin first,
         NEW following, Sequenced(following),
         \A j \in 1..Len(following) : "end" \notin following[j],
         NEW i \in 1..Len(ts)+1, Clause(ts, i, first, following) # 0
  PROVE  /\ Clause(Append(ts, t), i, first, following) = Clause(ts, i, first, following)
         /\ Clause(ts, i, first, following) \in i..Len(ts)+1
<1>. DEFINE us == Append(ts, t)
            n == Len(ts)
            m == Len(following)
<1>1. n \in Nat /\ m \in Nat /\ i \in Nat /\ i # 0 /\ i <= n + 1
  BY TokenAppended
<1>2. /\ \A j \in Nat : j <= n => Kind(us, j) = Kind(ts, j)
      /\ Kind(us, n + 1) = t.k
      /\ \A j \in Nat : j > n => Kind(ts, j) = "end"
  BY KindsAppended
<1>. HIDE DEF us, n
<1>3. CASE ~Is(ts, i, first)
  <2>1. ~Is(us, i, first)
    BY <1>1, <1>2, <1>3 DEF Is
  <2>. QED BY <1>1, <1>3, <2>1 DEF Clause, us, n
<1>4. CASE Is(ts, i, first)
  <2>1. \A j \in 1..m : Is(ts, i + j, following[j])
    BY <1>1, <1>4 DEF Clause
  <2>2. \A j \in 1..m : i + j \in Nat /\ i + j <= n
    BY <1>1, <1>2, <2>1 DEF Is
  <2>3. i <= n
    BY <1>1, <1>2, <1>4 DEF Is
  <2>4. i + m <= n
    BY <1>1, <2>2, <2>3
  <2>5. Is(us, i, first) /\ \A j \in 1..m : Is(us, i + j, following[j])
    BY <1>1, <1>2, <1>4, <2>1, <2>2, <2>3 DEF Is
  <2>6. Clause(ts, i, first, following) = i + 1 + m /\ Clause(us, i, first, following) = i + 1 + m
    BY <1>1, <1>4, <2>1, <2>5 DEF Clause
  <2>. QED BY <1>1, <2>4, <2>6 DEF us, n
<1>. QED BY <1>3, <1>4

Stray == {W(";"), Id}

LEMMA StrayKinds ==
  ASSUME NEW t \in Stray
  PROVE  t.k \in {";", "identifier"} /\ (t = W(";") <=> t.k = ";")
<1>1. W(";").k = ";" /\ Id.k = "identifier"
  BY DEF W, Id, Token
<1>2. t = W(";") \/ t = Id
  BY DEF Stray
<1>. QED BY <1>1, <1>2

LEMMA ConnectAppended ==
  ASSUME NEW ts, Sequenced(ts), NEW t \in Stray, ConnectEnd(ts) # 0
  PROVE  ConnectEnd(Append(ts, t)) = ConnectEnd(ts) /\ ConnectEnd(ts) \in 1..Len(ts)+1
<1>. DEFINE us == Append(ts, t)
            n == Len(ts)
<1>1. n \in Nat /\ t.k \notin {"AS", "USER", "WITH", "WCT", "DEFAULT", "TO"} \union Strings
  BY TokenAppended, StrayKinds DEF Strings
<1>2. /\ \A j \in Nat : j <= n => Kind(us, j) = Kind(ts, j)
      /\ Kind(us, n + 1) = t.k
      /\ \A j \in Nat : j > n => Kind(ts, j) = "end"
  BY KindsAppended
<1>3. "end" \notin Strings
  BY DEF Strings
<1>4. ASSUME NEW i \in 1..n+1, OptWct(ts, i) # 0
      PROVE  OptWct(us, i) = OptWct(ts, i) /\ OptWct(ts, i) \in 1..n+1
  <2>1. CASE Is(ts, i, {"WCT"})
    <3>1. i <= n /\ Is(us, i, {"WCT"})
      BY <1>1, <1>2, <2>1 DEF Is
    <3>. QED BY <1>1, <2>1, <3>1 DEF OptWct
  <2>2. CASE ~Is(ts, i, {"WCT"})
    <3>1. ~Is(us, i, {"WCT"})
      BY <1>1, <1>2, <2>2 DEF Is
    <3>. DEFINE f == <<{"CONCURRENT"}, {"TRANSACTIONS"}>>
    <3>2. Sequenced(f) /\ \A j \in 1..Len(f) : "end" \notin f[j]
      <4>1. f \in Seq({{"CONCURRENT"}, {"TRANSACTIONS"}})
        OBVIOUS
      <4>2. Sequenced(f)
        BY <4>1 DEF Sequenced
      <4>. QED BY <4>2
    <3>3. OptWct(ts, i) = Clause(ts, i, {"WITH"}, f) /\ OptWct(us, i) = Clause(us, i, {"WITH"}, f)
      BY <2>2, <3>1 DEF OptWct
    <3>. HIDE DEF f
    <3>4. Clause(us, i, {"WITH"}, f) = Clause(ts, i, {"WITH"}, f)
          /\ Clause(ts, i, {"WITH"}, f) \in i..n+1
      BY <1>1, <1>4, <3>2, <3>3, ClauseAppended
    <3>. QED BY <1>1, <3>3, <3>4
  <2>. QED BY <2>1, <2>2
<1>5. ASSUME NEW i \in 1..n+1, OptUser(ts, i) # 0
      PROVE  OptUser(us, i) = OptUser(ts, i) /\ OptUser(ts, i) \in 1..n+1
  <2>. DEFINE f == <<Strings, {"USING", "PASSWORD"}, Strings>>
  <2>1. Sequenced(f) /\ \A j \in 1..Len(f) : "end" \notin f[j]
    <3>1. f \in Seq({Strings, {"USING", "PASSWORD"}})
      OBVIOUS
    <3>2. Sequenced(f)
      BY <3>1 DEF Sequenced
    <3>. QED BY <1>3, <3>2
  <2>2. OptUser(ts, i) = Clause(ts, i, {"USER"}, f) /\ OptUser(us, i) = Clause(us, i, {"USER"}, f)
    BY DEF OptUser
  <2>. HIDE DEF f
  <2>3. Clause(us, i, {"USER"}, f) = Clause(ts, i, {"USER"}, f)
        /\ Clause(ts, i, {"USER"}, f) \in i..n+1
    BY <1>1, <1>5, <2>1, <2>2, ClauseAppended
  <2>. QED BY <1>1, <2>2, <2>3
<1>6. ASSUME NEW i \in 1..n+1, OptConn(ts, i) # 0
      PROVE  OptConn(us, i) = OptConn(ts, i) /\ OptConn(ts, i) \in 1..n+1
  <2>. DEFINE f == <<Strings>>
  <2>1. Sequenced(f) /\ \A j \in 1..Len(f) : "end" \notin f[j]
    <3>1. f \in Seq({Strings})
      OBVIOUS
    <3>2. Sequenced(f)
      BY <3>1 DEF Sequenced
    <3>. QED BY <1>3, <3>2
  <2>2. OptConn(ts, i) = Clause(ts, i, {"AS"}, f) /\ OptConn(us, i) = Clause(us, i, {"AS"}, f)
    BY DEF OptConn
  <2>. HIDE DEF f
  <2>3. Clause(us, i, {"AS"}, f) = Clause(ts, i, {"AS"}, f)
        /\ Clause(ts, i, {"AS"}, f) \in i..n+1
    BY <1>1, <1>6, <2>1, <2>2, ClauseAppended
  <2>. QED BY <1>1, <2>2, <2>3
<1>7. Is(ts, 2, {"TO"}) /\ (Is(ts, 3, {"DEFAULT"}) \/ Is(ts, 3, Strings))
  BY DEF ConnectEnd
<1>8. n >= 3 /\ 4 \in 1..n+1
  BY <1>1, <1>2, <1>3, <1>7 DEF Is
<1>9. /\ Is(us, 2, {"TO"})
      /\ Is(us, 3, {"DEFAULT"}) <=> Is(ts, 3, {"DEFAULT"})
      /\ Is(us, 3, Strings) <=> Is(ts, 3, Strings)
  BY <1>1, <1>2, <1>7, <1>8 DEF Is
<1>10. CASE Is(ts, 3, {"DEFAULT"})
  <2>1. ConnectEnd(ts) = OptWct(ts, 4) /\ ConnectEnd(us) = OptWct(us, 4)
    BY <1>7, <1>9, <1>10 DEF ConnectEnd
  <2>. QED BY <1>4, <1>8, <2>1
<1>11. CASE ~Is(ts, 3, {"DEFAULT"})
  <2>1. /\ ConnectEnd(ts) = OptWct(ts, OptUser(ts, OptConn(ts, 4)))
        /\ ConnectEnd(us) = OptWct(us, OptUser(us, OptConn(us, 4)))
    BY <1>7, <1>9, <1>11 DEF ConnectEnd
  <2>2. ~Is(ts, 0, {"WCT"}) /\ ~Is(us, 0, {"WCT"})
    BY DEF Is, Kind
  <2>3. OptWct(ts, 0) = 0 /\ OptUser(ts, 0) = 0
    BY <2>2 DEF OptWct, OptUser, Clause
  <2>4. OptConn(ts, 4) # 0 /\ OptUser(ts, OptConn(ts, 4)) # 0
    BY <2>1, <2>3
  <2>5. OptConn(us, 4) = OptConn(ts, 4) /\ OptConn(ts, 4) \in 1..n+1
    BY <1>6, <1>8, <2>4
  <2>6. OptUser(us, OptConn(us, 4)) = OptUser(ts, OptConn(ts, 4))
        /\ OptUser(ts, OptConn(ts, 4)) \in 1..n+1
    BY <1>5, <2>4, <2>5
  <2>. QED BY <1>4, <2>1, <2>6
<1>. QED BY <1>10, <1>11


LEMMA ShortAppended ==
  ASSUME NEW ts, Sequenced(ts), NEW t \in Stray
  PROVE  /\ DisconnectEnd(ts) # 0 =>
              /\ DisconnectEnd(Append(ts, t)) = DisconnectEnd(ts)
              /\ DisconnectEnd(ts) \in 1..Len(ts)+1
         /\ SetConnectionEnd(ts) # 0 =>
              /\ SetConnectionEnd(Append(ts, t)) = SetConnectionEnd(ts)
              /\ SetConnectionEnd(ts) \in 1..Len(ts)+1
<1>. DEFINE us == Append(ts, t)
            n == Len(ts)
<1>1. n \in Nat
  BY TokenAppended
<1>2. /\ \A j \in Nat : j <= n => Kind(us, j) = Kind(ts, j)
      /\ \A j \in Nat : j > n => Kind(ts, j) = "end"
  BY KindsAppended
<1>. HIDE DEF us, n
<1>3. "end" \notin {"CURRENT", "ALL", "DEFAULT"} \union Strings /\ "end" \notin {"DEFAULT"} \union Strings
  BY DEF Strings
<1>4. ASSUME DisconnectEnd(ts) # 0
      PROVE  DisconnectEnd(us) = DisconnectEnd(ts) /\ DisconnectEnd(ts) \in 1..n+1
  <2>1. Is(ts, 2, {"CURRENT", "ALL", "DEFAULT"} \union Strings)
    BY <1>4 DEF DisconnectEnd
  <2>2. 2 <= n
    BY <1>1, <1>2, <1>3, <2>1 DEF Is
  <2>3. Is(us, 2, {"CURRENT", "ALL", "DEFAULT"} \union Strings)
    BY <1>2, <2>1, <2>2 DEF Is
  <2>. QED BY <1>1, <2>1, <2>2, <2>3 DEF DisconnectEnd
<1>5. ASSUME SetConnectionEnd(ts) # 0
      PROVE  SetConnectionEnd(us) = SetConnectionEnd(ts) /\ SetConnectionEnd(ts) \in 1..n+1
  <2>1. Is(ts, 3, {"DEFAULT"} \union Strings)
    BY <1>5 DEF SetConnectionEnd
  <2>2. 3 <= n
    BY <1>1, <1>2, <1>3, <2>1 DEF Is
  <2>3. Is(us, 3, {"DEFAULT"} \union Strings)
    BY <1>2, <2>1, <2>2 DEF Is
  <2>. QED BY <1>1, <2>1, <2>2, <2>3 DEF SetConnectionEnd
<1>. QED BY <1>4, <1>5 DEF us, n

(* The name of an object ends where it did, or is none with a stray word.  *)
LEMMA ObjectAppended ==
  ASSUME NEW ts, Sequenced(ts), NEW t \in Stray, NEW i \in 1..Len(ts)+1, ObjectAt(ts, i) # 0
  PROVE  ObjectAt(Append(ts, t), i) = ObjectAt(ts, i) /\ ObjectAt(ts, i) \in 1..Len(ts)+1
<1>. DEFINE us == Append(ts, t)
            n == Len(ts)
<1>1. n \in Nat /\ i \in Nat /\ i <= n + 1 /\ i > 0
  BY TokenAppended
<1>k. t.k # "."
  BY StrayKinds
<1>2. /\ \A j \in Nat : j <= n => Kind(us, j) = Kind(ts, j)
      /\ Kind(us, n + 1) = t.k
      /\ \A j \in Nat : j > n => Kind(ts, j) = "end"
  BY KindsAppended
<1>. HIDE DEF us, n
<1>3. "end" \notin Strings
  BY DEF Strings
<1>4. IsWord(ts, i) \/ Is(ts, i, Strings)
  BY DEF ObjectAt
<1>5. i <= n
  BY <1>1, <1>2, <1>3, <1>4 DEF IsWord, Is
<1>6. /\ IsWord(us, i) <=> IsWord(ts, i)
      /\ Is(us, i, Strings) <=> Is(ts, i, Strings)
      /\ Is(us, i, {"sqstring"}) <=> Is(ts, i, {"sqstring"})
  BY <1>1, <1>2, <1>5 DEF IsWord, Is
<1>7. Is(us, i + 1, {"."}) <=> Is(ts, i + 1, {"."})
  <2>1. i + 1 \in Nat /\ (i + 1 <= n \/ i + 1 = n + 1)
    BY <1>1, <1>5
  <2>2. n + 1 > n /\ n + 1 \in Nat
    BY <1>1
  <2>. QED BY <1>k, <1>2, <2>1, <2>2 DEF Is
<1>8. CASE Is(ts, i + 1, {"."})
  <2>1. i + 2 \in Nat
    BY <1>1
  <2>2. IsWord(ts, i + 2) \/ Is(ts, i + 2, {"dqstring"})
    BY <1>4, <1>8 DEF ObjectAt
  <2>3. i + 2 <= n
    BY <1>1, <1>2, <2>1, <2>2 DEF IsWord, Is
  <2>4. IsWord(us, i + 2) \/ Is(us, i + 2, {"dqstring"})
    BY <1>2, <2>1, <2>2, <2>3 DEF IsWord, Is
  <2>5. ObjectAt(us, i) = i + 3 /\ ObjectAt(ts, i) = i + 3
    BY <1>4, <1>6, <1>7, <1>8, <2>2, <2>4 DEF ObjectAt
  <2>. QED BY <1>1, <2>3, <2>5 DEF us, n
<1>9. CASE ~Is(ts, i + 1, {"."})
  <2>1. ~Is(ts, i, {"sqstring"}) /\ ObjectAt(ts, i) = i + 1
    BY <1>4, <1>9 DEF ObjectAt
  <2>2. ObjectAt(us, i) = i + 1
    BY <1>4, <1>6, <1>7, <1>9, <2>1 DEF ObjectAt
  <2>. QED BY <1>1, <1>5, <2>1, <2>2 DEF us, n
<1>. QED BY <1>8, <1>9

LEMMA NameAppended ==
  ASSUME NEW ts, Sequenced(ts), NEW t \in Stray, NEW i \in 1..Len(ts)+1, ObjectName(ts, i) # 0
  PROVE  /\ ObjectName(ts, i) \in 1..Len(ts)+1
         /\ ObjectName(Append(ts, t), i) \in {0, ObjectName(ts, i)}
         /\ t.k = ";" => ObjectName(Append(ts, t), i) = ObjectName(ts, i)
<1>. DEFINE us == Append(ts, t)
            n == Len(ts)
<1>1. n \in Nat /\ i \in Nat /\ i <= n + 1 /\ i > 0
  BY TokenAppended
<1>k. t.k = ";" \/ t.k = "identifier"
  BY StrayKinds
<1>2. /\ \A j \in Nat : j <= n => Kind(us, j) = Kind(ts, j)
      /\ Kind(us, n + 1) = t.k
      /\ \A j \in Nat : j > n => Kind(ts, j) = "end"
  BY KindsAppended
<1>3. \A j \in 1..n+1 : ObjectAt(ts, j) # 0 =>
         ObjectAt(us, j) = ObjectAt(ts, j) /\ ObjectAt(ts, j) \in 1..n+1
  BY ObjectAppended
<1>4. \A j \in Nat : j > n => ObjectAt(ts, j) = 0
  <2>. SUFFICES ASSUME NEW j \in Nat, j > n PROVE ObjectAt(ts, j) = 0
    OBVIOUS
  <2>1. ~IsWord(ts, j) /\ ~Is(ts, j, Strings)
    BY <1>2 DEF IsWord, Is, Strings
  <2>. QED BY <2>1 DEF ObjectAt
<1>. HIDE DEF us, n
<1>5. CASE ~IsWord(ts, i)
  <2>1. ObjectName(ts, i) = ObjectAt(ts, i) /\ i <= n
    BY <1>1, <1>4, <1>5 DEF ObjectName
  <2>2. ~IsWord(us, i)
    BY <1>1, <1>2, <1>5, <2>1 DEF IsWord
  <2>3. ObjectName(us, i) = ObjectAt(us, i)
    BY <2>2 DEF ObjectName
  <2>. QED BY <1>1, <1>3, <2>1, <2>3 DEF us, n
<1>6. CASE IsWord(ts, i)
  <2>1. i <= n /\ i + 1 \in Nat /\ (i + 1 <= n \/ i + 1 = n + 1) /\ n + 1 > n
    BY <1>1, <1>2, <1>6 DEF IsWord
  <2>2. IsWord(us, i)
    BY <1>1, <1>2, <1>6, <2>1 DEF IsWord
  <2>3. \A c \in {":", "@", "."} : Is(us, i + 1, {c}) <=> Is(ts, i + 1, {c})
    BY <1>k, <1>2, <2>1 DEF Is
  <2>4. CASE Is(ts, i + 1, {":"})
    <3>1. /\ Is(us, i + 1, {":"})
          /\ ~Is(ts, i + 1, {"@"}) /\ ~Is(us, i + 1, {"@"})
          /\ ~Is(ts, i + 1, {"."}) /\ ~Is(us, i + 1, {"."})
      BY <2>3, <2>4 DEF Is
    <3>2. ObjectName(ts, i) = ObjectAt(ts, i + 2) /\ ObjectName(us, i) = ObjectAt(us, i + 2)
      BY <1>6, <2>2, <2>4, <3>1 DEF ObjectName
    <3>3. i + 2 \in Nat
      BY <1>1
    <3>4. ~(i + 2 > n)
      BY <1>4, <3>2, <3>3 DEF us
    <3>5. i + 2 \in 1..n+1
      BY <1>1, <3>3, <3>4
    <3>. QED BY <1>3, <3>2, <3>5 DEF us, n
  <2>5. CASE Is(ts, i + 1, {"@"})
    <3>1. /\ Is(us, i + 1, {"@"})
          /\ ~Is(ts, i + 1, {":"}) /\ ~Is(us, i + 1, {":"})
          /\ ~Is(ts, i + 1, {"."}) /\ ~Is(us, i + 1, {"."})
      BY <2>3, <2>5 DEF Is
    <3>2. /\ IsWord(ts, i + 2) /\ Is(ts, i + 3, {":"})
          /\ ObjectName(ts, i) = ObjectAt(ts, i + 4)
      BY <1>6, <2>5, <3>1 DEF ObjectName
    <3>3. i + 2 \in Nat /\ i + 3 \in Nat /\ i + 4 \in Nat
      BY <1>1
    <3>4. ~(i + 4 > n)
      BY <1>4, <3>2, <3>3 DEF us
    <3>5. i + 4 \in 1..n+1 /\ i + 3 <= n /\ i + 2 <= n
      BY <1>1, <3>3, <3>4
    <3>6. IsWord(us, i + 2) /\ Is(us, i + 3, {":"})
      BY <1>2, <3>2, <3>3, <3>5 DEF IsWord, Is
    <3>7. ObjectName(us, i) = ObjectAt(us, i + 4)
      BY <2>2, <3>1, <3>6 DEF ObjectName
    <3>. QED BY <1>3, <3>2, <3>5, <3>7 DEF us, n
  <2>6. CASE Is(ts, i + 1, {"."})
    <3>1. /\ Is(us, i + 1, {"."})
          /\ ~Is(ts, i + 1, {":"}) /\ ~Is(us, i + 1, {":"})
          /\ ~Is(ts, i + 1, {"@"}) /\ ~Is(us, i + 1, {"@"})
      BY <2>3, <2>6 DEF Is
    <3>2. ObjectName(ts, i) = ObjectAt(ts, i) /\ ObjectName(us, i) = ObjectAt(us, i)
      BY <1>6, <2>2, <2>6, <3>1 DEF ObjectName
    <3>. QED BY <1>1, <1>3, <2>1, <3>2 DEF us, n
  <2>7. CASE ~(\E c \in {":", "@", "."} : Is(ts, i + 1, {c}))
    <3>1. ~Is(us, i + 1, {":"}) /\ ~Is(us, i + 1, {"@"}) /\ ~Is(us, i + 1, {"."})
      BY <2>3, <2>7
    <3>2. Is(ts, i + 1, {"end", ";"}) /\ ObjectName(ts, i) = i + 1
      BY <1>6, <2>7 DEF ObjectName
    <3>3. ObjectName(us, i) \in {0, i + 1}
          /\ (Is(us, i + 1, {"end", ";"}) => ObjectName(us, i) = i + 1)
      BY <2>2, <3>1 DEF ObjectName
    <3>4. ASSUME t.k = ";" PROVE Is(us, i + 1, {"end", ";"})
      BY <1>2, <2>1, <3>2, <3>4 DEF Is
    <3>5. i + 1 \in 1..n+1
      BY <1>1, <2>1
    <3>. QED BY <3>2, <3>3, <3>4, <3>5 DEF us, n
  <2>. QED BY <2>4, <2>5, <2>6, <2>7
<1>. QED BY <1>5, <1>6

(* The condition of INFO ends at the semicolon or with the statement.      *)
LEMMA WhereAppended ==
  ASSUME NEW ts, Sequenced(ts), NEW t \in Stray, NEW i \in 1..Len(ts)+1
  PROVE  /\ OptWhere(ts, i) \in 1..Len(ts)+1
         /\ t.k = ";" => OptWhere(Append(ts, t), i) = OptWhere(ts, i)
         /\ ~Is(ts, i, {"WHERE"}) => OptWhere(Append(ts, t), i) = OptWhere(ts, i)
<1>. DEFINE us == Append(ts, t)
            n == Len(ts)
<1>1. n \in Nat /\ i \in Nat /\ i <= n + 1 /\ i > 0
  BY TokenAppended
<1>k. t.k = ";" \/ t.k = "identifier"
  BY StrayKinds
<1>2. /\ \A j \in Nat : j <= n => Kind(us, j) = Kind(ts, j)
      /\ Kind(us, n + 1) = t.k
      /\ \A j \in Nat : j > n => Kind(ts, j) = "end"
  BY KindsAppended
<1>3. Len(us) = n + 1
  BY TokenAppended
<1>. HIDE DEF us, n
<1>4. Is(us, i, {"WHERE"}) <=> Is(ts, i, {"WHERE"})
  <2>1. i <= n \/ (i = n + 1 /\ n + 1 > n)
    BY <1>1
  <2>2. i \in Nat
    BY <1>1
  <2>. QED BY <1>k, <1>2, <2>1, <2>2 DEF Is
<1>5. CASE ~Is(ts, i, {"WHERE"})
  <2>1. OptWhere(ts, i) = i /\ OptWhere(us, i) = i
    BY <1>4, <1>5 DEF OptWhere
  <2>. QED BY <1>1, <2>1 DEF us, n
<1>6. CASE Is(ts, i, {"WHERE"})
  <2>. DEFINE S == {j \in i+1..n+1 : Kind(ts, j) \in {";", "end"}}
              R == {j \in i+1..n+1+1 : Kind(us, j) \in {";", "end"}}
  <2>1. i <= n
    BY <1>1, <1>2, <1>6 DEF Is
  <2>2. n + 1 \in S /\ S \subseteq Nat
    <3>1. n + 1 \in i+1..n+1 /\ n + 1 > n /\ n + 1 \in Nat /\ i+1..n+1 \subseteq Nat
      BY <1>1, <2>1
    <3>2. Kind(ts, n + 1) = "end"
      BY <1>2, <3>1
    <3>. QED BY <3>1, <3>2
  <2>3. PICK e \in S : \A j \in S : e <= j
    BY <2>2, LeastIn
  <2>4. OptWhere(ts, i) = e
    <3>1. OptWhere(ts, i) = Min(S)
      BY <1>6 DEF OptWhere, n
    <3>. QED BY <2>2, <2>3, <3>1, MinimumOf
  <2>5. e \in i+1..n+1
    BY <2>3
  <2>6. e \in Nat /\ e <= n + 1 /\ e \in i+1..n+1+1 /\ e \in 1..n+1 /\ n \in Nat
    <3>. HIDE DEF R, S
    <3>. QED BY <1>1, <2>5
  <2>7. /\ Kind(ts, e) \in {";", "end"}
        /\ \A j \in i+1..n+1 : Kind(ts, j) \in {";", "end"} => e <= j
    BY <2>3
  <2>8. ASSUME t.k = ";" PROVE OptWhere(us, i) = e
    <3>1. OptWhere(us, i) = Min(R)
      BY <1>3, <1>4, <1>6 DEF OptWhere
    <3>2. \A j : j \in R <=> j \in i+1..n+1+1 /\ Kind(us, j) \in {";", "end"}
      OBVIOUS
    <3>. HIDE DEF R, S
    <3>3. e \in Nat /\ e <= n + 1 /\ e \in i+1..n+1+1 /\ n \in Nat
      BY <2>6
    <3>10. e <= n \/ e = n + 1
      BY <3>3
    <3>4. Kind(us, e) \in {";", "end"}
      <4>1. CASE e <= n
        BY <1>2, <2>7, <3>3, <4>1
      <4>2. CASE e = n + 1
        BY <1>2, <2>8, <4>2
      <4>. QED BY <3>10, <4>1, <4>2
    <3>5. e \in R
      BY <3>2, <3>3, <3>4
    <3>6. ASSUME NEW j \in i+1..n+1+1, Kind(us, j) \in {";", "end"} PROVE e <= j
      <4>1. j \in Nat
        BY <1>1
      <4>2. CASE j <= n
        <5>1. j \in i+1..n+1
          BY <1>1, <4>1, <4>2
        <5>2. Kind(us, j) = Kind(ts, j)
          BY <1>2, <4>1, <4>2
        <5>. QED BY <2>7, <3>6, <5>1, <5>2
      <4>3. CASE j > n
        BY <3>3, <4>1, <4>3
      <4>. QED BY <3>3, <4>1, <4>2, <4>3
    <3>7. \A j \in R : e <= j
      BY <3>2, <3>6
    <3>8. R \subseteq Nat
      <4>1. i+1..n+1+1 \subseteq Nat
        BY <1>1
      <4>. QED BY <3>2, <4>1
    <3>. QED BY <3>1, <3>5, <3>7, <3>8, MinimumOf
  <2>. HIDE DEF S, R
  <2>. QED BY <1>6, <2>4, <2>6, <2>8 DEF us, n
<1>. QED BY <1>5, <1>6


Conditional(ts) == \E i \in DOMAIN ts : ts[i].k = "WHERE"
AtMost(ts, t) == t.k = ";" \/ ~Conditional(ts)

LEMMA InfoAppended ==
  ASSUME NEW ts, Sequenced(ts), NEW t \in Stray, InfoEnd(ts) # 0, AtMost(ts, t)
  PROVE  /\ InfoEnd(ts) \in 1..Len(ts)+1
         /\ InfoEnd(Append(ts, t)) \in {0, InfoEnd(ts)}
         /\ t.k = ";" => InfoEnd(Append(ts, t)) = InfoEnd(ts)
<1>. DEFINE us == Append(ts, t)
            n == Len(ts)
<1>1. n \in Nat
  BY TokenAppended
<1>2. /\ \A j \in Nat : j <= n => Kind(us, j) = Kind(ts, j)
      /\ \A j \in Nat : j > n => Kind(ts, j) = "end"
  BY KindsAppended
<1>3. ASSUME NEW i \in 1..n+1, ObjectName(ts, i) # 0
      PROVE  /\ ObjectName(ts, i) \in 1..n+1
             /\ ObjectName(us, i) \in {0, ObjectName(ts, i)}
             /\ t.k = ";" => ObjectName(us, i) = ObjectName(ts, i)
  BY <1>3, NameAppended
<1>4. ASSUME NEW i \in 1..n+1
      PROVE  OptWhere(ts, i) \in 1..n+1 /\ OptWhere(us, i) = OptWhere(ts, i)
  <2>1. t.k = ";" \/ ~Is(ts, i, {"WHERE"})
    <3>1. DOMAIN ts = 1..Len(ts)
      BY TokenAppended
    <3>2. Is(ts, i, {"WHERE"}) => Conditional(ts)
      BY <3>1 DEF Is, Kind, Conditional
    <3>. QED BY <3>2 DEF AtMost
  <2>. QED BY <2>1, WhereAppended
<1>. HIDE DEF us, n
<1>5. \A i \in {2, 3, 4} : i <= n => Kind(us, i) = Kind(ts, i)
  BY <1>2
<1>6. "end" \notin Unqualified /\ "end" \notin Plain /\ "end" \notin ForObject
  BY DEF Unqualified, Plain, ForObject
<1>7. \/ Is(ts, 2, Unqualified) \/ Is(ts, 2, Plain) \/ Is(ts, 2, ForObject)
      \/ Is(ts, 2, {"REFERENCES"}) \/ Is(ts, 2, {"CHECK"})
  BY DEF InfoEnd
<1>8. 2 <= n
  BY <1>6, <1>7, Present DEF n
<1>9. Kind(us, 2) = Kind(ts, 2) /\ 3 \in 1..n+1
  <2>1. 3 \in 1..n+1
    BY <1>1, <1>8
  <2>. QED BY <1>5, <1>8, <2>1
<1>10. CASE Is(ts, 2, Unqualified)
  <2>1. /\ ~Is(ts, 2, Plain) /\ ~Is(ts, 2, ForObject) /\ ~Is(ts, 2, {"REFERENCES"}) /\ ~Is(ts, 2, {"CHECK"})
    BY <1>10 DEF Is, Unqualified, Plain, ForObject
  <2>2. Is(us, 2, Unqualified) /\ ~Is(us, 2, Plain) /\ ~Is(us, 2, ForObject)
        /\ ~Is(us, 2, {"REFERENCES"}) /\ ~Is(us, 2, {"CHECK"})
    BY <1>9, <1>10, <2>1 DEF Is
  <2>3. InfoEnd(ts) = OptWhere(ts, 3) /\ InfoEnd(us) = OptWhere(us, 3)
    BY <1>10, <2>1, <2>2 DEF InfoEnd
  <2>. QED BY <1>4, <1>9, <2>3 DEF us, n
<1>11. CASE Is(ts, 2, Plain)
  <2>1. /\ ~Is(ts, 2, Unqualified) /\ ~Is(ts, 2, ForObject) /\ ~Is(ts, 2, {"REFERENCES"}) /\ ~Is(ts, 2, {"CHECK"})
    BY <1>11 DEF Is, Unqualified, Plain, ForObject
  <2>2. Is(us, 2, Plain) /\ ~Is(us, 2, Unqualified) /\ ~Is(us, 2, ForObject)
        /\ ~Is(us, 2, {"REFERENCES"}) /\ ~Is(us, 2, {"CHECK"})
    BY <1>9, <1>11, <2>1 DEF Is
  <2>3. InfoEnd(ts) = 3 /\ InfoEnd(us) = 3
    BY <1>11, <2>1, <2>2 DEF InfoEnd
  <2>. QED BY <1>9, <2>3 DEF us, n
<1>12. ASSUME Is(ts, 3, {"FOR", "TO", "BY", "CONSTRAINTS"})
       PROVE  3 <= n /\ Kind(us, 3) = Kind(ts, 3) /\ 4 \in 1..n+1
  <2>1. 3 <= n
    BY <1>12, Present DEF n
  <2>2. 4 \in 1..n+1
    BY <1>1, <2>1
  <2>. QED BY <1>5, <2>1, <2>2
<1>13. CASE Is(ts, 2, ForObject)
  <2>1. ~Is(ts, 2, Unqualified) /\ ~Is(ts, 2, Plain) /\ ~Is(ts, 2, {"REFERENCES"}) /\ ~Is(ts, 2, {"CHECK"})
    BY <1>13 DEF Is, Unqualified, Plain, ForObject
  <2>2. Is(us, 2, ForObject) /\ ~Is(us, 2, Unqualified) /\ ~Is(us, 2, Plain)
        /\ ~Is(us, 2, {"REFERENCES"}) /\ ~Is(us, 2, {"CHECK"})
    BY <1>9, <1>13, <2>1 DEF Is
  <2>3. Is(ts, 3, {"FOR"}) /\ InfoEnd(ts) = ObjectName(ts, 4)
    BY <1>13, <2>1 DEF InfoEnd
  <2>4. Is(ts, 3, {"FOR", "TO", "BY", "CONSTRAINTS"})
    BY <2>3 DEF Is
  <2>5. Is(us, 3, {"FOR"})
    BY <1>12, <2>3, <2>4 DEF Is
  <2>6. InfoEnd(us) = ObjectName(us, 4)
    BY <2>2, <2>5 DEF InfoEnd
  <2>. QED BY <1>3, <1>12, <2>3, <2>4, <2>6 DEF us, n
<1>14. CASE Is(ts, 2, {"REFERENCES"})
  <2>1. ~Is(ts, 2, Unqualified) /\ ~Is(ts, 2, Plain) /\ ~Is(ts, 2, ForObject) /\ ~Is(ts, 2, {"CHECK"})
    BY <1>14 DEF Is, Unqualified, Plain, ForObject
  <2>2. Is(us, 2, {"REFERENCES"}) /\ ~Is(us, 2, Unqualified) /\ ~Is(us, 2, Plain)
        /\ ~Is(us, 2, ForObject) /\ ~Is(us, 2, {"CHECK"})
    BY <1>9, <1>14, <2>1 DEF Is
  <2>3. Is(ts, 3, {"TO", "BY"}) /\ InfoEnd(ts) = ObjectName(ts, 4)
    BY <1>14, <2>1 DEF InfoEnd
  <2>4. Is(ts, 3, {"FOR", "TO", "BY", "CONSTRAINTS"})
    BY <2>3 DEF Is
  <2>5. Is(us, 3, {"TO", "BY"})
    BY <1>12, <2>3, <2>4 DEF Is
  <2>6. InfoEnd(us) = ObjectName(us, 4)
    BY <2>2, <2>5 DEF InfoEnd
  <2>. QED BY <1>3, <1>12, <2>3, <2>4, <2>6 DEF us, n
<1>15. CASE Is(ts, 2, {"CHECK"})
  <2>1. ~Is(ts, 2, Unqualified) /\ ~Is(ts, 2, Plain) /\ ~Is(ts, 2, ForObject) /\ ~Is(ts, 2, {"REFERENCES"})
    BY <1>15 DEF Is, Unqualified, Plain, ForObject
  <2>2. Is(us, 2, {"CHECK"}) /\ ~Is(us, 2, Unqualified) /\ ~Is(us, 2, Plain)
        /\ ~Is(us, 2, ForObject) /\ ~Is(us, 2, {"REFERENCES"})
    BY <1>9, <1>15, <2>1 DEF Is
  <2>3. Is(ts, 3, {"CONSTRAINTS"}) /\ Is(ts, 4, {"FOR"}) /\ InfoEnd(ts) = ObjectName(ts, 5)
    BY <1>15, <2>1 DEF InfoEnd
  <2>4. Is(ts, 3, {"FOR", "TO", "BY", "CONSTRAINTS"})
    BY <2>3 DEF Is
  <2>5. Kind(us, 4) = Kind(ts, 4) /\ 5 \in 1..n+1
    <3>1. 4 <= n
      BY <2>3, Present DEF n
    <3>2. 5 \in 1..n+1
      BY <1>1, <3>1
    <3>. QED BY <1>5, <3>1, <3>2
  <2>6. Is(us, 3, {"CONSTRAINTS"}) /\ Is(us, 4, {"FOR"})
    BY <1>12, <2>3, <2>4, <2>5 DEF Is
  <2>7. InfoEnd(us) = ObjectName(us, 5)
    BY <2>2, <2>6 DEF InfoEnd
  <2>. QED BY <1>3, <2>3, <2>5, <2>7 DEF us, n
<1>. QED BY <1>7, <1>10, <1>11, <1>13, <1>14, <1>15

(* What follows the last rule of a statement.                              *)
LEMMA RestOf ==
  ASSUME NEW ts, Sequenced(ts), NEW e \in 1..Len(ts)+1
  PROVE  /\ Sequenced(After(ts, e))
         /\ Len(After(ts, e)) = Len(ts) + 1 - e
         /\ \A i \in 1..Len(ts)+1-e : After(ts, e)[i] = ts[e + i - 1]
<1>. DEFINE n == Len(ts)
<1>1. PICK S : ts \in Seq(S)
  BY DEF Sequenced
<1>2. n \in Nat /\ e \in Nat /\ e > 0 /\ e <= n + 1
  BY <1>1
<1>3. \A i \in e..n : ts[i] \in S
  BY <1>1, <1>2
<1>. HIDE DEF n
<1>4. After(ts, e) = SubSeq(ts, e, n)
  BY DEF After, n
<1>5. /\ After(ts, e) \in Seq(S)
      /\ Len(After(ts, e)) = IF e <= n THEN n - e + 1 ELSE 0
      /\ \A i \in 1..n-e+1 : After(ts, e)[i] = ts[e + i - 1]
  BY <1>2, <1>3, <1>4, SubSeqProperties
<1>6. Len(After(ts, e)) = n + 1 - e /\ 1..n-e+1 = 1..n+1-e
  BY <1>2, <1>5
<1>. QED BY <1>5, <1>6 DEF Sequenced, n

Types == {"CONNECT", "DISCONN", "SETCONN", "INFO"}
Errors == {"CONNECTERR", "DISCONNERR", "SETCONNERR", "INFO_ERROR"}

TakenAs(type, error, ts, end) == Ended(type, error, ts, end) = type

LEMMA EndedWhole ==
  ASSUME NEW ts, Sequenced(ts), NEW end \in 1..Len(ts)+1, NEW type \in Types, NEW error,
         TakenAs(type, error, ts, end)
  PROVE  /\ ~Semicolon(ts) => Ended(type, error, Append(ts, W(";")), end) = type
         /\ Ended(type, error, Append(ts, Id), end) = "ERROR"
<1>. DEFINE n == Len(ts)
<1>1. n \in Nat /\ end \in Nat /\ end > 0 /\ end <= n + 1 /\ end # 0
  BY TokenAppended
<1>2. After(ts, end) = <<>> \/ (Len(After(ts, end)) = 1 /\ After(ts, end)[1].k = ";")
  BY <1>1 DEF TakenAs, Ended, Complete, Types
<1>3. Len(After(ts, end)) = n + 1 - end /\ \A i \in 1..n+1-end : After(ts, end)[i] = ts[end + i - 1]
  BY RestOf
<1>4. ASSUME NEW t
      PROVE  /\ Sequenced(After(Append(ts, t), end))
             /\ Len(After(Append(ts, t), end)) = n + 2 - end
             /\ \A i \in 1..n+2-end : After(Append(ts, t), end)[i] = Append(ts, t)[end + i - 1]
             /\ Append(ts, t)[n + 1] = t
  <2>. DEFINE us == Append(ts, t)
  <2>1. Sequenced(us) /\ Len(us) = n + 1 /\ us[n + 1] = t
    BY TokenAppended
  <2>. HIDE DEF us, n
  <2>2. end \in 1..n+1+1 /\ n + 1 + 1 = n + 2
    BY <1>1
  <2>3. end \in 1..Len(us)+1
    BY <2>1, <2>2
  <2>4. /\ Sequenced(After(us, end))
        /\ Len(After(us, end)) = Len(us) + 1 - end
        /\ \A i \in 1..Len(us)+1-end : After(us, end)[i] = us[end + i - 1]
    BY <2>1, <2>3, RestOf
  <2>5. Len(us) + 1 - end = n + 2 - end
    BY <1>1, <2>1
  <2>. QED BY <2>1, <2>4, <2>5 DEF us
<1>5. W(";").k = ";" /\ Id.k # ";"
  BY DEF W, Id, Token
<1>. HIDE DEF n
<1>6. After(ts, end) = <<>> => end = n + 1
  <2>. SUFFICES ASSUME After(ts, end) = <<>> PROVE end = n + 1
    OBVIOUS
  <2>1. Len(After(ts, end)) = 0
    OBVIOUS
  <2>. QED BY <1>1, <1>3, <2>1
<1>7. ASSUME ~Semicolon(ts) PROVE Ended(type, error, Append(ts, W(";")), end) = type
  <2>1. end = n + 1
    <3>1. ASSUME Len(After(ts, end)) = 1, After(ts, end)[1].k = ";" PROVE FALSE
      <4>3. n + 1 - end = 1
        BY <1>3, <3>1
      <4>1. end = n /\ 1 \in 1..n+1-end /\ end + 1 - 1 = n /\ n \in 1..n
        BY <1>1, <4>3
      <4>2. ts[n].k = ";"
        BY <1>3, <3>1, <4>1
      <4>. QED BY <1>7, <4>1, <4>2 DEF Semicolon, n
    <3>. QED BY <1>2, <1>6, <3>1
  <2>. DEFINE rest == After(Append(ts, W(";")), end)
  <2>2. n + 2 - end = 1 /\ 1 \in 1..n+2-end /\ end + 1 - 1 = n + 1
    BY <1>1, <2>1
  <2>3. Len(rest) = 1 /\ rest[1] = W(";")
    BY <1>4, <2>2
  <2>. HIDE DEF rest
  <2>4. Complete(type, rest) = type
    BY <1>5, <2>3 DEF Complete
  <2>. QED BY <1>1, <2>4 DEF Ended, rest
<1>8. Ended(type, error, Append(ts, Id), end) = "ERROR"
  <2>. DEFINE rest == After(Append(ts, Id), end)
  <2>1. Len(rest) = n + 2 - end /\ Len(rest) > 0 /\ Sequenced(rest)
    BY <1>1, <1>4
  <2>2. rest # <<>>
    BY <2>1
  <2>3. ~(Len(rest) = 1 /\ rest[1].k = ";")
    <3>. SUFFICES ASSUME Len(rest) = 1 PROVE rest[1].k # ";"
      OBVIOUS
    <3>. HIDE DEF rest
    <3>3. n + 2 - end = 1
      BY <2>1
    <3>1. end = n + 1 /\ 1 \in 1..n+2-end /\ end + 1 - 1 = n + 1
      BY <1>1, <3>3
    <3>2. rest[1] = Id
      <4>1. rest[1] = Append(ts, Id)[end + 1 - 1] /\ Append(ts, Id)[n + 1] = Id
        BY <1>4, <3>1 DEF rest
      <4>. QED BY <3>1, <4>1
    <3>. QED BY <1>5, <3>2
  <2>. HIDE DEF rest
  <2>4. Complete(type, rest) = "ERROR"
    BY <2>2, <2>3 DEF Complete
  <2>. QED BY <1>1, <2>4 DEF Ended, rest
<1>. QED BY <1>7, <1>8

LEMMA EndedNot ==
  ASSUME NEW ts, NEW type \in Types, NEW error \in Errors, NEW end
  PROVE  /\ Ended(type, error, ts, end) \in {type, error, "ERROR"}
         /\ TakenAs(type, error, ts, end) => end # 0
         /\ end = 0 => Ended(type, error, ts, end) \in {error, "ERROR"}
<1>1. Refused(error, Tail(ts)) \in {error, "ERROR"}
  BY DEF Refused
<1>2. Complete(type, After(ts, end)) \in {type, "ERROR"}
  BY DEF Complete
<1>. QED BY <1>1, <1>2 DEF Ended, Types, Errors, TakenAs


(* The four statements and their ends.                                     *)
LEMMA StatementEnded ==
  ASSUME NEW ts, Sequenced(ts), ts # <<>>
  PROVE  /\ Is(ts, 1, {"CONNECT"}) =>
              StatementType(ts) = Ended("CONNECT", "CONNECTERR", ts, ConnectEnd(ts))
         /\ Is(ts, 1, {"DISCONNECT"}) =>
              StatementType(ts) = Ended("DISCONN", "DISCONNERR", ts, DisconnectEnd(ts))
         /\ Is(ts, 1, {"SET"}) /\ Is(ts, 2, {"CONNECTION"}) =>
              StatementType(ts) = Ended("SETCONN", "SETCONNERR", ts, SetConnectionEnd(ts))
         /\ Is(ts, 1, {"INFO"}) =>
              StatementType(ts) = Ended("INFO", "INFO_ERROR", ts, InfoEnd(ts))
         /\ StatementType(ts) \in Types =>
              \/ Is(ts, 1, {"CONNECT"}) \/ Is(ts, 1, {"DISCONNECT"}) \/ Is(ts, 1, {"INFO"})
              \/ Is(ts, 1, {"SET"}) /\ Is(ts, 2, {"CONNECTION"})
<1>1. Is(ts, 1, {"CONNECT"}) =>
              StatementType(ts) = Ended("CONNECT", "CONNECTERR", ts, ConnectEnd(ts))
  BY DEF StatementType, Is
<1>2. Is(ts, 1, {"DISCONNECT"}) =>
              StatementType(ts) = Ended("DISCONN", "DISCONNERR", ts, DisconnectEnd(ts))
  BY DEF StatementType, Is
<1>3. Is(ts, 1, {"SET"}) /\ Is(ts, 2, {"CONNECTION"}) =>
              StatementType(ts) = Ended("SETCONN", "SETCONNERR", ts, SetConnectionEnd(ts))
  BY DEF StatementType, Is
<1>4. Is(ts, 1, {"INFO"}) =>
              StatementType(ts) = Ended("INFO", "INFO_ERROR", ts, InfoEnd(ts))
  BY DEF StatementType, Is
<1>5. ASSUME ~Is(ts, 1, {"CONNECT"}), ~Is(ts, 1, {"DISCONNECT"}), ~Is(ts, 1, {"INFO"}),
             ~(Is(ts, 1, {"SET"}) /\ Is(ts, 2, {"CONNECTION"}))
      PROVE  StatementType(ts) \notin Types
  <2>1. Complete("NONE", ts) \in {"NONE", "ERROR"}
    BY DEF Complete
  <2>2. /\ Refused("LOADERR", Tail(ts)) \in {"LOADERR", "ERROR"}
        /\ Refused("RELOADERR", Tail(ts)) \in {"RELOADERR", "ERROR"}
        /\ Refused("UNLOADERR", Tail(ts)) \in {"UNLOADERR", "ERROR"}
    BY DEF Refused
  <2>3. SetOther(ts) \in {"SETOTHER", "ERROR"}
    BY DEF SetOther
  <2>4. StatementType(ts) \in {"NONE", "ERROR", "LOAD", "LOADERR", "RELOAD", "RELOADERR", "UNLOAD",
                               "UNLOADERR", "SETOTHER"}
    <3>1. CASE Is(ts, 1, {";"})
      BY <2>1, <3>1 DEF StatementType, Is
    <3>2. CASE Is(ts, 1, {"LOAD"})
      BY <2>2, <3>2 DEF StatementType, Is
    <3>3. CASE Is(ts, 1, {"RELOAD"})
      BY <2>2, <3>3 DEF StatementType, Is
    <3>4. CASE Is(ts, 1, {"UNLOAD"})
      BY <2>2, <3>4 DEF StatementType, Is
    <3>5. CASE Is(ts, 1, {"SET"})
      BY <1>5, <2>3, <3>5 DEF StatementType, Is
    <3>6. CASE ~(\E k \in {";", "LOAD", "RELOAD", "UNLOAD", "SET"} : Is(ts, 1, {k}))
      BY <1>5, <3>6 DEF StatementType
    <3>. QED BY <3>1, <3>2, <3>3, <3>4, <3>5, <3>6
  <2>. QED BY <2>4 DEF Types
<1>. QED BY <1>1, <1>2, <1>3, <1>4, <1>5

TypeIs(ts, type) == StatementType(ts) = type
InfoError(error) == error = "INFO_ERROR"

Whole(ts) ==
  StatementType(ts) \in Types =>
    /\ Semicolon(ts) \/ StatementType(ts) = StatementType(Append(ts, W(";")))
    /\ Conditional(ts) \/ StatementType(Append(ts, Id)) \in {"ERROR", "INFO_ERROR"}

(* Behind the last word the parser has no use for, a semicolon changes     *)
(* nothing and a word makes an error of the statement.                     *)
LEMMA WholeIfEnded ==
  ASSUME NEW ts, Sequenced(ts), StatementType(ts) \in Types,
         NEW type \in Types, NEW error \in Errors,
         NEW e, NEW semi, NEW word,
         TypeIs(ts, Ended(type, error, ts, e)),
         TypeIs(Append(ts, W(";")), Ended(type, error, Append(ts, W(";")), semi)),
         TypeIs(Append(ts, Id), Ended(type, error, Append(ts, Id), word)),
         e # 0 => e \in 1..Len(ts)+1 /\ semi = e,
         e # 0 /\ ~Conditional(ts) => word = e \/ (word = 0 /\ InfoError(error))
  PROVE  Whole(ts)
<1>1. TakenAs(type, error, ts, e)
  <2>1. Ended(type, error, ts, e) \in {type, error, "ERROR"}
    BY EndedNot
  <2>2. Ended(type, error, ts, e) \in Types
    BY DEF TypeIs
  <2>3. error \notin Types /\ "ERROR" \notin Types
    BY DEF Types, Errors
  <2>. QED BY <2>1, <2>2, <2>3 DEF TakenAs
<1>2. e # 0
  <2>1. TakenAs(type, error, ts, e) => e # 0
    BY EndedNot
  <2>. QED BY <1>1, <2>1
<1>3. /\ ~Semicolon(ts) => Ended(type, error, Append(ts, W(";")), e) = type
      /\ Ended(type, error, Append(ts, Id), e) = "ERROR"
  BY <1>1, <1>2, EndedWhole
<1>4. Ended(type, error, Append(ts, Id), 0) \in {"ERROR", error}
  BY EndedNot
<1>5. ~Semicolon(ts) => StatementType(ts) = StatementType(Append(ts, W(";")))
  BY <1>1, <1>2, <1>3 DEF TypeIs, TakenAs
<1>6. ~Conditional(ts) => StatementType(Append(ts, Id)) \in {"ERROR", "INFO_ERROR"}
  <2>. SUFFICES ASSUME ~Conditional(ts)
                PROVE  StatementType(Append(ts, Id)) \in {"ERROR", "INFO_ERROR"}
    OBVIOUS
  <2>1. CASE word = e
    BY <1>3, <2>1 DEF TypeIs
  <2>2. CASE word = 0 /\ InfoError(error)
    BY <1>4, <2>2 DEF TypeIs, InfoError
  <2>. QED BY <1>2, <2>1, <2>2
<1>. QED BY <1>5, <1>6 DEF Whole

LEMMA StatementsAreWhole == ASSUME NEW ts, Sequenced(ts) PROVE Whole(ts)
<1>. SUFFICES ASSUME StatementType(ts) \in Types PROVE Whole(ts)
  BY DEF Whole
<1>1. ts # <<>>
  <2>1. Len(<<>>) = 0
    OBVIOUS
  <2>2. Kind(<<>>, 1) = "end"
    BY <2>1 DEF Kind
  <2>3. StatementType(<<>>) = "NONE"
    BY <2>2 DEF StatementType, Is
  <2>. QED BY <2>3 DEF Types
<1>. DEFINE n == Len(ts)
            vs == Append(ts, W(";"))
            us == Append(ts, Id)
<1>2. n \in Nat /\ n >= 1
  BY <1>1, TokenAppended DEF Sequenced
<1>3. Sequenced(vs) /\ Sequenced(us) /\ Len(vs) = n + 1 /\ Len(us) = n + 1
  BY TokenAppended
<1>4. W(";") \in Stray /\ Id \in Stray /\ W(";").k = ";"
  BY DEF Stray, W, Token
<1>5. \A i \in Nat : i <= n => Kind(vs, i) = Kind(ts, i) /\ Kind(us, i) = Kind(ts, i)
  BY KindsAppended
<1>. HIDE DEF n, vs, us
<1>6. vs # <<>> /\ us # <<>>
  <2>1. n + 1 # 0
    BY <1>2
  <2>2. Len(<<>>) = 0
    OBVIOUS
  <2>. QED BY <1>3, <2>1, <2>2
<1>7. Kind(vs, 1) = Kind(ts, 1) /\ Kind(us, 1) = Kind(ts, 1)
  BY <1>2, <1>5
<1>8. \A k : (Is(vs, 1, {k}) <=> Is(ts, 1, {k})) /\ (Is(us, 1, {k}) <=> Is(ts, 1, {k}))
  BY <1>7 DEF Is
<1>9. CASE Is(ts, 1, {"CONNECT"})
  <2>1. /\ TypeIs(ts, Ended("CONNECT", "CONNECTERR", ts, ConnectEnd(ts)))
        /\ TypeIs(vs, Ended("CONNECT", "CONNECTERR", vs, ConnectEnd(vs)))
        /\ TypeIs(us, Ended("CONNECT", "CONNECTERR", us, ConnectEnd(us)))
    BY <1>1, <1>3, <1>6, <1>8, <1>9, StatementEnded DEF TypeIs
  <2>2. "CONNECT" \in Types /\ "CONNECTERR" \in Errors
    BY DEF Types, Errors
  <2>3. ConnectEnd(ts) # 0 =>
          /\ ConnectEnd(ts) \in 1..Len(ts)+1
          /\ ConnectEnd(vs) = ConnectEnd(ts)
          /\ ConnectEnd(us) = ConnectEnd(ts)
    BY <1>4, ConnectAppended DEF us, vs
  <2>. QED BY <2>1, <2>2, <2>3, WholeIfEnded DEF us, vs
<1>10. CASE Is(ts, 1, {"DISCONNECT"})
  <2>1. /\ TypeIs(ts, Ended("DISCONN", "DISCONNERR", ts, DisconnectEnd(ts)))
        /\ TypeIs(vs, Ended("DISCONN", "DISCONNERR", vs, DisconnectEnd(vs)))
        /\ TypeIs(us, Ended("DISCONN", "DISCONNERR", us, DisconnectEnd(us)))
    BY <1>1, <1>3, <1>6, <1>8, <1>10, StatementEnded DEF TypeIs
  <2>2. "DISCONN" \in Types /\ "DISCONNERR" \in Errors
    BY DEF Types, Errors
  <2>3. DisconnectEnd(ts) # 0 =>
          /\ DisconnectEnd(ts) \in 1..Len(ts)+1
          /\ DisconnectEnd(vs) = DisconnectEnd(ts)
          /\ DisconnectEnd(us) = DisconnectEnd(ts)
    BY <1>4, ShortAppended DEF us, vs
  <2>. QED BY <2>1, <2>2, <2>3, WholeIfEnded DEF us, vs
<1>11. CASE Is(ts, 1, {"SET"}) /\ Is(ts, 2, {"CONNECTION"})
  <2>1. Is(vs, 2, {"CONNECTION"}) /\ Is(us, 2, {"CONNECTION"})
    <3>1. 2 <= n
      BY <1>11, Present DEF n
    <3>. QED BY <1>5, <1>11, <3>1 DEF Is
  <2>2. /\ TypeIs(ts, Ended("SETCONN", "SETCONNERR", ts, SetConnectionEnd(ts)))
        /\ TypeIs(vs, Ended("SETCONN", "SETCONNERR", vs, SetConnectionEnd(vs)))
        /\ TypeIs(us, Ended("SETCONN", "SETCONNERR", us, SetConnectionEnd(us)))
    BY <1>1, <1>3, <1>6, <1>8, <1>11, <2>1, StatementEnded DEF TypeIs
  <2>3. "SETCONN" \in Types /\ "SETCONNERR" \in Errors
    BY DEF Types, Errors
  <2>4. SetConnectionEnd(ts) # 0 =>
          /\ SetConnectionEnd(ts) \in 1..Len(ts)+1
          /\ SetConnectionEnd(vs) = SetConnectionEnd(ts)
          /\ SetConnectionEnd(us) = SetConnectionEnd(ts)
    BY <1>4, ShortAppended DEF us, vs
  <2>. QED BY <2>2, <2>3, <2>4, WholeIfEnded DEF us, vs
<1>12. CASE Is(ts, 1, {"INFO"})
  <2>1. /\ TypeIs(ts, Ended("INFO", "INFO_ERROR", ts, InfoEnd(ts)))
        /\ TypeIs(vs, Ended("INFO", "INFO_ERROR", vs, InfoEnd(vs)))
        /\ TypeIs(us, Ended("INFO", "INFO_ERROR", us, InfoEnd(us)))
    BY <1>1, <1>3, <1>6, <1>8, <1>12, StatementEnded DEF TypeIs
  <2>2. "INFO" \in Types /\ "INFO_ERROR" \in Errors /\ InfoError("INFO_ERROR")
    BY DEF Types, Errors, InfoError
  <2>3. InfoEnd(ts) # 0 => InfoEnd(ts) \in 1..Len(ts)+1 /\ InfoEnd(vs) = InfoEnd(ts)
    BY <1>4, InfoAppended DEF vs, AtMost
  <2>4. InfoEnd(ts) # 0 /\ ~Conditional(ts) => InfoEnd(us) \in {0, InfoEnd(ts)}
    BY <1>4, InfoAppended DEF us, AtMost
  <2>5. InfoEnd(ts) # 0 /\ ~Conditional(ts) =>
          InfoEnd(us) = InfoEnd(ts) \/ (InfoEnd(us) = 0 /\ InfoError("INFO_ERROR"))
    BY <2>2, <2>4
  <2>. QED BY <2>1, <2>2, <2>3, <2>5, WholeIfEnded DEF us, vs
<1>. QED BY <1>1, <1>9, <1>10, <1>11, <1>12, StatementEnded

-----------------------------------------------------------------------------
(* What is asked is a sequence of tokens, and changes only to another.     *)
LEMMA NewlyAsked ==
  ASSUME SInv, [Next]_vars
  PROVE  asked' = asked \/ Sequenced(asked')
<1>1. ASSUME NEW cmd \in Candidates, Ready, DoStatement(cmd) PROVE Sequenced(asked')
  <2>1. WellFormed(cmd) /\ cmd.do = "statement" /\ asked' = cmd.ts
    BY <1>1, CommandStarts DEF DoStatement
  <2>2. QED
    BY <2>1, SequenceIs DEF WellFormed, Sequenced
<1>2. ASSUME NEW cmd \in Candidates,
             DoSetting(cmd) \/ DoInput(cmd) \/ DoChannel(cmd) \/ DoOther(cmd) \/ DoExit(cmd)
      PROVE  asked' = asked
  BY <1>2 DEF DoSetting, DoInput, DoChannel, DoOther, DoExit, Exit, Leaves, Carries
<1>3. ASSUME NEW cmd \in Candidates, DoLoad(cmd) PROVE asked' = asked
  BY <1>3 DEF DoLoad, LoadsFrom, UnloadsTo, Fails, Exit, Passes, Leaves, Carries
<1>4. CASE DoCommand
  BY <1>1, <1>2, <1>3, <1>4 DEF DoCommand
<1>5. CASE \/ OptionRefused \/ OptionSetting \/ OptionFile \/ OptionNoted
           \/ OptionCommand \/ OptionRead
  BY <1>5 DEF OptionRefused, OptionSetting, OptionFile, OptionNoted, OptionCommand, OptionRead,
              Exit, Leaves
<1>6. CASE EndOfOptions \/ NextArgument \/ Script \/ ReadFifo \/ NothingLeft
  BY <1>6 DEF EndOfOptions, StartDbaccess, StartTable, StartCommands, Interactive, Become,
              NextArgument, Script, ReadFifo, NothingLeft, Exit, Leaves
<1>7. CASE StatementEnds \/ EndOfFile \/ Interrupt \/ Exited \/ UNCHANGED vars
  BY <1>7 DEF StatementEnds, EndOfFile, Interrupt, Exited, Exit, Leaves, vars
<1>8. QED
  BY <1>4, <1>5, <1>6, <1>7 DEF Next

(* A CONNECT, DISCONNECT, SET CONNECTION or INFO that the parser accepts   *)
(* was looked at to its end: a word more behind it, and it is an error     *)
(* (unless a WHERE takes the word), a semicolon, and it is the same        *)
(* statement.  The parser acts on a statement at its last clause, before   *)
(* it has seen what follows (yyparse and parse_sqlstmt of connecty.c), so  *)
(* this is about every sequence of tokens there may be, whatever the       *)
(* program has executed before it reads them.                              *)
THEOREM NothingEverIgnored == Spec => []NothingIgnored
<1>1. Init => SInv /\ Sequenced(asked)
  <2>1. Init => asked = <<>>
    BY DEF Init
  <2>2. QED
    BY <2>1, InitHolds, NoContext
<1>2. SInv /\ Sequenced(asked) /\ [Next]_vars => SInv' /\ Sequenced(asked)'
  BY NextPreserves, NewlyAsked DEF Preserved
<1>3. Sequenced(asked) => NothingIgnored
  BY StatementsAreWhole DEF NothingIgnored, Whole, Conditional, Types
<1>4. QED
  BY <1>1, <1>2, <1>3, PTL DEF Spec

-----------------------------------------------------------------------------
(* LoadInfo: what is taken from the options of a statement is what the     *)
(* last clause with each keyword gives.                                    *)
LastOf(ts, opts, keyword) ==
  IF Gives(ts, opts, keyword) THEN Given(ts, opts, keyword) ELSE <<>>

LEMMA LastIs ==
  ASSUME NEW ts, NEW opts, NEW e \in Nat, \A j \in opts : j \in Nat /\ j < e,
         NEW keyword, ts[e].k = keyword
  PROVE  /\ LastOf(ts, opts \union {e}, keyword) = ts[e + 1].t
         /\ Gives(ts, opts \union {e}, keyword)
<1> DEFINE now == Clauses(ts, opts \union {e}, keyword)
<1>1. e \in now /\ \A j \in now : j \in Nat /\ j <= e
  BY DEF Clauses
<1>2. Max(now) = e
  BY <1>1, MaxIs
<1>3. QED
  BY <1>1, <1>2 DEF LastOf, Gives, Given

LEMMA LastStays ==
  ASSUME NEW ts, NEW opts, NEW e \in Nat, NEW keyword, ts[e].k # keyword
  PROVE  /\ LastOf(ts, opts \union {e}, keyword) = LastOf(ts, opts, keyword)
         /\ Gives(ts, opts \union {e}, keyword) <=> Gives(ts, opts, keyword)
<1>1. Clauses(ts, opts \union {e}, keyword) = Clauses(ts, opts, keyword)
  BY DEF Clauses
<1>2. QED
  BY <1>1 DEF LastOf, Gives, Given

LEMMA KeptText ==
  ASSUME NEW load, IsLoad(load), NEW field \in Texts, NEW text, IsSequence(text)
  PROVE  /\ IsLoad(Kept(load, field, text))
         /\ \A f \in LoadFields \ {field, "cut"} : Kept(load, field, text)[f] = load[f]
         /\ ~Kept(load, field, text).cut =>
              /\ ~load.cut
              /\ Kept(load, field, text)[field] = text
              /\ Len(text) < Sizes[field]
<1> DEFINE room == Sizes[field]
           part == SubSeq(text, 1, Min({Len(text), room - 1}))
           over == load.cut \/ Len(text) + 1 > room
           first == [load EXCEPT ![field] = part]
<1>1. room \in Nat /\ field # "cut" /\ field \in LoadFields /\ "cut" \in LoadFields
  BY DEF Sizes, Texts, LoadFields
<1>2. DOMAIN load = LoadFields
  BY DEF IsLoad
<1>3. Kept(load, field, text) = [first EXCEPT !.cut = over]
  BY <1>1, <1>2 DEF Kept
<1>4. /\ DOMAIN first = LoadFields /\ first[field] = part
      /\ \A f \in LoadFields \ {field} : first[f] = load[f]
  BY <1>1, <1>2
<1>5. over \in BOOLEAN
  OBVIOUS
<1>6. ~over => ~load.cut /\ Len(text) < room /\ part = text
  <2>1. SUFFICES ASSUME ~over PROVE ~load.cut /\ Len(text) < room /\ part = text
    OBVIOUS
  <2>2. Len(text) \in Nat /\ text = [i \in 1..Len(text) |-> text[i]]
    BY DEF IsSequence
  <2>3. ~load.cut /\ Len(text) < room
    BY <1>1, <2>1, <2>2
  <2>4. Min({Len(text), room - 1}) = Len(text)
    BY <1>1, <2>2, <2>3 DEF Min
  <2>5. part = text
    BY <2>2, <2>4, SequenceIs
  <2>6. QED
    BY <2>3, <2>5
<1> HIDE DEF first, over, part
<1>7. Kept(load, field, text).cut = over /\ Kept(load, field, text)[field] = part
  BY <1>1, <1>3, <1>4
<1>8. QED
  BY <1>1, <1>3, <1>4, <1>5, <1>6, <1>7 DEF IsLoad

ClauseOf == [delim |-> "DELIMITER", escape |-> "ESCAPE", quote |-> "QUOTE", eor |-> "EOR",
             tag |-> "RECORDTAG"]

TakenFrom(ts, opts, load) ==
  /\ IsLoad(load)
  /\ ~Gives(ts, opts, "FORMAT") => load.format = ""
  /\ ~load.cut =>
       /\ \A f \in Texts : load[f] = LastOf(ts, opts, ClauseOf[f]) /\ Len(load[f]) < Sizes[f]
       /\ load.skip = LastOf(ts, opts, "SKIP")

LEMMA TextTaken ==
  ASSUME NEW ts, NEW opts, NEW e \in Nat, \A j \in opts : j \in Nat /\ j < e,
         NEW load, TakenFrom(ts, opts, load), NEW field \in Texts, ts[e].k = ClauseOf[field],
         IsSequence(ts[e + 1].t)
  PROVE  TakenFrom(ts, opts \union {e}, Kept(load, field, ts[e + 1].t))
<1> DEFINE text == ts[e + 1].t
           next == Kept(load, field, text)
           now == opts \union {e}
<1>1. IsLoad(load)
  BY DEF TakenFrom
<1>2. /\ IsLoad(next)
      /\ \A f \in LoadFields \ {field, "cut"} : next[f] = load[f]
      /\ ~next.cut => ~load.cut /\ next[field] = text /\ Len(text) < Sizes[field]
  BY <1>1, KeptText
<1>3. \A f \in Texts : /\ ClauseOf[f] \notin {"FORMAT", "SKIP"}
                       /\ ClauseOf[f] = ClauseOf[field] => f = field
                       /\ f \in LoadFields \ {"cut"}
  BY DEF ClauseOf, Texts, LoadFields
<1> HIDE DEF next
<1>4. ASSUME NEW keyword, keyword # ClauseOf[field]
      PROVE  /\ LastOf(ts, now, keyword) = LastOf(ts, opts, keyword)
             /\ Gives(ts, now, keyword) <=> Gives(ts, opts, keyword)
  BY <1>4, LastStays
<1>5. LastOf(ts, now, ClauseOf[field]) = text
  <2> DEFINE keyword == ClauseOf[field]
  <2>1. ts[e].k = keyword
    OBVIOUS
  <2> HIDE DEF keyword
  <2>2. LastOf(ts, opts \union {e}, keyword) = ts[e + 1].t
    BY <2>1, LastIs
  <2>3. QED
    BY <2>2 DEF keyword
<1>6. ~Gives(ts, now, "FORMAT") => next.format = ""
  <2>1. "FORMAT" # ClauseOf[field] /\ "format" \in LoadFields \ {field, "cut"}
    BY <1>3 DEF Texts, LoadFields
  <2>2. QED
    BY <1>2, <1>4, <2>1 DEF TakenFrom
<1>7. ASSUME ~next.cut, NEW f \in Texts
      PROVE  next[f] = LastOf(ts, now, ClauseOf[f]) /\ Len(next[f]) < Sizes[f]
  <2>1. CASE f = field
    BY <1>2, <1>5, <1>7, <2>1
  <2>2. CASE f # field
    <3>1. load[f] = LastOf(ts, opts, ClauseOf[f]) /\ Len(load[f]) < Sizes[f]
      BY <1>2, <1>7 DEF TakenFrom
    <3>2. LastOf(ts, now, ClauseOf[f]) = LastOf(ts, opts, ClauseOf[f])
      BY <1>3, <1>4, <2>2
    <3>3. next[f] = load[f]
      BY <1>2, <1>3, <2>2
    <3>4. QED
      BY <3>1, <3>2, <3>3
  <2>3. QED
    BY <2>1, <2>2
<1>8. ~next.cut => next.skip = LastOf(ts, now, "SKIP")
  <2>1. "SKIP" # ClauseOf[field] /\ "skip" \in LoadFields \ {field, "cut"}
    BY <1>3 DEF Texts, LoadFields
  <2>2. QED
    BY <1>2, <1>4, <2>1 DEF TakenFrom
<1>9. TakenFrom(ts, now, next)
  BY <1>2, <1>6, <1>7, <1>8 DEF TakenFrom
<1>10. QED
  BY <1>9 DEF next

LEMMA ClauseTaken ==
  ASSUME NEW ts, NEW opts, NEW e \in Nat, \A j \in opts : j \in Nat /\ j < e,
         NEW load, TakenFrom(ts, opts, load), ts[e].k \in OptionKeys,
         IsSequence(ts[e + 1].t)
  PROVE  TakenFrom(ts, opts \union {e}, OptionTaken(load, ts[e].k, ts[e + 1]))
<1> DEFINE key == ts[e].k
           value == ts[e + 1]
           now == opts \union {e}
<1>1. ASSUME NEW field \in Texts, key = ClauseOf[field]
      PROVE  TakenFrom(ts, now, OptionTaken(load, key, value))
  <2>1. OptionTaken(load, key, value) = Kept(load, field, value.t)
    BY <1>1 DEF Texts, ClauseOf, OptionTaken
  <2>2. TakenFrom(ts, now, Kept(load, field, value.t))
    BY <1>1, TextTaken
  <2>3. QED
    BY <2>1, <2>2
<1>2. \A f \in Texts : ClauseOf[f] \notin {"FORMAT", "SKIP"} /\ f \notin {"format", "skip", "cut"}
                       /\ f \in LoadFields
  BY DEF ClauseOf, Texts, LoadFields
<1>3. IsLoad(load)
  BY DEF TakenFrom
<1>4. CASE key = "FORMAT"
  <2> DEFINE word == IF value.k \in Strings THEN value.w ELSE FormatWords[value.k]
             next == [load EXCEPT !.format = word]
  <2>1. OptionTaken(load, key, value) = next
    BY <1>4 DEF OptionTaken
  <2>2. IsLoad(next) /\ \A f \in LoadFields \ {"format"} : next[f] = load[f]
    BY <1>3 DEF IsLoad, LoadFields
  <2>3. "skip" \in LoadFields \ {"format"} /\ "cut" \in LoadFields \ {"format"}
    BY DEF LoadFields
  <2> HIDE DEF next
  <2>4. Gives(ts, now, "FORMAT")
    BY <1>4, LastIs
  <2>5. ASSUME NEW keyword, keyword # "FORMAT"
        PROVE  LastOf(ts, now, keyword) = LastOf(ts, opts, keyword)
    BY <1>4, <2>5, LastStays
  <2>6. next.cut = load.cut /\ next.skip = load.skip /\ \A f \in Texts : next[f] = load[f]
    BY <1>2, <2>2, <2>3
  <2>7. LastOf(ts, now, "SKIP") = LastOf(ts, opts, "SKIP")
    BY <2>5
  <2>8. \A f \in Texts : LastOf(ts, now, ClauseOf[f]) = LastOf(ts, opts, ClauseOf[f])
    BY <1>2, <2>5
  <2>9. TakenFrom(ts, now, next)
    BY <2>2, <2>4, <2>6, <2>7, <2>8 DEF TakenFrom
  <2>10. QED
    BY <2>1, <2>9
<1>5. CASE key = "SKIP"
  <2> DEFINE next == [load EXCEPT !.skip = value.t]
  <2>1. OptionTaken(load, key, value) = next
    BY <1>5 DEF OptionTaken
  <2>2. IsLoad(next) /\ next.skip = value.t /\ \A f \in LoadFields \ {"skip"} : next[f] = load[f]
    BY <1>3 DEF IsLoad, LoadFields
  <2>3. "format" \in LoadFields \ {"skip"} /\ "cut" \in LoadFields \ {"skip"}
    BY DEF LoadFields
  <2> HIDE DEF next
  <2>4. LastOf(ts, now, "SKIP") = value.t
    <3> DEFINE keyword == "SKIP"
    <3>1. ts[e].k = keyword
      BY <1>5
    <3> HIDE DEF keyword
    <3>2. LastOf(ts, opts \union {e}, keyword) = ts[e + 1].t
      BY <3>1, LastIs
    <3>3. QED
      BY <3>2 DEF keyword
  <2>5. ASSUME NEW keyword, keyword # "SKIP"
        PROVE  /\ LastOf(ts, now, keyword) = LastOf(ts, opts, keyword)
               /\ Gives(ts, now, keyword) <=> Gives(ts, opts, keyword)
    BY <1>5, <2>5, LastStays
  <2>6. next.cut = load.cut /\ next.format = load.format /\ \A f \in Texts : next[f] = load[f]
    BY <1>2, <2>2, <2>3
  <2>7. Gives(ts, now, "FORMAT") <=> Gives(ts, opts, "FORMAT")
    BY <2>5
  <2>8. \A f \in Texts : LastOf(ts, now, ClauseOf[f]) = LastOf(ts, opts, ClauseOf[f])
    BY <1>2, <2>5
  <2>9. TakenFrom(ts, now, next)
    BY <2>2, <2>4, <2>6, <2>7, <2>8 DEF TakenFrom
  <2>10. QED
    BY <2>1, <2>9
<1>6. key \in {"FORMAT", "SKIP"} \/ \E field \in Texts : key = ClauseOf[field]
  BY DEF OptionKeys, ClauseOf, Texts
<1>7. QED
  BY <1>1, <1>4, <1>5, <1>6

LEMMA LoadInfoTaken ==
  ASSUME NEW ts, Tokens(ts)
  PROVE  TakenFrom(ts, Options(ts), LoadInfo(ts))
<1> DEFINE n == OptionCount(ts)
           keys == [k \in 1..n |-> KeyAt(ts, k)]
           Up(i) == {KeyAt(ts, k) : k \in 1..i}
<1>1. n \in Nat
  BY OptionsCounted
<1>2. PICK L : Folded(L, "load", ts, NoOptions, keys, n) /\ LoadInfo(ts) = L[n]
  BY <1>1, LoadFold
<1> DEFINE S == {i \in 0..n : TakenFrom(ts, Up(i), L[i])}
<1>3. 0 \in S
  <2>1. Up(0) = {} /\ L[0] = NoOptions
    BY <1>2 DEF Folded
  <2>2. \A keyword : ~Gives(ts, {}, keyword) /\ LastOf(ts, {}, keyword) = <<>>
    BY DEF Gives, LastOf, Clauses
  <2>3. /\ IsLoad(NoOptions) /\ NoOptions.format = "" /\ NoOptions.skip = <<>>
        /\ \A f \in Texts : NoOptions[f] = <<>>
    BY DEF IsLoad, NoOptions, LoadFields, Texts
  <2>4. \A f \in Texts : Len(<<>>) < Sizes[f]
    BY DEF Texts, Sizes
  <2>5. TakenFrom(ts, {}, NoOptions)
    BY <2>2, <2>3, <2>4 DEF TakenFrom
  <2>6. QED
    BY <1>1, <2>1, <2>5
<1>4. ASSUME NEW i \in 1..n, i - 1 \in S PROVE i \in S
  <2> DEFINE e == KeyAt(ts, i)
  <2>1. e \in Nat /\ ts[e].k \in OptionKeys /\ IsSequence(ts[e + 1].t)
    BY OptionsCounted, OptionIs
  <2>2. Up(i) = Up(i - 1) \union {e}
    <3>1. 1..i = (1..(i - 1)) \union {i}
      BY <1>1
    <3>2. QED
      BY <3>1
  <2>3. \A j \in Up(i - 1) : j \in Nat /\ j < e
    <3>1. \A k \in 1..(i - 1) : k \in 1..n /\ KeyAt(ts, k) \in Nat
      BY <1>1, OptionsCounted
    <3>2. \A k \in 1..(i - 1) : KeyAt(ts, k) < e
      BY <1>1, FileIsSomewhere DEF KeyAt
    <3>3. QED
      BY <3>1, <3>2
  <2>4. L[i] = OptionTaken(L[i - 1], ts[e].k, ts[e + 1])
    <3>1. L[i] = Step("load", ts, L[i - 1], keys[i]) /\ keys[i] = e
      BY <1>2 DEF Folded
    <3> HIDE DEF e
    <3>2. QED
      BY <3>1 DEF Step
  <2>5. TakenFrom(ts, Up(i - 1), L[i - 1])
    BY <1>4
  <2> HIDE DEF e, Up
  <2>6. TakenFrom(ts, Up(i - 1) \union {e}, OptionTaken(L[i - 1], ts[e].k, ts[e + 1]))
    BY <2>1, <2>3, <2>5, ClauseTaken
  <2>7. TakenFrom(ts, Up(i), L[i])
    BY <2>2, <2>4, <2>6
  <2>8. i \in 0..n
    BY <1>1
  <2>9. QED
    BY <2>7, <2>8
<1>5. n \in S
  <2>1. \A i \in 1..n : i - 1 \in S => i \in S
    BY <1>4
  <2>2. n \in 0..n
    BY <1>1
  <2> HIDE DEF S, n
  <2>3. QED
    BY <1>1, <1>3, <2>1, <2>2, Climbs
<1>6. QED
  BY <1>2, <1>5 DEF Options

LEMMA ClauseGives ==
  ASSUME NEW ts, Tokens(ts), NEW keyword, Gives(ts, Options(ts), keyword)
  PROVE  /\ IsSequence(Given(ts, Options(ts), keyword))
         /\ keyword = "SKIP" => Given(ts, Options(ts), keyword) # <<>>
<1> DEFINE S == Clauses(ts, Options(ts), keyword)
           n == FileAt(ts) + 2 * OptionCount(ts)
           e == Max(S)
<1>1. n \in Nat /\ OptionCount(ts) \in Nat /\ FileAt(ts) \in Nat
  BY OptionsCounted, FileIsSomewhere
<1>2. \A i \in Options(ts) : i \in 0..n /\ OptionAt(ts, i)
  <2>1. SUFFICES ASSUME NEW k \in 1..OptionCount(ts)
                 PROVE  KeyAt(ts, k) \in 0..n /\ OptionAt(ts, KeyAt(ts, k))
    BY DEF Options
  <2>2. KeyAt(ts, k) \in Nat /\ OptionAt(ts, KeyAt(ts, k))
    BY OptionsCounted
  <2>3. KeyAt(ts, k) <= n
    BY <1>1 DEF KeyAt
  <2>4. QED
    BY <1>1, <2>2, <2>3
<1>3. S \subseteq 0..n /\ S # {} /\ \A i \in S : ts[i].k = keyword /\ OptionAt(ts, i)
  BY <1>2 DEF Clauses, Gives
<1>4. e \in S
  <2> HIDE DEF S, n
  <2>1. QED
    BY <1>1, <1>3, MaximumOf
<1>5. e \in Nat /\ ts[e].k = keyword /\ OptionAt(ts, e)
  <2> HIDE DEF e
  <2>1. QED
    BY <1>1, <1>3, <1>4
<1>6. Given(ts, Options(ts), keyword) = ts[e + 1].t
  BY DEF Given
<1> HIDE DEF e
<1>7. QED
  BY <1>5, <1>6, OptionIs

(* What the last clause with a keyword gives, if the statement has one.    *)
Asks(ts, keyword) == LastOf(ts, Options(ts), keyword)

LEMMA LoadGives ==
  ASSUME NEW ts, Tokens(ts), ~LoadInfo(ts).cut
  PROVE  /\ \A f \in Texts : /\ LoadInfo(ts)[f] = Asks(ts, ClauseOf[f])
                             /\ Len(LoadInfo(ts)[f]) < Sizes[f]
                             /\ IsSequence(LoadInfo(ts)[f])
         /\ LoadInfo(ts).skip = Asks(ts, "SKIP")
         /\ Gives(ts, Options(ts), "SKIP") => LoadInfo(ts).skip # <<>>
         /\ ~Gives(ts, Options(ts), "FORMAT") => LoadInfo(ts).format = ""
<1>1. TakenFrom(ts, Options(ts), LoadInfo(ts))
  BY LoadInfoTaken
<1>2. IsSequence(<<>>)
  BY DEF IsSequence
<1>3. \A keyword : IsSequence(Asks(ts, keyword))
  BY <1>2, ClauseGives DEF Asks, LastOf
<1>4. Gives(ts, Options(ts), "SKIP") => Asks(ts, "SKIP") # <<>>
  BY ClauseGives DEF Asks, LastOf
<1>5. QED
  BY <1>1, <1>3, <1>4 DEF TakenFrom, Asks

-----------------------------------------------------------------------------
(* A single character, as a value that quotify makes an argument of, is    *)
(* read as it would be alone.                                              *)
LEMMA OneStep ==
  ASSUME NEW t, t # <<>>, NEW p, p = [valid |-> TRUE, rest |-> t, text |-> <<>>]
  PROVE  /\ ReadChr(t).value = Invalid => ParseStep(p).text = <<>>
         /\ ReadChr(t).value # Invalid =>
              /\ ParseStep(p).valid
              /\ ParseStep(p).rest = SubSeq(t, ReadChr(t).used + 1, Len(t))
              /\ ParseStep(p).text = <<ReadChr(t).value>>
<1> DEFINE r == ReadChr(t)
           v == r.value
           rest == SubSeq(t, r.used + 1, Len(t))
<1>1. p.rest = t /\ p.valid = TRUE /\ p.text = <<>> /\ DOMAIN p = {"valid", "rest", "text"}
  OBVIOUS
<1>2. ReadChr(p.rest) = r
  BY <1>1
<1> HIDE DEF r
<1>3. v = Invalid => ParseStep(p) = [p EXCEPT !.valid = FALSE]
  BY <1>1, <1>2 DEF ParseStep
<1>4. v # Invalid => ParseStep(p) = [p EXCEPT !.rest = SubSeq(@, r.used + 1, Len(@)),
                                             !.text = Append(@, v)]
  BY <1>1, <1>2 DEF ParseStep
<1>5. Append(<<>>, v) = <<v>>
  OBVIOUS
<1> DEFINE next == [p EXCEPT !.rest = SubSeq(@, r.used + 1, Len(@)), !.text = Append(@, v)]
<1>6. next.valid = TRUE /\ next.rest = rest /\ next.text = <<v>>
  <2> DEFINE first == [p EXCEPT !.rest = rest]
  <2>1. DOMAIN first = DOMAIN p /\ first.valid = TRUE /\ first.rest = rest /\ first.text = <<>>
    <3> HIDE DEF rest
    <3>1. QED
      BY <1>1
  <2>2. next = [first EXCEPT !.text = Append(<<>>, v)]
    BY <1>1
  <2> HIDE DEF first, v, rest, next
  <2>3. QED
    BY <1>1, <1>5, <2>1, <2>2
<1>7. [p EXCEPT !.valid = FALSE].text = <<>>
  BY <1>1
<1> HIDE DEF next
<1>8. v # Invalid => ParseStep(p) = next
  BY <1>4 DEF next
<1>. QED BY <1>3, <1>6, <1>7, <1>8 DEF r

LEMMA ParsedFirst ==
  ASSUME NEW t, Len(t) \in Nat, Len(t) >= 1
  PROVE  Parsed(t, 1) = ParseStep([valid |-> TRUE, rest |-> t, text |-> <<>>])
<1>1. Min({1, Len(t)}) = 1
  BY DEF Min
<1>2. 1 \in Nat
  OBVIOUS
<1>3. \E L : /\ Folded(L, "parse", {}, [valid |-> TRUE, rest |-> t, text |-> <<>>],
                       [i \in 1..1 |-> i], 1)
             /\ Parsed(t, 1) = L[1]
  BY <1>1, <1>2, ParseFold, Zenon
<1>4. PICK L : Folded(L, "parse", {}, [valid |-> TRUE, rest |-> t, text |-> <<>>],
                      [i \in 1..1 |-> i], 1) /\ Parsed(t, 1) = L[1]
  BY <1>3, Zenon
<1>5. L[1] = Step("parse", {}, L[0], [i \in 1..1 |-> i][1])
      /\ L[0] = [valid |-> TRUE, rest |-> t, text |-> <<>>]
  BY <1>4 DEF Folded
<1>6. QED
  BY <1>4, <1>5 DEF Step

LEMMA ParsedOne ==
  ASSUME NEW t, Len(t) \in Nat, Len(t) >= 1, Parsed(t, 1).text # <<>>
  PROVE  Parsed(t, 1).text = <<ReadChr(t).value>>
<1> DEFINE p == [valid |-> TRUE, rest |-> t, text |-> <<>>]
<1>1. Parsed(t, 1) = ParseStep(p)
  BY ParsedFirst
<1>2. t # <<>> /\ p = [valid |-> TRUE, rest |-> t, text |-> <<>>]
  OBVIOUS
<1> HIDE DEF p
<1>3. /\ ReadChr(t).value = Invalid => ParseStep(p).text = <<>>
      /\ ReadChr(t).value # Invalid => ParseStep(p).text = <<ReadChr(t).value>>
  BY <1>2, OneStep
<1>4. QED
  BY <1>1, <1>3

LEMMA QuoteKinds ==
  ASSUME NEW s, NEW most
  PROVE  QuoteString(s, most).kind \in {"text", "warned", "aborts"}
  BY DEF QuoteString, Text, Warned, Aborts

LEMMA ClosedString ==
  ASSUME NEW s, s # <<>>, s[1] = SQ, NEW e \in Nat, Close(s) = e, e # 0, e # 2,
         NEW t, SubSeq(s, 2, e - 1) = t
  PROVE  /\ Denotes(Parsed(t, 1)) => QuoteString(s, 1) = Text(Parsed(t, 1).text)
         /\ ~Denotes(Parsed(t, 1)) => QuoteString(s, 1) = Warned
  BY DEF QuoteString

LEMMA PlainQuoted ==
  ASSUME NEW x, x \notin {SQ, DQ}, QuoteString(Quotify(<<x>>), 1).kind = "text"
  PROVE  /\ Denotes(Parsed(<<x>>, 1))
         /\ QuoteString(Quotify(<<x>>), 1).text = Parsed(<<x>>, 1).text
<1> DEFINE s == <<SQ, x, SQ>>
           p0 == [close |-> 0, protected |-> FALSE]
<1>1. Quotify(<<x>>) = s
  <2>1. ~AlreadyQuoted(<<x>>) /\ <<x>> # <<>> /\ <<x>> \notin {<<SQ>>, <<DQ>>}
    BY DEF AlreadyQuoted, SQ, DQ
  <2>2. Quotify(<<x>>) = <<SQ>> \o <<x>> \o <<SQ>>
    BY <2>1 DEF Quotify
  <2>3. QED
    BY <2>2
<1>2. Len(s) = 2 + 1 /\ s[1] = SQ /\ s[2] = x /\ s[3] = SQ /\ s # <<>>
  OBVIOUS
<1>3. SubSeq(s, 2, 2) = <<x>>
  <2>1. IsSequence(s) /\ 2 <= Len(s)
    BY DEF IsSequence
  <2>2. s[2] = x
    OBVIOUS
  <2> HIDE DEF s
  <2>3. SubSeq(s, 2, 2) = [i \in 1..(2 - 2 + 1) |-> s[2 + i - 1]]
    BY <2>1, PartOf
  <2>4. 2 - 2 + 1 = 1 /\ \A i \in 1..1 : s[2 + i - 1] = x
    BY <2>2
  <2>5. <<x>> = [i \in 1..1 |-> x]
    OBVIOUS
  <2>6. QED
    BY <2>3, <2>4, <2>5
<1> HIDE DEF s
<1>4. PICK L : Folded(L, "close", s, p0, [i \in 1..2 |-> i + 1], 2) /\ Close(s) = L[2].close
  BY <1>2, CloseFold
<1>5. ClosesAt(L[0], 0) /\ L[1] = CloseStep(s, L[0], 2) /\ L[2] = CloseStep(s, L[1], 3)
  BY <1>4 DEF Folded, Step, ClosesAt
<1> HIDE DEF p0
<1>6. CASE x = BackSlash
  <2>1. Protected(L[1])
    <3>1. Protected(CloseStep(s, L[0], 2))
      BY <1>2, <1>5, <1>6, CloseSteps
    <3>2. QED
      BY <1>5, <3>1
  <2>2. L[2].close = 0
    <3>1. ClosesAt(CloseStep(s, L[1], 3), 0)
      BY <2>1, CloseSteps
    <3>2. QED
      BY <1>5, <3>1 DEF ClosesAt
  <2>3. QuoteString(s, 1) = Warned
    BY <1>2, <1>4, <2>2 DEF QuoteString, SQ
  <2>4. QED
    BY <1>1, <2>3 DEF Warned
<1>7. CASE x # BackSlash
  <2>1. ClosesAt(L[1], 0)
    <3>1. ClosesAt(CloseStep(s, L[0], 2), IF s[2] = s[1] THEN 2 ELSE 0)
      BY <1>2, <1>5, <1>7, CloseSteps
    <3>2. QED
      BY <1>2, <1>5, <3>1
  <2>2. L[2].close = 3
    <3>1. s[3] # BackSlash
      BY <1>2 DEF SQ, BackSlash
    <3>2. ClosesAt(CloseStep(s, L[1], 3), IF s[3] = s[1] THEN 3 ELSE 0)
      BY <2>1, <3>1, CloseSteps
    <3>3. QED
      BY <1>2, <1>5, <3>2 DEF ClosesAt
  <2> DEFINE one == <<x>>
  <2>3. SubSeq(s, 2, 3 - 1) = one
    BY <1>3
  <2>4. one = <<x>> /\ 3 \in Nat /\ 3 # 0 /\ 3 # 2
    OBVIOUS
  <2> HIDE DEF one
  <2>5. /\ Denotes(Parsed(one, 1)) => QuoteString(s, 1) = Text(Parsed(one, 1).text)
        /\ ~Denotes(Parsed(one, 1)) => QuoteString(s, 1) = Warned
    <3>1. Close(s) = 3
      BY <1>4, <2>2
    <3>2. QED
      BY <1>2, <2>3, <2>4, <3>1, ClosedString
  <2>6. QuoteString(s, 1).kind = "text"
    BY <1>1
  <2>7. \A u : Text(u).text = u /\ Warned.kind # "text"
    BY DEF Text, Warned
  <2>8. Denotes(Parsed(one, 1)) /\ QuoteString(s, 1).text = Parsed(one, 1).text
    BY <2>5, <2>6, <2>7
  <2>9. QED
    BY <1>1, <2>4, <2>8
<1>8. QED
  BY <1>6, <1>7

LEMMA MarkQuoted ==
  ASSUME NEW x \in {SQ, DQ}
  PROVE  QuoteString(Quotify(<<x>>), 1) = Text(<<x>>) /\ Parsed(<<x>>, 1).text = <<x>>
<1> DEFINE s == <<SQ, BackSlash, x, SQ>>
           p0 == [close |-> 0, protected |-> FALSE]
           t == <<BackSlash, x>>
<1>1. Quotify(<<x>>) = s
  <2>1. ~AlreadyQuoted(<<x>>) /\ <<x>> # <<>> /\ <<x>> \in {<<SQ>>, <<DQ>>} /\ <<x>>[1] = x
    BY DEF AlreadyQuoted
  <2>2. QED
    BY <2>1 DEF Quotify
<1>2. Len(s) = 3 + 1 /\ s[1] = SQ /\ s[2] = BackSlash /\ s[3] = x /\ s[4] = SQ /\ s # <<>>
  OBVIOUS
<1>3. SubSeq(s, 2, 3) = t
  <2>1. IsSequence(s) /\ 3 <= Len(s)
    BY DEF IsSequence
  <2>2. s[2] = BackSlash /\ s[3] = x
    OBVIOUS
  <2> HIDE DEF s
  <2>3. SubSeq(s, 2, 3) = [i \in 1..(3 - 2 + 1) |-> s[2 + i - 1]]
    BY <2>1, PartOf
  <2>4. t = [i \in 1..2 |-> t[i]] /\ t[1] = BackSlash /\ t[2] = x
    OBVIOUS
  <2> HIDE DEF t
  <2>5. \A i \in 1..2 : s[2 + i - 1] = t[i]
    BY <2>2, <2>4
  <2>6. QED
    BY <2>3, <2>4, <2>5
<1> HIDE DEF s
<1>4. PICK L : Folded(L, "close", s, p0, [i \in 1..3 |-> i + 1], 3) /\ Close(s) = L[3].close
  BY <1>2, CloseFold
<1>5. ClosesAt(L[0], 0) /\ L[1] = CloseStep(s, L[0], 2) /\ L[2] = CloseStep(s, L[1], 3)
      /\ L[3] = CloseStep(s, L[2], 4)
  BY <1>4 DEF Folded, Step, ClosesAt
<1> HIDE DEF p0
<1>6. Protected(L[1])
  <2>1. Protected(CloseStep(s, L[0], 2))
    BY <1>2, <1>5, CloseSteps
  <2>2. QED
    BY <1>5, <2>1
<1>7. ClosesAt(L[2], 0)
  <2>1. ClosesAt(CloseStep(s, L[1], 3), 0)
    BY <1>6, CloseSteps
  <2>2. QED
    BY <1>5, <2>1
<1>8. L[3].close = 4
  <2>1. s[4] # BackSlash
    BY <1>2 DEF SQ, BackSlash
  <2>2. ClosesAt(CloseStep(s, L[2], 4), IF s[4] = s[1] THEN 4 ELSE 0)
    BY <1>7, <2>1, CloseSteps
  <2>3. QED
    BY <1>2, <1>5, <2>2 DEF ClosesAt
<1>9. SubSeq(s, 2, 4 - 1) = t
  BY <1>3
<1>10. /\ Denotes(Parsed(t, 1)) => QuoteString(s, 1) = Text(Parsed(t, 1).text)
       /\ ~Denotes(Parsed(t, 1)) => QuoteString(s, 1) = Warned
  <2> HIDE DEF t
  <2>1. 4 \in Nat /\ 4 # 0 /\ 4 # 2 /\ Close(s) = 4
    BY <1>4, <1>8
  <2>2. QED
    BY <1>2, <1>9, <2>1, ClosedString
<1>11. ReadChr(t) = Read(x, 2)
  <2>1. t[1] = BackSlash /\ t # <<BackSlash>> /\ t[2] = x
    BY DEF BackSlash
  <2>2. x # LowerX /\ x \notin 48..57 /\ x \in DOMAIN Escapes /\ Escapes[x] = x
    BY DEF LowerX, Escapes, SQ, DQ
  <2> HIDE DEF t
  <2>3. QED
    BY <2>1, <2>2 DEF ReadChr
<1>12. Parsed(t, 1).valid /\ Parsed(t, 1).rest = <<>> /\ Parsed(t, 1).text = <<x>>
  <2> DEFINE p == [valid |-> TRUE, rest |-> t, text |-> <<>>]
  <2>1. Len(t) = 2 /\ t # <<>> /\ SubSeq(t, 2 + 1, 2) = <<>>
    OBVIOUS
  <2>2. Parsed(t, 1) = ParseStep(p)
    BY <2>1, ParsedFirst
  <2>3. ReadChr(t).value = x /\ ReadChr(t).used = 2 /\ x # Invalid
    BY <1>11 DEF Read, Invalid, SQ, DQ
  <2> HIDE DEF t
  <2>4. p = [valid |-> TRUE, rest |-> t, text |-> <<>>]
    OBVIOUS
  <2> HIDE DEF p
  <2>5. /\ ParseStep(p).valid
        /\ ParseStep(p).rest = SubSeq(t, ReadChr(t).used + 1, Len(t))
        /\ ParseStep(p).text = <<ReadChr(t).value>>
    BY <2>1, <2>3, <2>4, OneStep
  <2>6. QED
    BY <2>1, <2>2, <2>3, <2>5
<1>13. Parsed(<<x>>, 1).text = <<x>>
  <2> DEFINE one == <<x>>
             p == [valid |-> TRUE, rest |-> one, text |-> <<>>]
  <2>1. Len(one) = 1 /\ one # <<>> /\ one[1] = x
    OBVIOUS
  <2> HIDE DEF one
  <2>2. Parsed(one, 1) = ParseStep(p)
    BY <2>1, ParsedFirst
  <2>3. x # BackSlash /\ x # 255 /\ x # Invalid
    BY DEF BackSlash, Invalid, SQ, DQ
  <2>4. ReadChr(one) = Read(x, 1)
    BY <2>1, <2>3 DEF ReadChr
  <2>5. ReadChr(one).value = x
    BY <2>4 DEF Read
  <2>6. p = [valid |-> TRUE, rest |-> one, text |-> <<>>]
    OBVIOUS
  <2> HIDE DEF p
  <2>7. ParseStep(p).text = <<ReadChr(one).value>>
    BY <2>1, <2>3, <2>5, <2>6, OneStep
  <2>8. QED
    BY <2>2, <2>5, <2>7 DEF one
<1>14. QED
  <2> HIDE DEF t, s
  <2>1. QED
    BY <1>1, <1>10, <1>12, <1>13 DEF Denotes, Text

(* Hence what a separator is set to from a value of one character.         *)
LEMMA QuoteOne ==
  ASSUME NEW x, QuoteString(Quotify(<<x>>), 1).kind = "text"
  PROVE  Parsed(<<x>>, 1).text = <<QuoteString(Quotify(<<x>>), 1).text[1]>>
<1>1. CASE x \in {SQ, DQ}
  BY <1>1, MarkQuoted DEF Text
<1>2. CASE x \notin {SQ, DQ}
  <2> DEFINE one == <<x>>
  <2>1. Parsed(one, 1).text # <<>> /\ QuoteString(Quotify(one), 1).text = Parsed(one, 1).text
    BY <1>2, PlainQuoted DEF Denotes
  <2>2. Len(one) \in Nat /\ Len(one) >= 1
    OBVIOUS
  <2> HIDE DEF one
  <2>3. PICK v : Parsed(one, 1).text = <<v>>
    BY <2>1, <2>2, ParsedOne
  <2>4. <<v>>[1] = v
    OBVIOUS
  <2>5. QED
    BY <2>1, <2>3, <2>4 DEF one
<1>3. QED
  BY <1>1, <1>2

-----------------------------------------------------------------------------
(* set_load_context, when nobody is warned: each setter leaves everything  *)
(* but its own settings.                                                   *)
Quiet(r) == r.said \cap {"warned", "aborted", "fatal"} = {}
AllBut(c, d, fields) ==
  /\ DOMAIN d = DOMAIN c
  /\ \A f \in DOMAIN c : f \notin fields => d[f] = c[f]

LEMMA QuietThen ==
  ASSUME NEW first, NEW second, Quiet(Then(first, second))
  PROVE  Quiet(first) /\ Quiet(second) /\ Then(first, second).result = second.result
  BY DEF Quiet, Then, Outcome

LEMMA AllButItself == ASSUME NEW c, NEW fields PROVE AllBut(c, c, fields)
  BY DEF AllBut

LEMMA OneSet ==
  ASSUME NEW c, NEW f, NEW v
  PROVE  /\ AllBut(c, [c EXCEPT ![f] = v], {f})
         /\ f \in DOMAIN c => [c EXCEPT ![f] = v][f] = v
  BY DEF AllBut

LEMMA QuotifiedBegins ==
  ASSUME NEW x
  PROVE  Quotable(<<x>>, 20) /\ ~Shows(Quotify(<<x>>))
<1>1. Quotable(<<x>>, 20)
  BY DEF Quotable
<1>2. ~AlreadyQuoted(<<x>>) /\ <<x>> # <<>>
  BY DEF AlreadyQuoted
<1>3. \/ Quotify(<<x>>) = <<SQ, BackSlash, <<x>>[1], SQ>>
      \/ Quotify(<<x>>) = <<SQ>> \o <<x>> \o <<SQ>>
  BY <1>2 DEF Quotify
<1>4. Quotify(<<x>>) # <<>> /\ Quotify(<<x>>)[1] = SQ
  <2>1. CASE Quotify(<<x>>) = <<SQ, BackSlash, <<x>>[1], SQ>>
    BY <2>1
  <2>2. CASE Quotify(<<x>>) = <<SQ>> \o <<x>> \o <<SQ>>
    <3>1. Quotify(<<x>>) = <<SQ, x, SQ>>
      BY <2>2
    <3>2. QED
      BY <3>1
  <2>3. QED
    BY <1>3, <2>1, <2>2
<1>5. QED
  BY <1>1, <1>4 DEF Shows, SQ

LEMMA SeparatorSet ==
  ASSUME NEW c, NEW field \in Separators, field \in DOMAIN c, NEW x,
         Quiet(SetQuoted(c, field, <<x>>))
  PROVE  /\ AllBut(c, SetQuoted(c, field, <<x>>).result, {field})
         /\ <<SetQuoted(c, field, <<x>>).result[field]>> = Parsed(<<x>>, 1).text
<1> DEFINE q == QuoteString(Quotify(<<x>>), 1)
           y == q.text[1]
<1>1. field # "eor"
  BY DEF Separators
<1>2. SetQuoted(c, field, <<x>>) = Judged(c, field, q)
  BY <1>1, QuotifiedBegins DEF SetQuoted, SetText, SetSeparator, QuoteChar
<1>3. q.kind \in {"text", "warned", "aborts"}
  BY QuoteKinds
<1>4. q.kind = "text" => Parsed(<<x>>, 1).text = <<y>>
  BY QuoteOne
<1> HIDE DEF q
<1>5. Quiet(Judged(c, field, q))
  BY <1>2
<1>6. q.kind = "text" /\ ~(\E f \in Separators \ {field} : q.text[1] = c[f])
  BY <1>3, <1>5 DEF Judged, Quiet, Outcome
<1>7. Judged(c, field, q).result = [c EXCEPT ![field] = y]
  BY <1>1, <1>6 DEF Judged, Unsaid, Outcome
<1> HIDE DEF y
<1> DEFINE d == [c EXCEPT ![field] = y]
<1>8. AllBut(c, d, {field}) /\ d[field] = y
  BY OneSet
<1> HIDE DEF d
<1>9. SetQuoted(c, field, <<x>>).result = d
  BY <1>2, <1>7 DEF d
<1>10. QED
  BY <1>4, <1>6, <1>8, <1>9

LEMMA EorSet ==
  ASSUME NEW c, NEW value
  PROVE  AllBut(c, SetQuoted(c, "eor", value).result, {"eor"})
<1>1. ASSUME NEW q PROVE AllBut(c, Judged(c, "eor", q).result, {"eor"})
  BY OneSet, AllButItself DEF Judged, Unsaid, Outcome
<1>2. QED
  BY <1>1, AllButItself DEF SetQuoted, SetText, SetEor, Outcome

LEMMA OneOperator ==
  ASSUME NEW modes, NEW mode, NEW op
  PROVE  OperatedAll(modes, mode, <<op>>) = Then(Unsaid(modes), OperatedBoth(modes, mode, op))
<1> DEFINE ops == <<op>>
           n == 1
<1>1. ops # <<>> /\ DOMAIN ops = 1..n /\ ops[1] = op /\ n \in Nat
  OBVIOUS
<1> HIDE DEF ops, n
<1>2. PICK L : Folded(L, "ops", mode, Unsaid(modes), ops, n) /\ OperatedAll(modes, mode, ops) = L[n]
  BY <1>1, OpsFold
<1>3. L[0] = Unsaid(modes) /\ L[1] = Then(L[0], OperatedBoth(L[0].result, mode, ops[1]))
  BY <1>2 DEF Folded, Step, n
<1>4. Unsaid(modes).result = modes
  BY DEF Unsaid, Outcome
<1>5. QED
  BY <1>1, <1>2, <1>3, <1>4 DEF ops, n

(* A mode other than bmark is changed alone.                               *)
LEMMA ModeSetAlone ==
  ASSUME NEW c, "modes" \in DOMAIN c, NEW mode, mode # "bmark", NEW op
  PROVE  /\ AllBut(c, SetMode(c, mode, <<op>>).result, {"modes"})
         /\ AllBut(c.modes, SetMode(c, mode, <<op>>).result.modes, {mode})
         /\ SetMode(c, mode, <<op>>).result.modes = Operated(c.modes, mode, op).result
         /\ SetMode(c, mode, <<op>>).said = Operated(c.modes, mode, op).said
<1> DEFINE all == OperatedAll(c.modes, mode, <<op>>)
           one == Operated(c.modes, mode, op)
           next == [c EXCEPT !["modes"] = all.result]
<1>1. all = Then(Unsaid(c.modes), one)
  <2>1. OperatedAll(c.modes, mode, <<op>>)
          = Then(Unsaid(c.modes), OperatedBoth(c.modes, mode, op))
    BY OneOperator
  <2>2. OperatedBoth(c.modes, mode, op) = one
    BY DEF OperatedBoth
  <2>3. QED
    BY <2>1, <2>2
<1>2. SetMode(c, mode, <<op>>) = Outcome(next, all.said)
  BY DEF SetMode
<1>3. AllBut(c.modes, one.result, {mode})
  <2>1. \/ one.result = c.modes
        \/ \E v : one.result = [c.modes EXCEPT ![mode] = v]
    BY DEF Operated, Unsaid, Outcome
  <2> HIDE DEF one
  <2>2. CASE one.result = c.modes
    BY <2>2, AllButItself
  <2>3. ASSUME NEW v, one.result = [c.modes EXCEPT ![mode] = v]
        PROVE  AllBut(c.modes, one.result, {mode})
    <3>1. AllBut(c.modes, [c.modes EXCEPT ![mode] = v], {mode})
      BY OneSet
    <3>2. QED
      BY <2>3, <3>1
  <2>4. QED
    BY <2>1, <2>2, <2>3
<1> HIDE DEF all, one
<1>4. AllBut(c, next, {"modes"}) /\ next.modes = all.result
  BY OneSet
<1> HIDE DEF next
<1>5. SetMode(c, mode, <<op>>).result = next /\ SetMode(c, mode, <<op>>).said = all.said
  BY <1>2 DEF Outcome
<1>6. all.result = one.result /\ all.said = one.said
  BY <1>1 DEF Then, Unsaid, Outcome
<1>7. QED
  BY <1>3, <1>4, <1>5, <1>6 DEF one

One(text) == text = <<>> \/ \E x : text = <<x>>

(* A separator that is asked for, or not.                                  *)
Becomes(c, d, text, field) ==
  IF text = <<>> THEN d[field] = c[field] ELSE <<d[field]>> = Parsed(text, 1).text

LEMMA AskedSeparator ==
  ASSUME NEW r, NEW load, NEW field \in Separators, field \in DOMAIN r.result,
         One(load[field]), Quiet(Asked(r, load, field))
  PROVE  /\ Quiet(r)
         /\ AllBut(r.result, Asked(r, load, field).result, {field})
         /\ Becomes(r.result, Asked(r, load, field).result, load[field], field)
<1>1. CASE load[field] = <<>>
  BY <1>1, AllButItself DEF Asked, Becomes
<1>2. ASSUME NEW x, load[field] = <<x>>
      PROVE  /\ Quiet(r)
             /\ AllBut(r.result, Asked(r, load, field).result, {field})
             /\ Becomes(r.result, Asked(r, load, field).result, load[field], field)
  <2> DEFINE c == r.result
             second == SetQuoted(c, field, <<x>>)
  <2>1. <<x>> # <<>>
    OBVIOUS
  <2>2. Asked(r, load, field) = Then(r, second)
    BY <1>2, <2>1 DEF Asked
  <2>3. Quiet(Then(r, second))
    BY <2>2
  <2>4. Quiet(r) /\ Quiet(second) /\ Then(r, second).result = second.result
    <3> HIDE DEF second
    <3>1. QED
      BY <2>3, QuietThen
  <2>5. /\ AllBut(c, second.result, {field})
        /\ <<second.result[field]>> = Parsed(<<x>>, 1).text
    BY <2>4, SeparatorSet
  <2> HIDE DEF second, c
  <2>6. QED
    BY <1>2, <2>1, <2>2, <2>4, <2>5 DEF Becomes, c
<1>3. QED
  BY <1>1, <1>2 DEF One

LEMMA AskedEor ==
  ASSUME NEW r, NEW load, Quiet(Asked(r, load, "eor"))
  PROVE  Quiet(r) /\ AllBut(r.result, Asked(r, load, "eor").result, {"eor"})
<1> DEFINE second == SetQuoted(r.result, "eor", load.eor)
<1>1. AllBut(r.result, second.result, {"eor"})
  BY EorSet
<1>2. Asked(r, load, "eor") = r \/ Asked(r, load, "eor") = Then(r, second)
  BY DEF Asked
<1> HIDE DEF second
<1>3. QED
  BY <1>1, <1>2, QuietThen, AllButItself

LEMMA AskedFormat ==
  ASSUME NEW r, {"delim", "modes"} \subseteq DOMAIN r.result, NEW load, Quiet(Formatted(r, load))
  PROVE  LET c == r.result
             d == Formatted(r, load).result
         IN  /\ Quiet(r)
             /\ AllBut(c, d, {"delim", "modes"})
             /\ d.delim = IF load.format = "csv" THEN 44 ELSE c.delim
             /\ AllBut(c.modes, d.modes, {"format"})
             /\ load.format = "" => d.modes = c.modes
<1> DEFINE c == r.result
           op == load.format
           set == SetFormat(c, op)
<1>1. CASE op = ""
  <2>1. Formatted(r, load) = r
    BY <1>1 DEF Formatted
  <2>2. QED
    BY <1>1, <2>1, AllButItself
<1>2. CASE op # ""
  <2>1. Formatted(r, load) = Then(r, set)
    BY <1>2 DEF Formatted
  <2>2. Quiet(r) /\ Quiet(set) /\ Then(r, set).result = set.result
    <3>1. Quiet(Then(r, set))
      BY <2>1
    <3> HIDE DEF set
    <3>2. QED
      BY <3>1, QuietThen
  <2>3. CASE op \notin {"csv", "db2"}
    <3>1. set = SetMode(c, "format", <<op>>)
      BY <2>3 DEF SetFormat
    <3> HIDE DEF c, op, set
    <3>2. /\ AllBut(c, set.result, {"modes"})
          /\ AllBut(c.modes, set.result.modes, {"format"})
      BY <3>1, ModeSetAlone DEF c
    <3>3. QED
      BY <1>2, <2>1, <2>2, <2>3, <3>2 DEF AllBut, c, op
  <2>4. CASE op \in {"csv", "db2"}
    <3> DEFINE first == SetQuoted(c, "delim", Comma)
               cc == first.result
               csv == SetMode(cc, "format", <<"quote">>)
               named == SetName(cc, "date", "yyyy-mm-dd")
               db2 == SetMode(named, "format", <<op>>)
    <3>1. set = CommaFormat(first, op)
      BY <2>4 DEF SetFormat
    <3>2. op # "db2"
      <4>1. SUFFICES ASSUME op = "db2" PROVE FALSE
        OBVIOUS
      <4>2. set = Then(first, db2)
        BY <3>1, <4>1 DEF CommaFormat
      <4>3. "modes" \in DOMAIN named
        <5>1. AllBut(c, cc, {"delim"}) \/ cc = c
          BY DEF SetQuoted, SetText, SetSeparator, Judged, AllBut, Unsaid, Outcome
        <5>2. "modes" \in DOMAIN cc
          BY <5>1 DEF AllBut
        <5> HIDE DEF cc
        <5>3. QED
          BY <5>2 DEF SetName
      <4>4. db2.said = Operated(named.modes, "format", op).said
        <5> HIDE DEF named, op
        <5>1. SetMode(named, "format", <<op>>).said = Operated(named.modes, "format", op).said
          BY <4>3, ModeSetAlone
        <5>2. QED
          BY <5>1
      <4>5. "fatal" \in db2.said
        BY <4>1, <4>4 DEF Operated, Outcome
      <4> HIDE DEF db2, first, set
      <4>6. QED
        BY <2>2, <4>2, <4>5 DEF Then, Outcome, Quiet
    <3>3. set = Then(first, csv)
      BY <2>4, <3>1, <3>2 DEF CommaFormat
    <3>4. Quiet(first) /\ Quiet(csv) /\ set.result = csv.result
      <4> HIDE DEF first, csv, set
      <4>1. QED
        BY <2>2, <3>3, QuietThen
    <3>5. /\ AllBut(c, cc, {"delim"})
          /\ <<cc.delim>> = Parsed(<<44>>, 1).text
      BY <3>4, SeparatorSet DEF Comma, Separators
    <3>6. Parsed(<<44>>, 1).text = <<44>>
      <4> DEFINE one == <<44>>
      <4>1. Len(one) \in Nat /\ Len(one) >= 1 /\ one[1] = 44
        OBVIOUS
      <4> HIDE DEF one
      <4>2. Parsed(one, 1).text # <<>>
        <5>1. \A v : <<v>> # <<>>
          OBVIOUS
        <5> HIDE DEF cc
        <5>2. QED
          BY <3>5, <5>1 DEF one
      <4>3. Parsed(one, 1).text = <<ReadChr(one).value>>
        BY <4>1, <4>2, ParsedOne
      <4>4. ReadChr(one).value = 44
        BY <4>1 DEF ReadChr, BackSlash, Read
      <4>5. QED
        BY <4>3, <4>4 DEF one
    <3>7. cc.delim = 44
      BY <3>5, <3>6
    <3> HIDE DEF cc
    <3>8. "modes" \in DOMAIN cc /\ cc.modes = c.modes
      BY <3>5 DEF AllBut
    <3>9. /\ AllBut(cc, csv.result, {"modes"})
          /\ AllBut(cc.modes, csv.result.modes, {"format"})
      BY <3>8, ModeSetAlone
    <3> HIDE DEF csv
    <3>10. AllBut(c, csv.result, {"delim", "modes"}) /\ csv.result.delim = 44
      BY <3>5, <3>7, <3>9 DEF AllBut
    <3>11. QED
      BY <1>2, <2>1, <2>2, <2>4, <3>2, <3>4, <3>8, <3>9, <3>10
  <2>5. QED
    BY <2>3, <2>4
<1>3. QED
  BY <1>1, <1>2

LEMMA AskedTag ==
  ASSUME NEW r, "names" \in DOMAIN r.result, "record" \in DOMAIN r.result.names, NEW load,
         Quiet(Tagged(r, load))
  PROVE  LET d == Tagged(r, load).result
         IN  /\ Quiet(r)
             /\ AllBut(r.result, d, {"names"})
             /\ d.names.record = IF load.tag = <<>> THEN r.result.names.record ELSE "tag"
<1> DEFINE c == r.result
           names == [c.names EXCEPT !["record"] = "tag"]
           e == [c EXCEPT !["names"] = names]
<1>1. CASE load.tag = <<>>
  BY <1>1, AllButItself DEF Tagged
<1>2. CASE load.tag # <<>>
  <2>1. Tagged(r, load) = Then(r, Unsaid(e))
    BY <1>2 DEF Tagged, SetName
  <2>2. AllBut(c, e, {"names"}) /\ e.names = names
    BY OneSet
  <2>3. names.record = "tag"
    BY OneSet
  <2> HIDE DEF e
  <2>4. Then(r, Unsaid(e)).result = e
    BY DEF Then, Unsaid, Outcome
  <2>5. Quiet(r)
    BY <2>1, QuietThen
  <2>6. QED
    BY <1>2, <2>1, <2>2, <2>3, <2>4, <2>5
<1>3. QED
  BY <1>1, <1>2

LEMMA AskedSkip ==
  ASSUME NEW r, "sizes" \in DOMAIN r.result, "skip" \in DOMAIN r.result.sizes, NEW load,
         Quiet(Skipped(r, load))
  PROVE  LET d == Skipped(r, load).result
         IN  /\ Quiet(r)
             /\ AllBut(r.result, d, {"sizes"})
             /\ d.sizes.skip = IF load.skip = <<>> THEN 0 ELSE load.skip[1]
<1> DEFINE c == r.result
           arg == IF load.skip = <<>> THEN <<0>> ELSE load.skip
           number == AtLeast(arg[1], 0)
           n == number.result
           sizes == [c.sizes EXCEPT !["skip"] = n]
           e == [c EXCEPT !["sizes"] = sizes]
           set == SetSize(c, "skip", arg)
<1>1. Skipped(r, load) = Then(r, set)
  BY DEF Skipped
<1>2. arg # <<>> /\ arg[1] = IF load.skip = <<>> THEN 0 ELSE load.skip[1]
  OBVIOUS
<1> HIDE DEF arg
<1>3. set = Then(number, Unsaid(e))
  <2> DEFINE Keep == CASE n = 0 /\ "skip" \in {"ibase", "tsize"} -> Outcome(c, {"shown"})
                       [] "skip" = "ibase" /\ (n = 1 \/ n > 36) ->
                            Unsaid([c EXCEPT !.sizes["skip"] = 0])
                       [] OTHER -> Unsaid([c EXCEPT !.sizes["skip"] = n])
  <2>1. set = IF arg = <<>> THEN Outcome(c, {"shown"}) ELSE Then(number, Keep)
    BY DEF SetSize
  <2>2. Keep = Unsaid([c EXCEPT !.sizes["skip"] = n])
    <3> HIDE DEF n
    <3>1. QED
      OBVIOUS
  <2>3. [c EXCEPT !.sizes["skip"] = n] = e
    OBVIOUS
  <2> HIDE DEF Keep, number, e
  <2>4. QED
    BY <1>2, <2>1, <2>2, <2>3
<1>4. AllBut(c, e, {"sizes"}) /\ e.sizes = sizes
  BY OneSet
<1>5. sizes.skip = n
  BY OneSet
<1> HIDE DEF e, sizes, n
<1>6. Quiet(r) /\ Quiet(set) /\ Then(r, set).result = set.result
  <2> HIDE DEF set
  <2>1. QED
    BY <1>1, QuietThen
<1>7. Quiet(number) /\ set.result = e
  <2>1. Unsaid(e).result = e
    BY DEF Unsaid, Outcome
  <2> HIDE DEF number, set
  <2>2. QED
    BY <1>3, <1>6, <2>1, QuietThen
<1>8. n = arg[1]
  BY <1>7 DEF n, AtLeast, Quiet, Unsaid, Outcome
<1>9. QED
  BY <1>1, <1>2, <1>4, <1>5, <1>6, <1>7, <1>8

(* What LOAD, RELOAD or UNLOAD make of a context if nobody was warned.     *)
Obeys(c, d, load) ==
  /\ \A f \in {"escape", "quote"} : Becomes(c, d, load[f], f)
  /\ load.format = "csv" => d.delim = 44
  /\ load.format # "csv" => Becomes(c, d, load.delim, "delim")
  /\ d.names.record = IF load.tag = <<>> THEN c.names.record ELSE "tag"
  /\ d.sizes.skip = IF load.skip = <<>> THEN 0 ELSE load.skip[1]
  /\ AllBut(c.modes, d.modes, {"format"})
  /\ load.format = "" => d.modes = c.modes

LEMMA AppliedObeys ==
  ASSUME NEW c, IsContext(c), NEW load, \A f \in Separators : One(load[f]),
         Quiet(Applied(c, load))
  PROVE  Obeys(c, Applied(c, load).result, load)
<1> DEFINE r0 == Unsaid(c)
           r1 == Asked(r0, load, "delim")
           r2 == Asked(r1, load, "quote")
           r3 == Asked(r2, load, "escape")
           r4 == Asked(r3, load, "eor")
           r5 == Formatted(r4, load)
           r6 == Tagged(r5, load)
           r7 == Skipped(r6, load)
           Has(r) == /\ {"delim", "escape", "quote", "modes", "sizes", "names"} \subseteq DOMAIN r.result
                     /\ DOMAIN r.result = DOMAIN c
<1>1. Applied(c, load) = r7
  BY DEF Applied
<1>2. r0.result = c
  BY DEF Unsaid, Outcome
<1>3. Has(r0) /\ "skip" \in DOMAIN c.sizes /\ "record" \in DOMAIN c.names
  BY <1>2 DEF IsContext, Fields, Separators
<1> HIDE DEF r0
<1>4. ASSUME NEW r, Has(r), NEW field \in Separators, Quiet(Asked(r, load, field))
      PROVE  /\ Quiet(r)
             /\ AllBut(r.result, Asked(r, load, field).result, {field})
             /\ Becomes(r.result, Asked(r, load, field).result, load[field], field)
             /\ Has(Asked(r, load, field))
  <2>1. field \in DOMAIN r.result /\ One(load[field])
    BY <1>4 DEF Separators
  <2>2. /\ Quiet(r)
        /\ AllBut(r.result, Asked(r, load, field).result, {field})
        /\ Becomes(r.result, Asked(r, load, field).result, load[field], field)
    BY <1>4, <2>1, AskedSeparator
  <2>3. QED
    BY <1>4, <2>2 DEF AllBut
<1>5. ASSUME NEW r, NEW e, Has(r), NEW fields, AllBut(r.result, e.result, fields) PROVE Has(e)
  BY <1>5 DEF AllBut
<1> DEFINE Same(r, e, f) == e.result[f] = r.result[f]
<1>6. ASSUME NEW r, NEW e, Has(r), NEW fields, AllBut(r.result, e.result, fields)
      PROVE  \A f \in {"delim", "escape", "quote", "modes", "sizes", "names"} \ fields : Same(r, e, f)
  BY <1>6 DEF AllBut
<1> HIDE DEF Has, Same
<1>7. \A f \in {"delim", "quote", "escape"} : f \in Separators
  BY DEF Separators
(* Each step is quiet, since the last one is.                              *)
<1>8. Quiet(r7)
  BY <1>1
<1> HIDE DEF r1, r2, r3, r4, r5, r6, r7
<1>9. ASSUME NEW r, NEW field \in {"delim", "quote", "escape"}, Quiet(Asked(r, load, field))
      PROVE  Quiet(r)
  <2>1. \/ Asked(r, load, field) = r
        \/ Asked(r, load, field) = Then(r, SetQuoted(r.result, field, load[field]))
    BY DEF Asked
  <2>2. QED
    BY <1>9, <2>1, QuietThen
<1>10. Quiet(r6)
  <2>1. r7 = Then(r6, SetSize(r6.result, "skip", IF load.skip = <<>> THEN <<0>> ELSE load.skip))
    BY DEF r7, Skipped
  <2>2. QED
    BY <1>8, <2>1, QuietThen
<1>11. Quiet(r5)
  <2>1. r6 = r5 \/ r6 = Then(r5, Unsaid(SetName(r5.result, "record", "tag")))
    BY DEF r6, Tagged
  <2>2. QED
    BY <1>10, <2>1, QuietThen
<1>12. Quiet(r4)
  <2>1. r5 = r4 \/ r5 = Then(r4, SetFormat(r4.result, load.format))
    BY DEF r5, Formatted
  <2>2. QED
    BY <1>11, <2>1, QuietThen
<1>13. Quiet(r3) /\ AllBut(r3.result, r4.result, {"eor"})
  BY <1>12, AskedEor DEF r4
<1>14. Quiet(r2)
  BY <1>9, <1>13 DEF r3
<1>15. Quiet(r1)
  BY <1>9, <1>14 DEF r2
<1>16. /\ Has(r1) /\ AllBut(r0.result, r1.result, {"delim"})
       /\ Becomes(r0.result, r1.result, load.delim, "delim")
  BY <1>3, <1>4, <1>7, <1>15 DEF r1
<1>17. /\ Has(r2) /\ AllBut(r1.result, r2.result, {"quote"})
       /\ Becomes(r1.result, r2.result, load.quote, "quote")
  BY <1>4, <1>7, <1>14, <1>16 DEF r2
<1>18. /\ Has(r3) /\ AllBut(r2.result, r3.result, {"escape"})
       /\ Becomes(r2.result, r3.result, load.escape, "escape")
  BY <1>4, <1>7, <1>13, <1>17 DEF r3
<1>19. Has(r4)
  BY <1>5, <1>13, <1>18
<1>20. /\ AllBut(r4.result, r5.result, {"delim", "modes"})
       /\ r5.result.delim = IF load.format = "csv" THEN 44 ELSE r4.result.delim
       /\ AllBut(r4.result.modes, r5.result.modes, {"format"})
       /\ load.format = "" => r5.result.modes = r4.result.modes
  <2>1. {"delim", "modes"} \subseteq DOMAIN r4.result
    BY <1>19 DEF Has
  <2>2. QED
    BY <1>11, <2>1, AskedFormat DEF r5
<1>21. Has(r5)
  BY <1>5, <1>19, <1>20
<1>22. /\ Same(r0, r1, "quote") /\ Same(r0, r1, "escape") /\ Same(r0, r1, "modes")
       /\ Same(r0, r1, "sizes") /\ Same(r0, r1, "names")
  <2>1. \A f \in {"delim", "escape", "quote", "modes", "sizes", "names"} \ {"delim"} :
           Same(r0, r1, f)
    BY <1>3, <1>6, <1>16
  <2>2. QED
    BY <2>1
<1>23. /\ Same(r1, r2, "delim") /\ Same(r1, r2, "escape") /\ Same(r1, r2, "modes")
       /\ Same(r1, r2, "sizes") /\ Same(r1, r2, "names")
  <2>1. \A f \in {"delim", "escape", "quote", "modes", "sizes", "names"} \ {"quote"} :
           Same(r1, r2, f)
    BY <1>6, <1>16, <1>17
  <2>2. QED
    BY <2>1
<1>24. /\ Same(r2, r3, "delim") /\ Same(r2, r3, "quote") /\ Same(r2, r3, "modes")
       /\ Same(r2, r3, "sizes") /\ Same(r2, r3, "names")
  <2>1. \A f \in {"delim", "escape", "quote", "modes", "sizes", "names"} \ {"escape"} :
           Same(r2, r3, f)
    BY <1>6, <1>17, <1>18
  <2>2. QED
    BY <2>1
<1>25. /\ Same(r3, r4, "delim") /\ Same(r3, r4, "quote") /\ Same(r3, r4, "escape")
       /\ Same(r3, r4, "modes") /\ Same(r3, r4, "sizes") /\ Same(r3, r4, "names")
  <2>1. \A f \in {"delim", "escape", "quote", "modes", "sizes", "names"} \ {"eor"} :
           Same(r3, r4, f)
    BY <1>6, <1>13, <1>18
  <2>2. QED
    BY <2>1
<1>26. /\ Same(r4, r5, "quote") /\ Same(r4, r5, "escape")
       /\ Same(r4, r5, "sizes") /\ Same(r4, r5, "names")
  <2>1. \A f \in {"delim", "escape", "quote", "modes", "sizes", "names"} \ {"delim", "modes"} :
           Same(r4, r5, f)
    BY <1>6, <1>19, <1>20
  <2>2. QED
    BY <2>1
<1>27. r5.result.names = c.names /\ r5.result.sizes = c.sizes /\ r4.result.modes = c.modes
  BY <1>2, <1>22, <1>23, <1>24, <1>25, <1>26 DEF Same
<1>28. /\ AllBut(r5.result, r6.result, {"names"})
       /\ r6.result.names.record = IF load.tag = <<>> THEN c.names.record ELSE "tag"
  <2>1. "names" \in DOMAIN r5.result /\ "record" \in DOMAIN r5.result.names
    BY <1>3, <1>21, <1>27 DEF Has
  <2>2. QED
    BY <1>10, <1>27, <2>1, AskedTag DEF r6
<1>29. Has(r6)
  BY <1>5, <1>21, <1>28
<1>30. /\ Same(r5, r6, "delim") /\ Same(r5, r6, "quote") /\ Same(r5, r6, "escape")
       /\ Same(r5, r6, "modes") /\ Same(r5, r6, "sizes")
  <2>1. \A f \in {"delim", "escape", "quote", "modes", "sizes", "names"} \ {"names"} :
           Same(r5, r6, f)
    BY <1>6, <1>21, <1>28
  <2>2. QED
    BY <2>1
<1>31. /\ AllBut(r6.result, r7.result, {"sizes"})
       /\ r7.result.sizes.skip = IF load.skip = <<>> THEN 0 ELSE load.skip[1]
  <2>1. "sizes" \in DOMAIN r6.result /\ "skip" \in DOMAIN r6.result.sizes
    BY <1>3, <1>27, <1>29, <1>30 DEF Has, Same
  <2>2. QED
    BY <1>8, <2>1, AskedSkip DEF r7
<1>32. /\ Same(r6, r7, "delim") /\ Same(r6, r7, "quote") /\ Same(r6, r7, "escape")
       /\ Same(r6, r7, "modes") /\ Same(r6, r7, "names")
  <2>1. \A f \in {"delim", "escape", "quote", "modes", "sizes", "names"} \ {"sizes"} :
           Same(r6, r7, f)
    BY <1>6, <1>29, <1>31
  <2>2. QED
    BY <2>1
<1>33. Becomes(c, r7.result, load.quote, "quote") /\ Becomes(c, r7.result, load.escape, "escape")
  <2>1. r1.result.quote = c.quote /\ r7.result.quote = r2.result.quote
    BY <1>2, <1>22, <1>24, <1>25, <1>26, <1>30, <1>32 DEF Same
  <2>2. r2.result.escape = c.escape /\ r7.result.escape = r3.result.escape
    BY <1>2, <1>22, <1>23, <1>25, <1>26, <1>30, <1>32 DEF Same
  <2>3. QED
    BY <1>17, <1>18, <2>1, <2>2 DEF Becomes
<1>34. /\ load.format = "csv" => r7.result.delim = 44
       /\ load.format # "csv" => Becomes(c, r7.result, load.delim, "delim")
  <2>1. r4.result.delim = r1.result.delim /\ r7.result.delim = r5.result.delim
    BY <1>23, <1>24, <1>25, <1>30, <1>32 DEF Same
  <2>2. QED
    BY <1>2, <1>16, <1>20, <2>1 DEF Becomes
<1>35. /\ AllBut(c.modes, r7.result.modes, {"format"})
       /\ load.format = "" => r7.result.modes = c.modes
  BY <1>20, <1>27, <1>30, <1>32 DEF Same
<1>36. r7.result.names.record = IF load.tag = <<>> THEN c.names.record ELSE "tag"
  BY <1>28, <1>32 DEF Same
<1>37. Obeys(c, r7.result, load)
  BY <1>31, <1>33, <1>34, <1>35, <1>36 DEF Obeys
<1>38. QED
  BY <1>1, <1>37

-----------------------------------------------------------------------------
(* The context of a statement at work.                                     *)
GoodLoad(ts, opts, c, outer) ==
  /\ \A field \in {"escape", "quote"} : AsAsked(ts, opts, c, outer, field)
  /\ IF LoadInfo(ts).format = "csv" THEN c.delim = 44 ELSE AsAsked(ts, opts, c, outer, "delim")
  /\ c.names.record = IF Gives(ts, opts, "RECORDTAG") /\ Given(ts, opts, "RECORDTAG") # <<>>
                      THEN "tag" ELSE outer.names.record
  /\ c.sizes.skip = IF Gives(ts, opts, "SKIP") THEN Given(ts, opts, "SKIP")[1] ELSE 0
  /\ Unloads(ts) =>
       /\ Peep(c, "trace") = "off"
       /\ Peep(c, "format") = "select" => Gives(ts, opts, "FORMAT")

(* What it is before the clauses of the statement are applied.             *)
Starts(c, outer, unloads) ==
  /\ IsContext(c)
  /\ \A f \in {"delim", "escape", "quote", "names"} : c[f] = outer[f]
  /\ unloads =>
       /\ "trace" \in DOMAIN c.modes
       /\ Peep(c, "trace") = "off"
       /\ Peep(c, "format") # "select"

LEMMA StartedIsGood ==
  ASSUME NEW ts, Tokens(ts), ~LoadInfo(ts).cut,
         NEW outer, NEW start, Starts(start, outer, Unloads(ts)),
         NEW d, Obeys(start, d, LoadInfo(ts)),
         NEW c, \A f \in {"delim", "escape", "quote", "names", "sizes", "modes"} : c[f] = d[f]
  PROVE  GoodLoad(ts, Options(ts), c, outer)
<1> DEFINE load == LoadInfo(ts)
           opts == Options(ts)
<1>1. \A f \in Texts : load[f] = IF Gives(ts, opts, ClauseOf[f]) THEN Given(ts, opts, ClauseOf[f])
                                 ELSE <<>>
  BY LoadGives DEF Asks, LastOf
<1>2. /\ load.skip = IF Gives(ts, opts, "SKIP") THEN Given(ts, opts, "SKIP") ELSE <<>>
      /\ Gives(ts, opts, "SKIP") => load.skip # <<>>
  BY LoadGives DEF Asks, LastOf
<1>3. ~Gives(ts, opts, "FORMAT") => load.format = ""
  BY LoadGives
<1> HIDE DEF load, opts
<1>4. ASSUME NEW f \in Separators, Becomes(start, d, load[f], f)
      PROVE  AsAsked(ts, opts, c, outer, f)
  <2>1. f \in Texts /\ ClauseOf[f] = Keyword[f] /\ c[f] = d[f] /\ start[f] = outer[f]
    BY DEF Separators, Texts, ClauseOf, Keyword, Starts
  <2>2. QED
    BY <1>1, <1>4, <2>1 DEF Becomes, AsAsked
<1>5. /\ \A f \in {"escape", "quote"} : AsAsked(ts, opts, c, outer, f)
      /\ load.format # "csv" => AsAsked(ts, opts, c, outer, "delim")
  <2>1. \A f \in {"escape", "quote", "delim"} : f \in Separators
    BY DEF Separators
  <2>2. QED
    BY <1>4, <2>1 DEF Obeys, load
<1>6. load.format = "csv" => c.delim = 44
  BY DEF Obeys, load
<1>7. c.names.record = IF Gives(ts, opts, "RECORDTAG") /\ Given(ts, opts, "RECORDTAG") # <<>>
                       THEN "tag" ELSE outer.names.record
  <2>1. "tag" \in Texts /\ ClauseOf["tag"] = "RECORDTAG"
    BY DEF Texts, ClauseOf
  <2>2. load.tag = IF Gives(ts, opts, "RECORDTAG") THEN Given(ts, opts, "RECORDTAG") ELSE <<>>
    BY <1>1, <2>1
  <2>3. d.names.record = IF load.tag = <<>> THEN start.names.record ELSE "tag"
    BY DEF Obeys, load
  <2>4. c.names = d.names /\ start.names = outer.names
    BY DEF Starts
  <2>5. QED
    BY <2>2, <2>3, <2>4
<1>8. c.sizes.skip = IF Gives(ts, opts, "SKIP") THEN Given(ts, opts, "SKIP")[1] ELSE 0
  <2>1. d.sizes.skip = IF load.skip = <<>> THEN 0 ELSE load.skip[1]
    BY DEF Obeys, load
  <2>2. c.sizes = d.sizes
    OBVIOUS
  <2>3. QED
    BY <1>2, <2>1, <2>2
<1>9. ASSUME Unloads(ts)
      PROVE  /\ Peep(c, "trace") = "off"
             /\ Peep(c, "format") = "select" => Gives(ts, opts, "FORMAT")
  <2>1. c.modes = d.modes /\ AllBut(start.modes, d.modes, {"format"})
        /\ (load.format = "" => d.modes = start.modes)
    BY DEF Obeys, load
  <2>2. "trace" \in DOMAIN start.modes /\ Peep(start, "trace") = "off"
        /\ Peep(start, "format") # "select"
    BY <1>9 DEF Starts
  <2>3. d.modes["trace"] = start.modes["trace"]
    BY <2>1, <2>2 DEF AllBut
  <2>4. QED
    BY <1>3, <2>1, <2>2, <2>3 DEF Peep
<1>10. QED
  BY <1>5, <1>6, <1>7, <1>8, <1>9 DEF GoodLoad, load, opts

LEMMA OnlyOperator ==
  ASSUME NEW c, "modes" \in DOMAIN c, NEW mode, mode # "bmark", mode \in DOMAIN c.modes,
         NEW v, c.modes[mode] = <<v>>, NEW op \in {"off", "unload"}
  PROVE  SetMode(c, mode, <<op>>).result.modes[mode] = <<op>>
<1> DEFINE s == c.modes[mode]
           next == [c.modes EXCEPT ![mode] = Append(Front(s), op)]
<1>1. Operated(c.modes, mode, op).result = next
  BY DEF Operated, Unsaid, Outcome
<1>2. Append(Front(s), op) = <<op>>
  <2> DEFINE t == <<v>>
  <2>1. Front(t) = <<>>
    BY DEF Front
  <2>2. Append(<<>>, op) = <<op>>
    OBVIOUS
  <2> HIDE DEF t
  <2>3. QED
    BY <2>1, <2>2 DEF t
<1>3. next[mode] = Append(Front(s), op)
  OBVIOUS
<1> HIDE DEF next, s
<1>4. SetMode(c, mode, <<op>>).result.modes = Operated(c.modes, mode, op).result
  BY ModeSetAlone
<1>5. QED
  BY <1>1, <1>2, <1>3, <1>4

(* NewContext leaves one operator on each stack of modes.                  *)
Fresh(c, outer) ==
  /\ IsContext(c)
  /\ \A f \in {"delim", "escape", "quote", "names"} : c[f] = outer[f]
  /\ DOMAIN c.modes = Modes
  /\ \A m \in Modes : \E v : c.modes[m] = <<v>>

LEMMA NewIsFresh ==
  ASSUME NEW c, IsContext(c)
  PROVE  Fresh(NewContext(c), c) /\ Fresh([NewContext(c) EXCEPT !.load = TRUE], c)
<1> DEFINE modes == [m \in Modes |-> <<Last(c.modes[m])>>]
           first == [c EXCEPT !["closes"] = {}]
           second == [first EXCEPT !["load"] = FALSE]
           third == [second EXCEPT !["modes"] = modes]
           fourth == [third EXCEPT !["load"] = TRUE]
<1>1. NewContext(c) = third
  BY DEF NewContext
<1>2. DOMAIN modes = Modes /\ \A m \in Modes : \E v : modes[m] = <<v>>
  OBVIOUS
<1>3. /\ {"delim", "escape", "quote", "eor", "names", "sizes", "modes", "input", "output",
          "error", "closes"} \subseteq DOMAIN c
  BY DEF IsContext, Fields, Separators, Channels
<1>4. AllBut(c, first, {"closes"})
  BY OneSet
<1> HIDE DEF first, modes
<1>5. AllBut(first, second, {"load"})
  BY OneSet
<1> HIDE DEF second
<1>6. AllBut(second, third, {"modes"}) /\ third.modes = modes
  BY <1>3, <1>4, <1>5, OneSet DEF AllBut
<1> HIDE DEF third
<1>7. AllBut(third, fourth, {"load"})
  BY OneSet
<1> HIDE DEF fourth
<1>8. AllBut(c, third, {"closes", "load", "modes"}) /\ AllBut(c, fourth, {"closes", "load", "modes"})
      /\ fourth.modes = modes
  BY <1>3, <1>4, <1>5, <1>6, <1>7 DEF AllBut
<1>9. ASSUME NEW d, AllBut(c, d, {"closes", "load", "modes"}), d.modes = modes
      PROVE  Fresh(d, c)
  <2>1. DOMAIN d = DOMAIN c
    BY <1>9 DEF AllBut
  <2>2. \A f \in {"delim", "escape", "quote", "eor", "names", "sizes"} : d[f] = c[f]
    BY <1>3, <1>9 DEF AllBut
  <2>3. IsContext(d)
    BY <2>1, <2>2 DEF IsContext, Fields
  <2>4. QED
    BY <1>2, <1>9, <2>2, <2>3 DEF Fresh
<1>10. Fresh(third, c) /\ Fresh(fourth, c)
  BY <1>6, <1>8, <1>9
<1>11. [NewContext(c) EXCEPT !.load = TRUE] = fourth
  BY <1>1 DEF fourth
<1>12. QED
  BY <1>1, <1>10, <1>11

LEMMA LoadStarts ==
  ASSUME NEW outer, IsContext(outer)
  PROVE  Starts([NewContext(outer) EXCEPT !.load = TRUE], outer, FALSE)
<1> DEFINE c == [NewContext(outer) EXCEPT !.load = TRUE]
<1>1. Fresh(c, outer)
  BY NewIsFresh
<1> HIDE DEF c
<1>2. Starts(c, outer, FALSE)
  BY <1>1 DEF Starts, Fresh
<1>3. QED
  BY <1>2 DEF c

LEMMA UnloadStarts ==
  ASSUME NEW outer, IsContext(outer)
  PROVE  Starts(Switched(Unloading(NewContext(outer)), "trace", "off"), outer, TRUE)
<1> DEFINE new == NewContext(outer)
           written == Unloading(new)
           quiet == Switched(written, "trace", "off")
           Core == {"delim", "escape", "quote", "names"}
<1>1. Fresh(new, outer)
  BY NewIsFresh
<1>2. {"format", "trace"} \subseteq Modes /\ "format" # "bmark" /\ "trace" # "bmark"
  BY DEF Modes
<1>3. \A c : IsContext(c) => {"delim", "escape", "quote", "names", "modes"} \subseteq DOMAIN c
  BY DEF IsContext, Fields, Separators
<1> HIDE DEF new
<1>4. ASSUME NEW c, IsContext(c), NEW mode \in {"format", "trace"}, NEW op,
             \A f \in Core : c[f] = outer[f]
      PROVE  LET d == SetMode(c, mode, <<op>>).result
             IN  /\ IsContext(d) /\ \A f \in Core : d[f] = outer[f]
                 /\ AllBut(c.modes, d.modes, {mode})
  <2> DEFINE d == SetMode(c, mode, <<op>>).result
  <2>1. AllBut(c, d, {"modes"}) /\ AllBut(c.modes, d.modes, {mode})
    <3>1. "modes" \in DOMAIN c /\ mode # "bmark"
      BY <1>3, <1>4
    <3>2. QED
      BY <3>1, ModeSetAlone
  <2>2. Keeps(c, d)
    BY SetModeKeeps
  <2> HIDE DEF d
  <2>3. IsContext(d)
    BY <1>4, <2>2 DEF Keeps
  <2>4. \A f \in Core : d[f] = c[f]
    BY <1>3, <1>4, <2>1 DEF AllBut
  <2>5. QED
    BY <1>4, <2>1, <2>3, <2>4 DEF d
<1>5. /\ IsContext(new) /\ \A f \in Core : new[f] = outer[f]
      /\ DOMAIN new.modes = Modes
      /\ \A m \in Modes : \E v : new.modes[m] = <<v>>
  BY <1>1 DEF Fresh
<1>6. /\ IsContext(written) /\ \A f \in Core : written[f] = outer[f]
      /\ DOMAIN written.modes = Modes
      /\ \E v : written.modes["trace"] = <<v>>
      /\ Peep(written, "format") # "select"
  <2>1. CASE Peep(new, "format") # "select"
    <3>1. written = new
      BY <2>1 DEF Unloading
    <3> HIDE DEF written
    <3>2. QED
      BY <1>2, <1>5, <2>1, <3>1
  <2>2. CASE Peep(new, "format") = "select"
    <3> DEFINE d == SetMode(new, "format", <<"unload">>).result
    <3>1. written = d
      BY <2>2 DEF Unloading, SetFormat
    <3>2. IsContext(d) /\ (\A f \in Core : d[f] = outer[f]) /\ AllBut(new.modes, d.modes, {"format"})
      BY <1>4, <1>5
    <3>3. d.modes["format"] = <<"unload">>
      <4>1. PICK v : new.modes["format"] = <<v>>
        BY <1>2, <1>5
      <4>2. "modes" \in DOMAIN new /\ "format" \in DOMAIN new.modes
        BY <1>2, <1>3, <1>5
      <4>3. QED
        BY <1>2, <4>1, <4>2, OnlyOperator
    <3> HIDE DEF d, written
    <3>4. DOMAIN d.modes = Modes /\ d.modes["trace"] = new.modes["trace"]
      BY <1>2, <1>5, <3>2 DEF AllBut
    <3>5. Peep(d, "format") = "unload"
      <4>1. Last(<<"unload">>) = "unload"
        BY DEF Last
      <4>2. QED
        BY <3>3, <4>1 DEF Peep
    <3>6. QED
      BY <1>2, <1>5, <3>1, <3>2, <3>4, <3>5
  <2>3. QED
    BY <2>1, <2>2
<1> HIDE DEF written
<1>7. /\ IsContext(quiet) /\ \A f \in Core : quiet[f] = outer[f]
      /\ AllBut(written.modes, quiet.modes, {"trace"})
  BY <1>4, <1>6 DEF Switched
<1>8. quiet.modes["trace"] = <<"off">>
  <2>1. PICK v : written.modes["trace"] = <<v>>
    BY <1>6
  <2>2. "modes" \in DOMAIN written /\ "trace" \in DOMAIN written.modes
    BY <1>2, <1>3, <1>6
  <2>3. QED
    BY <1>2, <2>1, <2>2, OnlyOperator DEF Switched
<1> HIDE DEF quiet
<1>9. "trace" \in DOMAIN quiet.modes /\ quiet.modes["format"] = written.modes["format"]
  BY <1>2, <1>6, <1>7 DEF AllBut
<1>10. Peep(quiet, "trace") = "off"
  <2>1. Last(<<"off">>) = "off"
    BY DEF Last
  <2>2. QED
    BY <1>8, <2>1 DEF Peep
<1>11. Peep(quiet, "format") # "select"
  BY <1>6, <1>9 DEF Peep
<1>12. Starts(quiet, outer, TRUE)
  BY <1>7, <1>9, <1>10, <1>11 DEF Starts
<1>13. QED
  BY <1>12 DEF quiet, written, new

-----------------------------------------------------------------------------
(* A statement begins to work only when none is at work, and then nothing  *)
(* changes but by its end: no command is waiting to be executed, and none  *)
(* is read.                                                                *)
Begins(ts) ==
  /\ Tokens(ts) /\ Depth > 0
  /\ statement' = ts /\ given' = <<>>
  /\ \E start : \E channel \in {"input", "output"} : \E file :
       LET outcome == Applied(start, LoadInfo(ts))
       IN  /\ Starts(start, Top, Unloads(ts))
           /\ contexts' = Append(contexts, Channelled(outcome.result, channel, file))
           /\ said' = outcome.said \union Remark(ts)
           /\ outcome.said \cap Fatal = {}

AtWork == UNCHANGED <<contexts, statement, given, said>>

LEMMA TopIsContext ==
  ASSUME SInv, Depth > 0
  PROVE  IsContext(Top)
  BY DepthNat DEF SInv, Private, Depth

LEMMA LoadBegins ==
  ASSUME SInv, Ready, NEW cmd \in Candidates, DoLoad(cmd), statement = <<>>, statement' # <<>>
  PROVE  Begins(cmd.ts)
<1> DEFINE ts == cmd.ts
<1>1. WellFormed(cmd) /\ cmd.do = "statement" /\ Depth > 0
  BY CommandStarts DEF DoLoad
<1>2. Tokens(ts)
  BY <1>1 DEF WellFormed, Tokens
<1>3. IsContext(Top)
  BY <1>1, TopIsContext
<1>4. ~Leaves
  BY DEF Leaves
<1>5. \/ Unloads(ts) /\ UnloadsTo(ts)
      \/ ~Unloads(ts) /\ LoadsFrom(ts)
  BY <1>4 DEF DoLoad, Passes, Fails
<1>6. CASE ~Unloads(ts) /\ LoadsFrom(ts)
  <2> DEFINE start == [NewContext(Top) EXCEPT !.load = TRUE]
             outcome == Applied(start, LoadInfo(ts))
  <2>1. /\ outcome.said \cap Fatal = {}
        /\ \E file \in LoadInputs(ts) : Opens(contexts, outcome.result, "input", file)
        /\ statement' = ts /\ Carries(outcome.said \union Remark(ts))
    BY <1>4, <1>6 DEF LoadsFrom, Exit
  <2>2. Starts(start, Top, Unloads(ts))
    <3>1. Starts(start, Top, FALSE)
      BY <1>3, LoadStarts
    <3> HIDE DEF start
    <3>2. QED
      BY <1>6, <3>1 DEF Starts
  <2> HIDE DEF start
  <2>3. PICK file : contexts' = Append(contexts, Channelled(outcome.result, "input", file))
    BY <2>1 DEF Opens
  <2>4. said' = outcome.said \union Remark(ts) /\ given' = <<>>
    BY <2>1 DEF Carries
  <2>5. "input" \in {"input", "output"}
    OBVIOUS
  <2>6. QED
    BY <1>1, <1>2, <2>1, <2>2, <2>3, <2>4, <2>5 DEF Begins
<1>7. CASE Unloads(ts) /\ UnloadsTo(ts)
  <2> DEFINE start == Switched(Unloading(NewContext(Top)), "trace", "off")
             outcome == Applied(start, LoadInfo(ts))
  <2>1. /\ outcome.said \cap Fatal = {}
        /\ Opens(contexts, outcome.result, "output", NextFile)
        /\ statement' = ts /\ Carries(outcome.said \union Remark(ts))
    BY <1>4, <1>7 DEF UnloadsTo, Exit
  <2>2. Starts(start, Top, Unloads(ts))
    <3>1. Starts(start, Top, TRUE)
      BY <1>3, UnloadStarts
    <3> HIDE DEF start
    <3>2. QED
      BY <1>7, <3>1 DEF Starts
  <2> HIDE DEF start
  <2>3. contexts' = Append(contexts, Channelled(outcome.result, "output", NextFile))
    BY <2>1 DEF Opens
  <2>4. said' = outcome.said \union Remark(ts) /\ given' = <<>>
    BY <2>1 DEF Carries
  <2>5. "output" \in {"input", "output"}
    OBVIOUS
  <2>6. QED
    BY <1>1, <1>2, <2>1, <2>2, <2>3, <2>4, <2>5 DEF Begins
<1>8. QED
  BY <1>5, <1>6, <1>7

LEMMA StatementBegins ==
  ASSUME SInv, statement # <<>> => given = <<>>, [Next]_vars, statement' # <<>>
  PROVE  AtWork \/ \E cmd \in Candidates : Begins(cmd.ts)
<1>1. CASE DoCommand
  <2>1. statement = <<>>
    BY <1>1 DEF DoCommand, Ready, Reading
  <2>2. PICK cmd \in Candidates :
          \/ DoSetting(cmd) \/ DoInput(cmd) \/ DoChannel(cmd) \/ DoOther(cmd) \/ DoExit(cmd)
          \/ DoLoad(cmd) \/ DoStatement(cmd)
    BY <1>1 DEF DoCommand
  <2>3. ~DoSetting(cmd) /\ ~DoInput(cmd) /\ ~DoChannel(cmd) /\ ~DoExit(cmd)
    BY <2>1 DEF DoSetting, DoInput, DoChannel, DoExit, Exit, Leaves
  <2>4. ~DoOther(cmd) /\ ~DoStatement(cmd)
    BY <2>1 DEF DoOther, DoStatement
  <2>5. DoLoad(cmd) /\ Ready
    BY <1>1, <2>2, <2>3, <2>4 DEF DoCommand
  <2>6. QED
    BY <2>1, <2>5, LoadBegins
<1>2. ~Exit
  BY DEF Exit, Leaves
<1>3. CASE \/ OptionRefused \/ OptionSetting \/ OptionFile \/ OptionNoted
           \/ OptionCommand \/ OptionRead
  BY <1>2, <1>3 DEF OptionRefused, OptionSetting, OptionFile, OptionNoted, OptionCommand,
                    OptionRead, AtOption, Idle
<1>4. CASE EndOfOptions
  BY <1>2, <1>4 DEF EndOfOptions, AtEnd, Idle, StartDbaccess, StartTable, StartCommands,
                    Interactive, Become
<1>5. CASE NextArgument \/ Script \/ ReadFifo \/ NothingLeft
  BY <1>2, <1>5 DEF NextArgument, Script, ReadFifo, NothingLeft, Idle
<1>6. CASE StatementEnds \/ EndOfFile \/ Interrupt
  BY <1>2, <1>6 DEF StatementEnds, EndOfFile, Interrupt, Reading
<1>7. CASE Exited \/ UNCHANGED vars
  BY <1>7 DEF Exited, vars, AtWork
<1>8. QED
  BY <1>1, <1>3, <1>4, <1>5, <1>6, <1>7 DEF Next

LEMMA AsGood ==
  LoadAsAsked <=>
    (statement # <<>> /\ said \cap {"warned", "cut"} = {} =>
       GoodLoad(statement, Options(statement), Top, contexts[Depth - 1]))
  BY DEF LoadAsAsked, GoodLoad

LEMMA ChannelKeepsOthers ==
  ASSUME NEW d, IsContext(d), NEW channel \in {"input", "output"}, NEW file
  PROVE  \A f \in {"delim", "escape", "quote", "names", "sizes", "modes"} :
           Channelled(d, channel, file)[f] = d[f]
<1>1. PICK closes : Channelled(d, channel, file) = [d EXCEPT ![channel] = file, !["closes"] = closes]
  BY DEF Channelled
<1> DEFINE first == [d EXCEPT ![channel] = file]
<1>2. Channelled(d, channel, file) = [first EXCEPT !["closes"] = closes]
  BY <1>1
<1>3. AllBut(d, first, {channel})
  BY OneSet
<1> HIDE DEF first
<1>4. AllBut(first, [first EXCEPT !["closes"] = closes], {"closes"})
  BY OneSet
<1>5. {"delim", "escape", "quote", "names", "sizes", "modes"} \subseteq DOMAIN d
  BY DEF IsContext, Fields, Separators
<1>6. QED
  BY <1>2, <1>3, <1>4, <1>5 DEF AllBut

LEMMA TextsAreShort ==
  ASSUME NEW ts, Tokens(ts), ~LoadInfo(ts).cut
  PROVE  \A f \in Separators : One(LoadInfo(ts)[f])
<1>1. ASSUME NEW f \in Separators PROVE One(LoadInfo(ts)[f])
  <2> DEFINE text == LoadInfo(ts)[f]
  <2>1. f \in Texts /\ Sizes[f] = 2
    BY DEF Separators, Texts, Sizes
  <2>2. IsSequence(text) /\ Len(text) < 2
    BY <2>1, LoadGives
  <2> HIDE DEF text
  <2>3. Len(text) \in {0, 1} /\ text = [i \in 1..Len(text) |-> text[i]]
    BY <2>2 DEF IsSequence
  <2>4. ASSUME Len(text) = 0 PROVE One(text)
    <3>1. text = <<>>
      BY <2>3, <2>4
    <3>2. QED
      BY <3>1 DEF One
  <2>5. ASSUME Len(text) = 1 PROVE One(text)
    <3>1. text = <<text[1]>>
      BY <2>3, <2>5
    <3>2. QED
      BY <3>1, Zenon DEF One
  <2>6. QED
    BY <2>3, <2>4, <2>5 DEF text
<1>2. QED
  BY <1>1

LEMMA BegunIsGood ==
  ASSUME SInv, NEW ts, Begins(ts), said' \cap {"warned", "cut"} = {}
  PROVE  GoodLoad(ts, Options(ts), Top', contexts'[Depth' - 1])
<1>1. PICK start : \E channel \in {"input", "output"} : \E file :
        /\ Starts(start, Top, Unloads(ts))
        /\ contexts' = Append(contexts, Channelled(Applied(start, LoadInfo(ts)).result, channel, file))
        /\ said' = Applied(start, LoadInfo(ts)).said \union Remark(ts)
        /\ Applied(start, LoadInfo(ts)).said \cap Fatal = {}
  BY DEF Begins
<1>2. PICK channel \in {"input", "output"} : \E file :
         contexts' = Append(contexts, Channelled(Applied(start, LoadInfo(ts)).result, channel, file))
  BY <1>1
<1>3. PICK file :
         contexts' = Append(contexts, Channelled(Applied(start, LoadInfo(ts)).result, channel, file))
  BY <1>2
<1> DEFINE load == LoadInfo(ts)
           outcome == Applied(start, load)
           d == outcome.result
           new == Channelled(d, channel, file)
<1>4. Tokens(ts)
  BY DEF Begins
<1>5. ~load.cut
  BY <1>1 DEF Remark
<1>6. Quiet(outcome)
  BY <1>1 DEF Quiet, Fatal
<1>7. IsContext(start) /\ \A f \in Separators : One(load[f])
  BY <1>1, <1>4, <1>5, TextsAreShort DEF Starts
<1>8. Obeys(start, d, load)
  BY <1>6, <1>7, AppliedObeys
<1>9. IsContext(d)
  <2>1. load.eor \in Seq(Chars)
    BY <1>4, EorAsked
  <2>2. QED
    BY <1>7, <2>1, AppliedKeeps DEF Keeps
<1>10. contexts' = Append(contexts, new)
  BY <1>3
<1> HIDE DEF outcome, load
<1>11. \A f \in {"delim", "escape", "quote", "names", "sizes", "modes"} : new[f] = d[f]
  <2> HIDE DEF d
  <2>1. QED
    BY <1>9, ChannelKeepsOthers
<1> HIDE DEF d, new
<1>12. GoodLoad(ts, Options(ts), new, Top)
  BY <1>1, <1>4, <1>5, <1>8, <1>11, StartedIsGood DEF load
<1>13. Top' = new /\ contexts'[Depth' - 1] = Top
  <2>1. Sequenced(contexts) /\ Depth \in Nat /\ Top = contexts[Depth] /\ Depth \in 1..Depth
    BY DepthNat DEF SInv, Private, Begins
  <2>2. /\ Sequenced(contexts') /\ Len(contexts') = Depth + 1
        /\ contexts'[Depth + 1] = new
        /\ contexts'[Depth] = contexts[Depth]
    BY <1>10, <2>1, Appended DEF Depth
  <2>3. Depth' = Depth + 1
    BY <2>2 DEF Depth
  <2>4. Len(contexts') > 0
    BY <2>1, <2>2
  <2>5. Top' = contexts'[Len(contexts')]
    BY <2>2, <2>4, Sized DEF Top
  <2>6. Depth' - 1 = Depth
    BY <2>1, <2>3
  <2>7. QED
    BY <2>1, <2>2, <2>5, <2>6
<1>14. QED
  BY <1>12, <1>13

(* While LOAD, RELOAD or UNLOAD handles its rows, and nobody was warned,   *)
(* the separators, the tag of records and the rows to skip are those that  *)
(* the last clauses of the statement ask for, escapes resolved, or else    *)
(* the ones in effect around the statement, whatever the options and       *)
(* commands before it have set; and UNLOAD writes neither a trace nor the  *)
(* select format, unless asked to.  (parse_sqlstmt gathers the clauses in  *)
(* any order, set_load_context of connecty.c applies them in its own, each *)
(* through a quoted argument that ctxt_quotestring reads again.)           *)
THEOREM LoadAlwaysAsAsked == Spec => []LoadAsAsked
<1> DEFINE Waits == statement # <<>> => given = <<>>
<1>1. Init => SInv /\ Waits /\ LoadAsAsked
  <2>1. Init => statement = <<>>
    BY DEF Init
  <2>2. QED
    BY <2>1, InitHolds DEF LoadAsAsked
<1>2. SInv /\ Waits /\ LoadAsAsked /\ [Next]_vars => SInv' /\ Waits' /\ LoadAsAsked'
  <2> SUFFICES ASSUME SInv, Waits, LoadAsAsked, [Next]_vars
               PROVE  SInv' /\ Waits' /\ LoadAsAsked'
    OBVIOUS
  <2>1. SInv'
    BY NextPreserves DEF Preserved
  <2>2. CASE statement' = <<>>
    BY <2>1, <2>2 DEF LoadAsAsked
  <2>3. CASE statement' # <<>> /\ AtWork
    BY <2>1, <2>3 DEF LoadAsAsked, AtWork, Top, Depth
  <2>4. ASSUME NEW ts, Begins(ts), statement' # <<>> PROVE Waits' /\ LoadAsAsked'
    <3>1. statement' = ts /\ given' = <<>>
      BY <2>4 DEF Begins
    <3>3. said' \cap {"warned", "cut"} = {} =>
            GoodLoad(statement', Options(statement'), Top', contexts'[Depth' - 1])
      BY <2>4, <3>1, BegunIsGood
    <3>4. LoadAsAsked' <=>
            (statement' # <<>> /\ said' \cap {"warned", "cut"} = {} =>
               GoodLoad(statement', Options(statement'), Top', contexts'[Depth' - 1]))
      BY DEF LoadAsAsked, GoodLoad
    <3>5. QED
      BY <3>1, <3>3, <3>4
  <2>5. QED
    BY <2>1, <2>2, <2>3, <2>4, StatementBegins
<1>3. QED
  BY <1>1, <1>2, PTL DEF Spec

-----------------------------------------------------------------------------
(* A separator that is printed and typed again: what chr_cstrlit makes of   *)
(* a character, what the literals of a text come to, and where the string  *)
(* that they make closes.                                                  *)
Plainly(u) == u \in 32..126 \ {SQ, DQ, BackSlash, 63}
Short(u, c) == c \in DOMAIN Escapes /\ Escapes[c] = u

LEMMA Literal ==
  ASSUME NEW u \in Chars
  PROVE  \/ Plainly(u) /\ ChrLit(u) = <<u>>
         \/ \E c : Short(u, c) /\ ChrLit(u) = <<BackSlash, c>>
         \/ \E a, b, c \in 0..7 :
              /\ u = (a * 8 + b) * 8 + c
              /\ ChrLit(u) = <<BackSlash, 48 + a, 48 + b, 48 + c>>
<1>1. CASE Plainly(u)
  <2>1. \A c \in DOMAIN Escapes : Escapes[c] # u
    BY <1>1 DEF Plainly, Escapes, DQ, SQ, BackSlash
  <2>2. ChrLit(u) = <<u>>
    BY <1>1, <2>1 DEF ChrLit, Plainly
  <2>3. QED
    BY <1>1, <2>2
<1>2. CASE ~Plainly(u) /\ \E c \in DOMAIN Escapes : Escapes[c] = u
  <2> DEFINE c == CHOOSE d \in DOMAIN Escapes : Escapes[d] = u
  <2>1. Short(u, c)
    BY <1>2 DEF Short
  <2>2. ChrLit(u) = <<BackSlash, c>>
    BY <1>2 DEF ChrLit, Plainly
  <2> HIDE DEF c
  <2>3. QED
    BY <2>1, <2>2
<1>3. CASE ~Plainly(u) /\ ~\E c \in DOMAIN Escapes : Escapes[c] = u
  <2> DEFINE a == u \div 64
             b == (u \div 8) % 8
             c == u % 8
  <2>1. ChrLit(u) = <<BackSlash, 48 + a, 48 + b, 48 + c>>
    BY <1>3 DEF ChrLit, Plainly
  <2>2. a \in 0..7 /\ b \in 0..7 /\ c \in 0..7 /\ u = (a * 8 + b) * 8 + c
    BY DEF Chars
  <2> HIDE DEF a, b, c
  <2>3. QED
    BY <2>1, <2>2
<1>. QED BY <1>1, <1>2, <1>3

LEMMA LiteralIs ==
  ASSUME NEW u \in Chars
  PROVE  ChrLit(u) \in Seq(Chars) /\ Len(ChrLit(u)) \in 1..4
<1> DEFINE Good(s) == s \in Seq(Chars) /\ Len(s) \in 1..4
<1>1. Good(<<u>>)
  OBVIOUS
<1>2. \A c : Short(u, c) => Good(<<BackSlash, c>>)
  <2>1. \A c : Short(u, c) => c \in Chars
    BY DEF Short, Escapes, Chars, DQ, SQ, BackSlash
  <2>2. BackSlash \in Chars
    BY DEF BackSlash, Chars
  <2>3. QED
    BY <2>1, <2>2
<1>3. \A a, b, c \in 0..7 : Good(<<BackSlash, 48 + a, 48 + b, 48 + c>>)
  <2>1. \A a \in 0..7 : 48 + a \in Chars
    BY DEF Chars
  <2>2. BackSlash \in Chars
    BY DEF BackSlash, Chars
  <2>3. QED
    BY <2>1, <2>2
<1> SUFFICES Good(ChrLit(u))
  OBVIOUS
<1> HIDE DEF Good
<1>4. CASE \E a, b, c \in 0..7 : ChrLit(u) = <<BackSlash, 48 + a, 48 + b, 48 + c>>
  <2>1. PICK a \in 0..7 : \E b, c \in 0..7 : ChrLit(u) = <<BackSlash, 48 + a, 48 + b, 48 + c>>
    BY <1>4, Zenon
  <2>2. PICK b \in 0..7 : \E c \in 0..7 : ChrLit(u) = <<BackSlash, 48 + a, 48 + b, 48 + c>>
    BY <2>1, Zenon
  <2>3. PICK c \in 0..7 : ChrLit(u) = <<BackSlash, 48 + a, 48 + b, 48 + c>>
    BY <2>2, Zenon
  <2>4. QED
    BY <1>3, <2>3
<1>5. CASE ChrLit(u) = <<u>> \/ \E c : Short(u, c) /\ ChrLit(u) = <<BackSlash, c>>
  BY <1>1, <1>2, <1>5
<1>. QED BY <1>4, <1>5, Literal, ZenonT(40)

(* What chr_cstrlit makes of a character is read as that character.        *)
BeginsWith(s, u) ==
  /\ Len(ChrLit(u)) <= Len(s)
  /\ \A i \in 1..Len(ChrLit(u)) : s[i] = ChrLit(u)[i]

LEMMA ReadsLiteral ==
  ASSUME NEW u \in Chars, NEW s \in Seq(Chars), BeginsWith(s, u)
  PROVE  ReadChr(s).value = u /\ ReadChr(s).used = Len(ChrLit(u))
<1>0. \A v, k : Read(v, k).value = v /\ Read(v, k).used = k
  BY DEF Read
<1>1. CASE Plainly(u) /\ ChrLit(u) = <<u>>
  <2>1. s[1] = u /\ Len(ChrLit(u)) = 1
    BY <1>1 DEF BeginsWith
  <2>2. s[1] # BackSlash /\ s[1] # 255
    BY <1>1, <2>1 DEF Plainly
  <2>3. ReadChr(s) = Read(u, 1)
    BY <2>1, <2>2, ReadCases
  <2>4. QED
    BY <1>0, <2>1, <2>3
<1>2. ASSUME NEW c, Short(u, c), ChrLit(u) = <<BackSlash, c>>
      PROVE  ReadChr(s).value = u /\ ReadChr(s).used = Len(ChrLit(u))
  <2>1. s[1] = BackSlash /\ s[2] = c /\ Len(ChrLit(u)) = 2 /\ Len(s) >= 2
    BY <1>2 DEF BeginsWith
  <2>2. s # <<BackSlash>>
    BY <2>1
  <2>3. ReadChr(s) = Read(u, 2)
    BY <1>2, <2>1, <2>2, ReadCases DEF Short
  <2>4. QED
    BY <1>0, <2>1, <2>3
<1>3. ASSUME NEW a \in 0..7, NEW b \in 0..7, NEW c \in 0..7, u = (a * 8 + b) * 8 + c,
             ChrLit(u) = <<BackSlash, 48 + a, 48 + b, 48 + c>>
      PROVE  ReadChr(s).value = u /\ ReadChr(s).used = Len(ChrLit(u))
  <2> DEFINE t == Tail(s)
             n == Number(t, 8, 3)
  <2>1. /\ s[1] = BackSlash /\ s[2] = 48 + a /\ s[3] = 48 + b /\ s[4] = 48 + c
        /\ Len(ChrLit(u)) = 4 /\ Len(s) >= 4
    BY <1>3, SMTT(30) DEF BeginsWith
  <2>2. s # <<BackSlash>> /\ s[2] \in 48..57
    BY <2>1
  <2>3. ReadChr(s) = Octal(s[2], n)
    BY <2>1, <2>2, ReadCases
  <2>4. t \in Seq(Chars) /\ Len(t) >= 3 /\ t[1] = 48 + a /\ t[2] = 48 + b /\ t[3] = 48 + c
    BY <2>1
  <2> HIDE DEF t
  <2>5. ASSUME NEW k \in 0..7 PROVE Digit(48 + k, 8) = k
    <3> DEFINE i == CASE 48 + k \in 48..57 -> (48 + k) - 48
                      [] 48 + k \in 65..90 -> (48 + k) - 55
                      [] 48 + k \in 97..122 -> (48 + k) - 87
                      [] OTHER -> 8
    <3>1. i = k
      <4>1. 48 + k \in 48..57 /\ 48 + k \notin 65..90 /\ 48 + k \notin 97..122 /\ (48 + k) - 48 = k
        OBVIOUS
      <4>2. QED
        BY <4>1
    <3>2. Digit(48 + k, 8) = IF i < 8 THEN i ELSE -1
      BY DEF Digit
    <3> HIDE DEF i
    <3>3. QED
      BY <3>1, <3>2
  <2>6. Digit(t[1], 8) = a /\ Digit(t[2], 8) = b /\ Digit(t[3], 8) = c
    BY <2>4, <2>5
  <2>7. n.count = 3
    <3>1. n.count = Max(Leading(t, 8, 3))
      BY DEF Number, Leading
    <3>2. 3 \in Leading(t, 8, 3)
      <4>1. Min({3, Len(t)}) = 3
        BY <2>4 DEF Min
      <4>2. \A i \in 1..3 : Digit(t[i], 8) >= 0
        BY <2>6
      <4>3. QED
        BY <4>1, <4>2 DEF Leading
    <3>3. Len(t) \in Nat /\ 3 \in Nat
      BY <2>4
    <3>4. Max(Leading(t, 8, 3)) \in 0..3 /\ 3 <= Max(Leading(t, 8, 3))
      BY <3>2, <3>3, LeadingIs
    <3>5. QED
      BY <3>1, <3>4
  <2>8. n.value = (Digit(t[1], 8) * 8 + Digit(t[2], 8)) * 8 + Digit(t[3], 8)
    BY <2>4, <2>7, NumberIs
  <2>9. n.value = u
    BY <1>3, <2>6, <2>8
  <2> HIDE DEF n
  <2>10. n.count # 0 /\ ~(n.value > 255) /\ 1 + n.count = 4
    <3>1. ~(u > 255)
      BY DEF Chars
    <3>2. 3 # 0 /\ 1 + 3 = 4
      OBVIOUS
    <3>3. QED
      BY <2>7, <2>9, <3>1, <3>2
  <2>11. Octal(s[2], n) = Read(u, 4)
    BY <2>9, <2>10 DEF Octal
  <2>12. QED
    BY <1>0, <2>1, <2>3, <2>11
<1>. QED BY <1>1, <1>2, <1>3, Literal

PrintStep(v, u) == v \o ChrLit(u)
Printing(t) == FoldLeft(LAMBDA s, u : s \o ChrLit(u), <<>>, t)

LEMMA PrintFold ==
  ASSUME NEW t, NEW n \in Nat, DOMAIN t = 1..n
  PROVE  \E L : Folded(L, "print", {}, <<>>, t, n) /\ Printing(t) = L[n]
<1> DEFINE total == Printing(t)
           G(g) == g = [x \in SUBSET (1..n) |->
                           IF x = {} THEN <<>> ELSE PrintStep(g[x \ {Max(x)}], t[Max(x)])]
<1>1. total = (CHOOSE g : G(g))[1..n]
  BY DEF Printing, FoldLeft, MapThenFoldSet, PrintStep
<1>2. \A v, x : Step("print", {}, v, x) = PrintStep(v, x)
  BY DEF Step, PrintStep
<1>. HIDE DEF total
<1>3. \E g : G(g)
  <2>1. PICK g : g = [x \in SUBSET (1..n) |-> g[x]]
                 /\ Folding(g, "print", {}, <<>>, t, n)
    BY FoldsExist
  <2>2. G(g)
    BY <1>2, <2>1 DEF Folding
  <2>. QED BY <2>2
<1>. DEFINE h == CHOOSE g : G(g)
<1>. HIDE DEF G
<1>4. G(h)
  BY <1>3, Zenon
<1>5. total = h[1..n]
  BY <1>1
<1>. HIDE DEF h
<1>6. Folding(h, "print", {}, <<>>, t, n)
  BY <1>2, <1>4 DEF Folding, G
<1>7. PICK L : Folded(L, "print", {}, <<>>, t, n) /\ L[n] = h[1..n]
  BY <1>6, FoldValues
<1>8. total = L[n]
  BY <1>5, <1>7
<1>. QED BY <1>7, <1>8 DEF total

(* Where the literals of the characters are in what is printed.            *)
Laid(body, t, e) ==
  /\ body \in Seq(Chars)
  /\ e[0] = 0 /\ e[Len(t)] = Len(body)
  /\ \A k \in 1..Len(t) :
       /\ e[k - 1] \in Nat
       /\ e[k] = e[k - 1] + Len(ChrLit(t[k]))
       /\ e[k] <= Len(body)
       /\ \A i \in 1..Len(ChrLit(t[k])) : body[e[k - 1] + i] = ChrLit(t[k])[i]

LEMMA PrintingLaid ==
  ASSUME NEW t \in Seq(Chars)
  PROVE  \E e : Laid(Printing(t), t, e)
<1> DEFINE n == Len(t)
<1>1. n \in Nat /\ DOMAIN t = 1..n /\ \A k \in 1..n : t[k] \in Chars
  OBVIOUS
<1> HIDE DEF n
<1>2. PICK L : Folded(L, "print", {}, <<>>, t, n) /\ Printing(t) = L[n]
  BY <1>1, PrintFold
<1>3. L[0] = <<>> /\ \A k \in 1..n : L[k] = L[k - 1] \o ChrLit(t[k])
  BY <1>2 DEF Folded, Step
<1>4. \A k \in 1..n : ChrLit(t[k]) \in Seq(Chars) /\ Len(ChrLit(t[k])) \in 1..4
  BY <1>1, LiteralIs
<1> DEFINE E == [k \in 0..n |-> Len(L[k])]
           Before(j, k) == Len(L[j]) <= Len(L[k]) /\ \A i \in 1..Len(L[j]) : L[k][i] = L[j][i]
           S == {k \in 0..n : L[k] \in Seq(Chars) /\ \A j \in 0..k : Before(j, k)}
<1>5. 0 \in S
  <2>1. <<>> \in Seq(Chars) /\ Len(<<>>) = 0
    OBVIOUS
  <2>2. L[0] \in Seq(Chars) /\ 0 \in 0..n
    BY <1>1, <1>3, <2>1
  <2>3. Before(0, 0)
    BY <1>3, <2>1
  <2>4. \A j \in 0..0 : j = 0
    OBVIOUS
  <2> HIDE DEF Before
  <2>5. QED
    BY <2>2, <2>3, <2>4
<1>6. ASSUME NEW k \in 1..n, k - 1 \in S PROVE k \in S
  <2> DEFINE p == L[k - 1]
             q == L[k]
             c == ChrLit(t[k])
  <2>1. p \in Seq(Chars) /\ c \in Seq(Chars) /\ q = p \o c
    BY <1>3, <1>4, <1>6
  <2>2. q \in Seq(Chars) /\ Len(q) = Len(p) + Len(c) /\ \A i \in 1..Len(p) : q[i] = p[i]
    <3> HIDE DEF p, q, c
    <3>1. QED
      BY <2>1
  <2>3. \A j \in 0..(k - 1) : Before(j, k - 1)
    BY <1>6
  <2>4. ASSUME NEW j \in 0..k PROVE Before(j, k)
    <3>1. CASE j = k
      BY <3>1, <2>2
    <3>2. CASE j # k
      <4>1. j \in 0..(k - 1)
        BY <1>1, <3>2
      <4>2. Len(L[j]) <= Len(p) /\ \A i \in 1..Len(L[j]) : p[i] = L[j][i]
        BY <2>3, <4>1
      <4>3. Len(p) \in Nat /\ Len(c) \in Nat
        BY <2>1
      <4> HIDE DEF p, q, c
      <4>4. Len(L[j]) <= Len(q) /\ \A i \in 1..Len(L[j]) : q[i] = L[j][i]
        BY <2>2, <4>2, <4>3
      <4>5. QED
        BY <4>4 DEF q
    <3>3. QED
      BY <3>1, <3>2
  <2>5. k \in 0..n
    BY <1>1
  <2>6. QED
    BY <2>2, <2>4, <2>5
<1>7. \A k \in 0..n : k \in S
  <2> HIDE DEF S
  <2>1. QED
    BY <1>1, <1>5, <1>6, Climbs
<1> DEFINE body == L[n]
<1>8. body \in Seq(Chars) /\ \A j \in 0..n : Before(j, n)
  BY <1>1, <1>7
<1>9. ASSUME NEW k \in 1..n
      PROVE  /\ E[k - 1] \in Nat
             /\ E[k] = E[k - 1] + Len(ChrLit(t[k]))
             /\ E[k] <= Len(body)
             /\ \A i \in 1..Len(ChrLit(t[k])) : body[E[k - 1] + i] = ChrLit(t[k])[i]
  <2> DEFINE p == L[k - 1]
             q == L[k]
             c == ChrLit(t[k])
  <2>1. k - 1 \in 0..n /\ k \in 0..n
    BY <1>1
  <2>2. p \in Seq(Chars) /\ c \in Seq(Chars) /\ q = p \o c
    BY <1>3, <1>4, <1>7, <2>1
  <2>3. E[k - 1] = Len(p) /\ E[k] = Len(q)
    BY <2>1
  <2>4. Len(q) <= Len(body) /\ \A i \in 1..Len(q) : body[i] = q[i]
    BY <1>8, <2>1
  <2> HIDE DEF p, q, c, body, E
  <2>5. Len(p) \in Nat /\ Len(q) = Len(p) + Len(c)
        /\ \A i \in 1..Len(c) : q[Len(p) + i] = c[i] /\ Len(p) + i \in 1..Len(q)
    BY <2>2
  <2>6. \A i \in 1..Len(c) : body[Len(p) + i] = c[i]
    BY <2>4, <2>5
  <2>7. QED
    BY <2>3, <2>4, <2>5, <2>6 DEF c
<1>10. E[0] = 0 /\ E[n] = Len(body)
  <2>1. Len(<<>>) = 0
    OBVIOUS
  <2>2. QED
    BY <1>1, <1>3, <2>1
<1> HIDE DEF E
<1>11. Laid(body, t, E)
  BY <1>8, <1>9, <1>10 DEF Laid, n
<1>. QED BY <1>2, <1>11

(* Nothing of a literal closes the string that it is in.                   *)
LEMMA LiteralCloses ==
  ASSUME NEW u \in Chars, NEW s, s[1] = SQ, NEW e \in Nat, NEW L,
         \A i \in 1..Len(ChrLit(u)) : /\ s[e + i + 1] = ChrLit(u)[i]
                                      /\ L[e + i] = CloseStep(s, L[e + i - 1], e + i + 1),
         ClosesAt(L[e], 0)
  PROVE  ClosesAt(L[e + Len(ChrLit(u))], 0)
<1>0. SQ # BackSlash /\ \A k \in 0..7 : 48 + k # SQ /\ 48 + k # BackSlash
  BY DEF SQ, BackSlash
<1>1. CASE Plainly(u) /\ ChrLit(u) = <<u>>
  <2>1. Len(ChrLit(u)) = 1 /\ ChrLit(u)[1] = u /\ 1 \in 1..1 /\ e + 1 - 1 = e
    BY <1>1
  <2>2. s[e + 1 + 1] = u /\ L[e + 1] = CloseStep(s, L[e], e + 1 + 1)
    BY <2>1
  <2>3. u # BackSlash /\ u # SQ
    BY <1>1 DEF Plainly
  <2>4. ClosesAt(CloseStep(s, L[e], e + 1 + 1), 0)
    BY <2>2, <2>3, CloseSteps
  <2>5. QED
    BY <2>1, <2>2, <2>4
<1>2. ASSUME NEW c, ChrLit(u) = <<BackSlash, c>> PROVE ClosesAt(L[e + Len(ChrLit(u))], 0)
  <2>1. /\ Len(ChrLit(u)) = 2 /\ ChrLit(u)[1] = BackSlash /\ 1 \in 1..2 /\ 2 \in 1..2
        /\ e + 1 - 1 = e /\ e + 2 - 1 = e + 1
    BY <1>2
  <2>2. /\ s[e + 1 + 1] = BackSlash
        /\ L[e + 1] = CloseStep(s, L[e], e + 1 + 1)
        /\ L[e + 2] = CloseStep(s, L[e + 1], e + 2 + 1)
    BY <2>1
  <2>3. Protected(CloseStep(s, L[e], e + 1 + 1))
    BY <2>2, CloseSteps
  <2>4. ClosesAt(CloseStep(s, L[e + 1], e + 2 + 1), 0)
    BY <2>2, <2>3, CloseSteps
  <2>5. QED
    BY <2>1, <2>2, <2>4
<1>3. ASSUME NEW a \in 0..7, NEW b \in 0..7, NEW c \in 0..7,
             ChrLit(u) = <<BackSlash, 48 + a, 48 + b, 48 + c>>
      PROVE  ClosesAt(L[e + Len(ChrLit(u))], 0)
  <2>1. /\ Len(ChrLit(u)) = 4 /\ ChrLit(u)[1] = BackSlash
        /\ ChrLit(u)[3] = 48 + b /\ ChrLit(u)[4] = 48 + c
        /\ 1 \in 1..4 /\ 2 \in 1..4 /\ 3 \in 1..4 /\ 4 \in 1..4
        /\ e + 1 - 1 = e /\ e + 2 - 1 = e + 1 /\ e + 3 - 1 = e + 2 /\ e + 4 - 1 = e + 3
    BY <1>3
  <2>2. /\ s[e + 1 + 1] = BackSlash /\ s[e + 3 + 1] = 48 + b /\ s[e + 4 + 1] = 48 + c
        /\ L[e + 1] = CloseStep(s, L[e], e + 1 + 1)
        /\ L[e + 2] = CloseStep(s, L[e + 1], e + 2 + 1)
        /\ L[e + 3] = CloseStep(s, L[e + 2], e + 3 + 1)
        /\ L[e + 4] = CloseStep(s, L[e + 3], e + 4 + 1)
    BY <2>1
  <2>3. Protected(CloseStep(s, L[e], e + 1 + 1))
    BY <2>2, CloseSteps
  <2>4. ClosesAt(CloseStep(s, L[e + 1], e + 2 + 1), 0)
    BY <2>2, <2>3, CloseSteps
  <2>5. ClosesAt(CloseStep(s, L[e + 2], e + 3 + 1), 0)
    <3>1. s[e + 3 + 1] # BackSlash /\ s[e + 3 + 1] # s[1]
      BY <1>0, <2>2
    <3>2. QED
      BY <2>2, <2>4, <3>1, CloseSteps
  <2>6. ClosesAt(CloseStep(s, L[e + 3], e + 4 + 1), 0)
    <3>1. s[e + 4 + 1] # BackSlash /\ s[e + 4 + 1] # s[1]
      BY <1>0, <2>2
    <3>2. QED
      BY <2>2, <2>5, <3>1, CloseSteps
  <2>7. QED
    BY <2>1, <2>2, <2>6
<1>4. CASE \E a, b, c \in 0..7 : ChrLit(u) = <<BackSlash, 48 + a, 48 + b, 48 + c>>
  <2>1. PICK a \in 0..7 : \E b, c \in 0..7 : ChrLit(u) = <<BackSlash, 48 + a, 48 + b, 48 + c>>
    BY <1>4, Zenon
  <2>2. PICK b \in 0..7 : \E c \in 0..7 : ChrLit(u) = <<BackSlash, 48 + a, 48 + b, 48 + c>>
    BY <2>1, Zenon
  <2>3. PICK c \in 0..7 : ChrLit(u) = <<BackSlash, 48 + a, 48 + b, 48 + c>>
    BY <2>2, Zenon
  <2>4. QED
    BY <1>3, <2>3
<1>. QED BY <1>1, <1>2, <1>4, Literal, ZenonT(40)

Between(body) == <<SQ>> \o body \o <<SQ>>

LEMMA BetweenIs ==
  ASSUME NEW body \in Seq(Chars)
  PROVE  /\ Len(Between(body)) = Len(body) + 2
         /\ Between(body)[1] = SQ /\ Between(body)[Len(body) + 2] = SQ
         /\ \A i \in 1..Len(body) : Between(body)[i + 1] = body[i]
         /\ SubSeq(Between(body), 2, (Len(body) + 2) - 1) = body
<1> DEFINE s == Between(body)
           n == Len(body)
<1>1. n \in Nat /\ body = [i \in 1..n |-> body[i]]
  OBVIOUS
<1>2. SQ \in Chars
  BY DEF SQ, Chars
<1>3. <<SQ>> \o body \in Seq(Chars) /\ Len(<<SQ>> \o body) = n + 1
  BY <1>2
<1>4. s \in Seq(Chars) /\ Len(s) = n + 2 /\ s[1] = SQ /\ s[n + 2] = SQ
      /\ \A i \in 1..n : s[i + 1] = body[i]
  BY <1>2 DEF Between
<1>5. SubSeq(s, 2, (n + 2) - 1) = body
  <2> HIDE DEF s
  <2>1. CASE n = 0
    BY <1>1, <1>4, <2>1
  <2>2. CASE n >= 1
    <3>1. IsSequence(s) /\ 2 \in Nat /\ n + 1 \in Nat /\ 2 <= n + 1 /\ n + 1 <= Len(s) /\ 2 >= 1
      BY <1>1, <1>4, <2>2, IsOfSequence
    <3> HIDE DEF n
    <3>2. SubSeq(s, 2, n + 1) = [i \in 1..((n + 1) - 2 + 1) |-> s[2 + i - 1]]
      BY <3>1, PartOf
    <3>3. (n + 1) - 2 + 1 = n /\ (n + 2) - 1 = n + 1 /\ \A i \in 1..n : s[2 + i - 1] = body[i]
      <4>1. \A i \in 1..n : 2 + i - 1 = i + 1
        BY <1>1
      <4>2. QED
        BY <1>1, <1>4, <4>1
    <3>4. QED
      BY <1>1, <3>2, <3>3
  <2>3. QED
    BY <1>1, <2>1, <2>2
<1>. QED BY <1>4, <1>5

LEMMA ClosesBehind ==
  ASSUME NEW t \in Seq(Chars), NEW body, NEW E, Laid(body, t, E)
  PROVE  Close(Between(body)) = Len(body) + 2
<1> DEFINE s == Between(body)
           m == Len(t)
           n == Len(body) + 1
           p0 == [close |-> 0, protected |-> FALSE]
<1>1. body \in Seq(Chars) /\ m \in Nat /\ n \in Nat /\ Len(body) \in Nat
  BY DEF Laid
<1>2. /\ Len(s) = n + 1 /\ s[1] = SQ /\ s[n + 1] = SQ
      /\ \A i \in 1..Len(body) : s[i + 1] = body[i]
  BY <1>1, BetweenIs
<1> HIDE DEF s
<1>3. PICK L : Folded(L, "close", s, p0, [i \in 1..n |-> i + 1], n) /\ Close(s) = L[n].close
  <2> HIDE DEF n
  <2>1. QED
    BY <1>1, <1>2, CloseFold
<1>4. L[0] = p0 /\ \A i \in 1..n : L[i] = CloseStep(s, L[i - 1], i + 1)
  BY <1>3 DEF Folded, Step
<1> HIDE DEF m
<1> DEFINE S == {k \in 0..m : ClosesAt(L[E[k]], 0)}
<1>5. 0 \in S
  <2>1. ClosesAt(p0, 0) /\ E[0] = 0
    BY DEF ClosesAt, Laid
  <2>2. QED
    BY <1>1, <1>4, <2>1
<1>6. ASSUME NEW k \in 1..m, k - 1 \in S PROVE k \in S
  <2> DEFINE e == E[k - 1]
             u == t[k]
  <2>1. /\ e \in Nat /\ E[k] = e + Len(ChrLit(u)) /\ E[k] <= Len(body)
        /\ \A i \in 1..Len(ChrLit(u)) : body[e + i] = ChrLit(u)[i]
    BY DEF Laid, m
  <2>2. u \in Chars
    BY DEF m
  <2>3. Len(ChrLit(u)) \in 1..4
    BY <2>2, LiteralIs
  <2>4. ClosesAt(L[e], 0)
    BY <1>6
  <2> HIDE DEF e, u
  <2>5. ASSUME NEW i \in 1..Len(ChrLit(u))
        PROVE  s[e + i + 1] = ChrLit(u)[i] /\ L[e + i] = CloseStep(s, L[e + i - 1], e + i + 1)
    <3>1. e + i \in 1..Len(body) /\ e + i \in 1..n
      BY <1>1, <2>1, <2>3
    <3>2. QED
      BY <1>2, <1>4, <2>1, <3>1
  <2>6. ClosesAt(L[e + Len(ChrLit(u))], 0)
    BY <1>2, <2>1, <2>2, <2>4, <2>5, LiteralCloses
  <2>7. QED
    BY <1>1, <2>1, <2>6
<1>7. m \in S
  <2>1. m \in 0..m
    BY <1>1
  <2> HIDE DEF S
  <2>2. QED
    BY <1>1, <1>5, <1>6, <2>1, Climbs
<1>8. ClosesAt(L[n - 1], 0)
  <2>1. E[m] = n - 1
    BY <1>1 DEF Laid, m
  <2>2. QED
    BY <1>7, <2>1
<1>9. L[n] = CloseStep(s, L[n - 1], n + 1)
  BY <1>1, <1>4
<1>10. ClosesAt(L[n], n + 1)
  <2>1. s[n + 1] # BackSlash /\ s[n + 1] = s[1]
    BY <1>2 DEF SQ, BackSlash
  <2> HIDE DEF n
  <2>2. QED
    BY <1>8, <1>9, <2>1, CloseSteps
<1>. QED BY <1>1, <1>3, <1>10 DEF ClosesAt, s

LEMMA RestAgain ==
  ASSUME NEW S, NEW s \in Seq(S), NEW e \in Nat, NEW l \in Nat, e + l <= Len(s),
         NEW rest, rest = SubSeq(s, e + 1, Len(s))
  PROVE  /\ rest \in Seq(S) /\ Len(rest) = Len(s) - e
         /\ \A i \in 1..(Len(s) - e) : rest[i] = s[e + i]
         /\ SubSeq(rest, l + 1, Len(rest)) = SubSeq(s, e + l + 1, Len(s))
<1> DEFINE n == Len(s)
<1>1. n \in Nat
  OBVIOUS
<1>2. rest = [i \in 1..(n - e) |-> s[e + i]] /\ Len(rest) = n - e /\ rest \in Seq(S)
  <2>1. rest = [i \in 1..(n - (e + 1) + 1) |-> s[(e + 1) + i - 1]]
    OBVIOUS
  <2>2. n - (e + 1) + 1 = n - e /\ \A i \in 1..(n - e) : (e + 1) + i - 1 = e + i
    OBVIOUS
  <2>3. rest = [i \in 1..(n - e) |-> s[e + i]]
    BY <2>1, <2>2
  <2>4. \A i \in 1..(n - e) : s[e + i] \in S
    OBVIOUS
  <2>5. n - e \in Nat
    OBVIOUS
  <2> HIDE DEF n
  <2>6. Len([i \in 1..(n - e) |-> s[e + i]]) = n - e /\ [i \in 1..(n - e) |-> s[e + i]] \in Seq(S)
    BY <2>4, <2>5
  <2>7. QED
    BY <2>3, <2>6
<1> DEFINE k == n - e - l
<1>3. k \in Nat
  OBVIOUS
<1>4. SubSeq(rest, l + 1, Len(rest)) = [i \in 1..k |-> rest[l + i]]
  <2>1. SubSeq(rest, l + 1, Len(rest)) = [i \in 1..((n - e) - (l + 1) + 1) |-> rest[(l + 1) + i - 1]]
    BY <1>2
  <2>2. (n - e) - (l + 1) + 1 = k /\ \A i \in 1..k : (l + 1) + i - 1 = l + i
    OBVIOUS
  <2> HIDE DEF k, n
  <2>3. QED
    BY <2>1, <2>2
<1>5. SubSeq(s, e + l + 1, n) = [i \in 1..k |-> s[e + l + i]]
  <2>1. SubSeq(s, e + l + 1, n) = [i \in 1..(n - (e + l + 1) + 1) |-> s[(e + l + 1) + i - 1]]
    OBVIOUS
  <2>2. n - (e + l + 1) + 1 = k /\ \A i \in 1..k : (e + l + 1) + i - 1 = e + l + i
    OBVIOUS
  <2> HIDE DEF k, n
  <2>3. QED
    BY <2>1, <2>2
<1>6. \A i \in 1..k : rest[l + i] = s[e + l + i]
  <2>1. \A i \in 1..k : l + i \in 1..(n - e) /\ e + (l + i) = e + l + i
    OBVIOUS
  <2> HIDE DEF k
  <2>2. QED
    BY <1>2, <2>1
<1> HIDE DEF k
<1>7. SubSeq(rest, l + 1, Len(rest)) = SubSeq(s, e + l + 1, n)
  BY <1>4, <1>5, <1>6
<1>. QED BY <1>2, <1>7

Gone(p, body, e, t, k) ==
  /\ DOMAIN p = Parse /\ p.valid
  /\ p.rest = SubSeq(body, e + 1, Len(body))
  /\ p.text = SubSeq(t, 1, k)

LEMMA OneMore ==
  ASSUME NEW S, NEW t \in Seq(S), NEW k \in 1..Len(t)
  PROVE  Append(SubSeq(t, 1, k - 1), t[k]) = SubSeq(t, 1, k)
<1>1. k \in Nat /\ k - 1 \in Nat /\ k <= Len(t) /\ Len(t) \in Nat
  OBVIOUS
<1>2. SubSeq(t, 1, k) = [i \in 1..k |-> t[i]] /\ SubSeq(t, 1, k - 1) = [i \in 1..(k - 1) |-> t[i]]
  BY <1>1
<1>3. SubSeq(t, 1, k - 1) \in Seq(S) /\ Len(SubSeq(t, 1, k - 1)) = k - 1
  BY <1>1
<1> DEFINE p == SubSeq(t, 1, k - 1)
<1>4. p = [i \in 1..(k - 1) |-> t[i]] /\ p \in Seq(S) /\ Len(p) = k - 1
  BY <1>2, <1>3
<1> HIDE DEF p
<1>5. Append(p, t[k]) = [i \in 1..k |-> t[i]]
  <2>1. Append(p, t[k]) = [i \in 1..((k - 1) + 1) |-> IF i <= k - 1 THEN p[i] ELSE t[k]]
    BY <1>4
  <2>2. \A i \in 1..k : (IF i <= k - 1 THEN p[i] ELSE t[k]) = t[i]
    BY <1>1, <1>4
  <2>3. (k - 1) + 1 = k
    BY <1>1
  <2>4. QED
    BY <2>1, <2>2, <2>3
<1>. QED BY <1>2, <1>5 DEF p

LEMMA Longer ==
  ASSUME NEW k \in Int, NEW a \in Nat, k - 1 <= a, NEW l \in 1..4
  PROVE  a + l \in Nat /\ k <= a + l
  OBVIOUS

LEMMA CharsValid == \A u \in Chars : u # Invalid
  BY DEF Chars, Invalid

LEMMA ParsedWhole ==
  ASSUME NEW t \in Seq(Chars), NEW body, NEW E, Laid(body, t, E),
         NEW most \in Nat, Len(t) <= most
  PROVE  /\ Parsed(body, most).valid
         /\ Parsed(body, most).rest = <<>>
         /\ Parsed(body, most).text = t
         /\ Len(t) <= Len(body)
<1> DEFINE m == Len(t)
           n == Min({most, Len(body)})
           p0 == [valid |-> TRUE, rest |-> body, text |-> <<>>]
<1>1. body \in Seq(Chars) /\ m \in Nat /\ Len(body) \in Nat
  BY DEF Laid
<1>2. ASSUME NEW k \in 1..m
      PROVE  /\ t[k] \in Chars /\ Len(ChrLit(t[k])) \in 1..4
             /\ E[k - 1] \in Nat /\ E[k] = E[k - 1] + Len(ChrLit(t[k])) /\ E[k] <= Len(body)
             /\ \A i \in 1..Len(ChrLit(t[k])) : body[E[k - 1] + i] = ChrLit(t[k])[i]
  <2>1. t[k] \in Chars
    OBVIOUS
  <2>2. Len(ChrLit(t[k])) \in 1..4
    BY <2>1, LiteralIs
  <2>3. QED
    BY <2>1, <2>2 DEF Laid
<1>3. E[0] = 0 /\ E[m] = Len(body)
  BY DEF Laid
<1>4. m <= Len(body)
  <2> DEFINE T == {k \in 0..m : E[k] \in Nat /\ k <= E[k]}
  <2>1. 0 \in T
    BY <1>1, <1>3
  <2> HIDE DEF m
  <2>2. ASSUME NEW k \in 1..m, k - 1 \in T PROVE k \in T
    <3>1. E[k - 1] \in Nat /\ k - 1 <= E[k - 1]
      BY <2>2
    <3>2. E[k] = E[k - 1] + Len(ChrLit(t[k])) /\ Len(ChrLit(t[k])) \in 1..4
      BY <1>2
    <3>3. E[k] \in Nat /\ k <= E[k]
      <4> DEFINE a == E[k - 1]
                 l == Len(ChrLit(t[k]))
      <4>1. k \in Int /\ a \in Nat /\ k - 1 <= a /\ l \in 1..4 /\ E[k] = a + l
        BY <1>1, <3>1, <3>2
      <4> HIDE DEF a, l
      <4>2. a + l \in Nat /\ k <= a + l
        BY <4>1, Longer
      <4>3. QED
        BY <4>1, <4>2
    <3>4. QED
      BY <1>1, <3>3
  <2>3. m \in T
    <3>1. m \in 0..m
      BY <1>1
    <3> HIDE DEF T
    <3>2. QED
      BY <1>1, <2>1, <2>2, <3>1, Climbs
  <2>4. QED
    BY <1>3, <2>3
<1>5. n \in Nat /\ m <= n
  BY <1>1, <1>4 DEF Min
<1>6. PICK L : Folded(L, "parse", {}, p0, [i \in 1..n |-> i], n) /\ Parsed(body, most) = L[n]
  <2>1. Min({most, Len(body)}) = n
    OBVIOUS
  <2> HIDE DEF n
  <2>2. QED
    BY <1>5, <2>1, ParseFold
<1> HIDE DEF n
<1>7. L[0] = p0 /\ \A i \in 1..n : L[i] = ParseStep(L[i - 1])
  BY <1>6 DEF Folded, Step
<1> HIDE DEF m
<1> DEFINE S == {k \in 0..m : Gone(L[k], body, E[k], t, k)}
<1>8. 0 \in S
  <2>1. SubSeq(body, 0 + 1, Len(body)) = body /\ SubSeq(t, 1, 0) = <<>>
    BY <1>1
  <2>2. DOMAIN p0 = Parse /\ p0.valid /\ p0.rest = body /\ p0.text = <<>>
    BY DEF Parse
  <2> HIDE DEF p0
  <2>3. Gone(L[0], body, E[0], t, 0)
    BY <1>3, <1>7, <2>1, <2>2 DEF Gone
  <2>4. QED
    BY <1>1, <2>3
<1>9. ASSUME NEW k \in 1..m, k - 1 \in S PROVE k \in S
  <2> DEFINE p == L[k - 1]
             e == E[k - 1]
             u == t[k]
             l == Len(ChrLit(u))
  <2>1. /\ u \in Chars /\ l \in 1..4
        /\ e \in Nat /\ E[k] = e + l /\ E[k] <= Len(body)
        /\ \A i \in 1..l : body[e + i] = ChrLit(u)[i]
    BY <1>2
  <2>2. Gone(p, body, e, t, k - 1)
    BY <1>9
  <2>3. k \in 0..m /\ L[k] = ParseStep(p)
    <3>1. k \in 1..n
      BY <1>1, <1>5
    <3>2. QED
      BY <1>1, <1>7, <3>1
  <2> HIDE DEF p, e
  <2> DEFINE rest == p.rest
  <2>4. /\ rest \in Seq(Chars) /\ Len(rest) = Len(body) - e
        /\ \A i \in 1..(Len(body) - e) : rest[i] = body[e + i]
        /\ SubSeq(rest, l + 1, Len(rest)) = SubSeq(body, e + l + 1, Len(body))
    <3>1. l \in Nat /\ e + l <= Len(body) /\ rest = SubSeq(body, e + 1, Len(body))
      BY <2>1, <2>2 DEF Gone
    <3> HIDE DEF l, rest
    <3>2. QED
      BY <1>1, <2>1, <3>1, RestAgain
  <2> HIDE DEF rest
  <2>5. BeginsWith(rest, u) /\ rest # <<>>
    <3>1. l <= Len(rest) /\ \A i \in 1..l : i \in 1..(Len(body) - e)
      BY <1>1, <2>1, <2>4
    <3>2. \A i \in 1..l : rest[i] = ChrLit(u)[i]
      BY <2>1, <2>4, <3>1
    <3>3. rest # <<>>
      <4>1. l \in 1..4 /\ l <= Len(rest)
        BY <2>1, <3>1
      <4> HIDE DEF l
      <4>2. ~(l <= 0) /\ Len(<<>>) = 0
        BY <4>1
      <4>3. QED
        BY <4>1, <4>2
    <3>4. QED
      BY <3>1, <3>2, <3>3 DEF BeginsWith
  <2>6. ReadChr(rest).value = u /\ ReadChr(rest).used = l
    BY <2>1, <2>4, <2>5, ReadsLiteral
  <2>7. u # Invalid
    BY <2>1, CharsValid
  <2>8. /\ DOMAIN ParseStep(p) = Parse /\ ParseStep(p).valid
        /\ ParseStep(p).rest = SubSeq(rest, l + 1, Len(rest))
        /\ ParseStep(p).text = Append(p.text, u)
    <3>1. DOMAIN p = Parse /\ p.valid
      BY <2>2 DEF Gone
    <3> HIDE DEF u, l
    <3>2. QED
      BY <2>5, <2>6, <2>7, <3>1, ParseSteps DEF rest
  <2>9. Append(p.text, u) = SubSeq(t, 1, k)
    BY <2>2, OneMore DEF Gone, m
  <2>10. Gone(L[k], body, E[k], t, k)
    BY <2>1, <2>3, <2>4, <2>8, <2>9 DEF Gone
  <2>11. QED
    BY <2>3, <2>10
<1>10. Gone(L[m], body, E[m], t, m)
  <2>1. m \in 0..m
    BY <1>1
  <2> HIDE DEF S
  <2>2. m \in S
    BY <1>1, <1>8, <1>9, <2>1, Climbs
  <2>3. QED
    BY <2>2 DEF S
<1>11. DOMAIN L[m] = Parse /\ L[m].valid /\ L[m].rest = <<>> /\ L[m].text = t
  <2>1. SubSeq(body, Len(body) + 1, Len(body)) = <<>>
    BY <1>1
  <2>2. SubSeq(t, 1, m) = t
    BY DEF m
  <2>3. QED
    BY <1>3, <1>10, <2>1, <2>2 DEF Gone
<1> DEFINE R == {i \in 0..n : i >= m => L[i] = L[m]}
<1>12. n \in R
  <2>1. 0 \in R
    BY <1>1, <1>5
  <2>2. ASSUME NEW i \in 1..n, i - 1 \in R PROVE i \in R
    <3>1. CASE i <= m
      BY <1>1, <1>5, <3>1
    <3>2. CASE i > m
      <4>1. i - 1 >= m /\ L[i - 1] = L[m]
        BY <1>1, <1>5, <2>2, <3>2
      <4>2. ParseStep(L[m]) = L[m]
        BY <1>11 DEF ParseStep
      <4>3. QED
        BY <1>5, <1>7, <4>1, <4>2
    <3>3. QED
      BY <1>1, <1>5, <3>1, <3>2
  <2>3. n \in 0..n
    BY <1>5
  <2> HIDE DEF R
  <2>4. QED
    BY <1>5, <2>1, <2>2, <2>3, Climbs
<1>13. L[n] = L[m]
  BY <1>5, <1>12
<1>. QED BY <1>4, <1>6, <1>11, <1>13 DEF m

(* A text of such characters that is printed and typed again.              *)
LEMMA PrintedIsRead ==
  ASSUME NEW t \in Seq(Chars), t # <<>>, NEW most \in Nat, Len(t) <= most
  PROVE  QuoteString(Printed(t), most) = Text(t)
<1> DEFINE body == Printing(t)
           s == Between(body)
           p == Parsed(body, most)
<1>1. Printed(t) = s
  BY DEF Printed, Printing, Between
<1>2. PICK E : Laid(body, t, E)
  BY PrintingLaid
<1> HIDE DEF body
<1>3. Close(s) = Len(body) + 2
  BY <1>2, ClosesBehind
<1>4. p.valid /\ p.rest = <<>> /\ p.text = t
  BY <1>2, ParsedWhole
<1>5. body \in Seq(Chars) /\ Len(body) \in Nat
  BY <1>2 DEF Laid
<1>6. s[1] = SQ /\ s # <<>> /\ SubSeq(s, 2, (Len(body) + 2) - 1) = body
  <2>1. Len(s) = Len(body) + 2 /\ s[1] = SQ /\ SubSeq(s, 2, (Len(body) + 2) - 1) = body
    BY <1>5, BetweenIs
  <2>2. s # <<>>
    BY <1>5, <2>1
  <2>3. QED
    BY <2>1, <2>2
<1>7. Len(body) # 0
  <2>1. Len(t) <= Len(body)
    BY <1>2, ParsedWhole
  <2>2. Len(t) \in Nat /\ Len(t) # 0
    OBVIOUS
  <2>3. QED
    BY <1>5, <2>1, <2>2
<1> HIDE DEF s
<1>8. QuoteString(s, most) = IF Denotes(p) THEN Text(p.text) ELSE Warned
  <2>1. Len(body) + 2 # 0 /\ Len(body) + 2 # 2
    BY <1>5, <1>7
  <2> HIDE DEF p
  <2>2. QuoteString(s, most)
          = IF Denotes(Parsed(SubSeq(s, 2, (Len(body) + 2) - 1), most))
            THEN Text(Parsed(SubSeq(s, 2, (Len(body) + 2) - 1), most).text) ELSE Warned
    BY <1>3, <1>6, <2>1 DEF QuoteString
  <2>3. QED
    BY <1>6, <2>2 DEF p
<1>. QED BY <1>1, <1>4, <1>8 DEF Denotes

(* Of every context the separators and the end of record are texts that    *)
(* are read as they are printed.                                           *)
LEMMA ContextPrintedBack ==
  ASSUME SInv
  PROVE  PrintedBack
<1>1. ASSUME NEW i \in 1..Depth PROVE IsEor(contexts[i].eor)
  BY <1>1 DEF SInv, Private, IsContext, Depth
<1>2. ASSUME NEW i \in 1..Depth, NEW field \in Separators, contexts[i][field] \in 1..254
      PROVE  QuoteString(Prints(contexts[i], field), 1) = Text(<<contexts[i][field]>>)
  <2> DEFINE u == contexts[i][field]
  <2>1. u \in Chars /\ field # "eor"
    BY <1>2 DEF Chars, Separators
  <2>2. Prints(contexts[i], field) = Printed(<<u>>)
    BY <2>1 DEF Prints
  <2> HIDE DEF u
  <2>3. <<u>> \in Seq(Chars) /\ <<u>> # <<>> /\ Len(<<u>>) <= 1 /\ 1 \in Nat
    BY <2>1
  <2>4. QuoteString(Printed(<<u>>), 1) = Text(<<u>>)
    BY <2>3, PrintedIsRead
  <2>5. QED
    BY <2>2, <2>4 DEF u
<1>3. ASSUME NEW i \in 1..Depth, contexts[i].eor # <<>>
      PROVE  QuoteString(Prints(contexts[i], "eor"), 7) = Text(contexts[i].eor)
  <2> DEFINE t == contexts[i].eor
  <2>1. t \in Seq(Chars) /\ t # <<>> /\ Len(t) <= 7 /\ 7 \in Nat
    BY <1>1, <1>3 DEF IsEor
  <2>2. Prints(contexts[i], "eor") = Printed(t)
    BY DEF Prints
  <2> HIDE DEF t
  <2>3. QuoteString(Printed(t), 7) = Text(t)
    BY <2>1, PrintedIsRead
  <2>4. QED
    BY <2>2, <2>3 DEF t
<1>4. QED
  BY <1>2, <1>3 DEF PrintedBack

(* CONTEXT, DELIMITER and EOR print each separator as a string, with an    *)
(* escape for every character that a string cannot hold as it is           *)
(* (chr_cstrlit); read again, the string gives that separator.             *)
THEOREM PrintedAlwaysBack == Spec => []PrintedBack
<1>1. Init => SInv
  BY InitHolds
<1>2. SInv /\ [Next]_vars => SInv'
  BY NextPreserves DEF Preserved
<1>3. SInv => PrintedBack
  BY ContextPrintedBack
<1>4. QED
  BY <1>1, <1>2, <1>3, PTL DEF Spec
=============================================================================
