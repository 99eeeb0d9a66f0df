--------------------------- MODULE ComWalk_proofs ---------------------------
(***************************************************************************)
(* Proofs about the two walkers, for a tree of any size and shape and any  *)
(* limit on the depth: the open levels are one path, a walk meets the      *)
(* elements in outline order, and the COM walker's Path leads to its stop. *)
(***************************************************************************)
EXTENDS ComWalk, WellFoundedInduction, SequenceTheorems, TLAPS

-----------------------------------------------------------------------------
(* A set of numbers has a least one, and a bounded one has a greatest.      *)
LEMMA LeastExists ==
    ASSUME NEW S, S \subseteq Nat, S # {}
    PROVE  \E x \in S : \A y \in S : x <= y
<1> DEFINE R == OpToRel(<, Nat)
<1>1. IsWellFoundedOn(R, Nat)
  BY NatLessThanWellFounded
<1>2. PICK x \in S : \A y \in S : ~(<<y, x>> \in R)
  BY <1>1, WFMin
<1>3. ASSUME NEW y \in S PROVE x <= y
  <2>1. x \in Nat /\ y \in Nat
    OBVIOUS
  <2>2. <<y, x>> \in R <=> y < x
    BY <2>1 DEF OpToRel
  <2>3. ~(<<y, x>> \in R)
    BY <1>2
  <2> HIDE DEF R
  <2> QED
    BY <2>1, <2>2, <2>3
<1> QED
  BY <1>3

LEMMA MinIsLeast ==
    ASSUME NEW S, S \subseteq Nat, S # {}
    PROVE  Min(S) \in S /\ \A y \in S : Min(S) <= y
BY LeastExists DEF Min

LEMMA MaxIsGreatest ==
    ASSUME NEW S, NEW n \in Nat, S \subseteq 1..n, S # {}
    PROVE  Max(S) \in S /\ \A y \in S : Max(S) >= y
<1> DEFINE T == {n - y : y \in S}
<1>1. \A y \in S : y \in 1..n /\ n - y \in Nat
  OBVIOUS
<1>2. T \subseteq Nat /\ T # {}
  BY <1>1
<1>3. PICK x \in T : \A y \in T : x <= y
  BY <1>2, LeastExists
<1>4. PICK z \in S : x = n - z
  OBVIOUS
<1>5. ASSUME NEW y \in S PROVE z >= y
  <2>1. x <= n - y
    BY <1>3
  <2> QED
    BY <1>1, <1>4, <2>1
<1> QED
  BY <1>5 DEF Max

(* What an outline is.                                                      *)
LEMMA OutlineFacts ==
    ASSUME up \in Outlines
    PROVE  \E n \in 0..N :
             /\ Node = 1..n
             /\ up \in [1..n -> 0..n]
             /\ \A c \in 1..n : up[c] < c
             /\ \A c \in 1..n : \A m \in up[c] + 1 .. c - 1 : up[m] >= up[c]
<1>1. PICK n \in 0..N : up \in { p \in [1..n -> 0..n] :
        \A c \in 1..n : /\ p[c] < c
                        /\ \A m \in p[c] + 1 .. c - 1 : p[m] >= p[c] }
  BY DEF Outlines
<1> QED
  BY <1>1 DEF Node

LEMMA NodeFacts ==
    ASSUME up \in Outlines
    PROVE  /\ Node \subseteq 1..N /\ Node \subseteq Nat /\ End \notin Node /\ End \in Nat
           /\ \A m \in Node : m \in 1..N /\ up[m] \in 0..N /\ up[m] < m
           /\ \A o : Kids(o) \subseteq Node
           /\ Node # {} => 1 \in Node /\ up[1] = 0
           /\ \A m \in Node : \A k \in 1..m : k \in Node
           /\ \A c \in Node : \A m \in Node :
                up[c] < m /\ m < c => up[m] >= up[c]
<1>1. PICK n \in 0..N :
             /\ Node = 1..n
             /\ up \in [1..n -> 0..n]
             /\ \A c \in 1..n : up[c] < c
             /\ \A c \in 1..n : \A m \in up[c] + 1 .. c - 1 : up[m] >= up[c]
  BY OutlineFacts
<1> QED
  BY <1>1, NAssumption DEF End, Kids

LEMMA FirstOfFacts ==
    ASSUME up \in Outlines, NEW S, S \subseteq Node
    PROVE  /\ S = {} => FirstOf(S) = End
           /\ S # {} => FirstOf(S) \in S /\ \A y \in S : FirstOf(S) <= y
           /\ FirstOf(S) \in 1..End
           /\ FirstOf(S) = End <=> S = {}
<1>1. S = {} => FirstOf(S) = End
  BY DEF FirstOf
<1>2. S # {} => FirstOf(S) \in S /\ \A y \in S : FirstOf(S) <= y
  BY NodeFacts, MinIsLeast DEF FirstOf
<1> QED
  BY <1>1, <1>2, NodeFacts, NAssumption DEF End

-----------------------------------------------------------------------------
(* The walker's invariant.                                                  *)
WalkerInv == TypeOK /\ WalkerIInv

LEMMA LevelFacts ==
    ASSUME TypeOK
    PROVE  /\ Len(levels) \in Nat \ {0} /\ Len(levels) \in 1 .. MaxDepth + 1
           /\ Len(levels) \in Nat /\ Len(levels) > 0
           /\ DOMAIN levels = 1..Len(levels)
           /\ \A i \in 1..Len(levels) : /\ levels[i] \in Level
                                        /\ levels[i].of \in 0..N
                                        /\ levels[i].at \in 1..End
                                        /\ levels[i].fresh \in BOOLEAN
           /\ Top = levels[Len(levels)]
<1>1. levels \in Seq(Level) /\ Len(levels) \in 1 .. MaxDepth + 1
  BY DEF TypeOK
<1>2. /\ Len(levels) \in Nat \ {0} /\ DOMAIN levels = 1..Len(levels)
      /\ Len(levels) \in Nat /\ Len(levels) > 0
  BY <1>1, MaxDepthAssumption
<1>3. \A i \in 1..Len(levels) : levels[i] \in Level
  BY <1>1
<1> QED
  BY <1>1, <1>2, <1>3 DEF Level, Top

(* Advancing a level.                                                       *)
LEMMA SteppedFacts ==
    ASSUME TypeOK, NEW i \in 1..Len(levels),
           levels[i].at \in Kids(levels[i].of) \cup {End}
    PROVE  LET r == Stepped(levels[i]) IN
           /\ r \in Level /\ r.of = levels[i].of /\ ~r.fresh
           /\ r.at \in Kids(r.of) \cup {End}
           /\ r.at >= levels[i].at
           /\ levels[i].fresh => r.at = levels[i].at
           /\ ~levels[i].fresh =>
                /\ r.at = End => \A n \in Kids(r.of) : n <= levels[i].at
                /\ r.at # End => r.at > levels[i].at /\ \A n \in Kids(r.of) :
                                    n > levels[i].at => r.at <= n
<1>1. PICK l \in Level : l = levels[i]
  BY LevelFacts
<1> DEFINE S == {n \in Kids(l.of) : n > l.at}
<1>2. /\ l.of \in 0..N /\ l.at \in 1..End /\ l.fresh \in BOOLEAN
      /\ l.at \in Kids(l.of) \cup {End}
  BY <1>1 DEF Level
<1>3. S \subseteq Node /\ \A n \in Kids(l.of) : n \in Nat
  BY NodeFacts DEF TypeOK
<1>4. /\ S = {} => FirstOf(S) = End
      /\ S # {} => FirstOf(S) \in S /\ \A y \in S : FirstOf(S) <= y
      /\ FirstOf(S) \in 1..End
      /\ FirstOf(S) = End <=> S = {}
  BY <1>3, FirstOfFacts DEF TypeOK
<1>5. PICK r : r = Stepped(l)
  OBVIOUS
<1>6. /\ r = [of |-> l.of, at |-> IF l.fresh THEN l.at ELSE FirstOf(S), fresh |-> FALSE]
  BY <1>5 DEF Stepped, Level
<1>7. r.of = l.of /\ ~r.fresh /\ r.at = (IF l.fresh THEN l.at ELSE FirstOf(S))
  BY <1>6
<1>8. r \in Level
  BY <1>2, <1>4, <1>6 DEF Level
<1>9. End \in Nat /\ \A n \in Kids(l.of) : n \in 1..N
  BY NodeFacts DEF TypeOK
<1>10. r.at \in Kids(r.of) \cup {End} /\ r.at >= l.at
  <2>1. CASE l.fresh
    BY <2>1, <1>2, <1>7
  <2>2. CASE ~l.fresh /\ S = {}
    <3>1. r.at = End /\ l.at <= End
      BY <2>2, <1>2, <1>4, <1>7, NAssumption DEF End
    <3> QED
      BY <3>1, <1>2, <1>9
  <2>3. CASE ~l.fresh /\ S # {}
    <3>1. r.at \in Kids(l.of) /\ r.at > l.at
      BY <2>3, <1>4, <1>7
    <3>2. r.at \in Nat /\ l.at \in Nat
      BY <3>1, <1>2, <1>9, NAssumption DEF End
    <3> QED
      BY <3>1, <3>2, <1>7
  <2> QED
    BY <2>1, <2>2, <2>3
<1>11. ~l.fresh =>
         /\ r.at = End => \A n \in Kids(r.of) : n <= l.at
         /\ r.at # End => r.at > l.at /\ \A n \in Kids(r.of) : n > l.at => r.at <= n
  <2>1. ASSUME ~l.fresh, r.at = End, NEW n \in Kids(r.of) PROVE n <= l.at
    BY <2>1, <1>2, <1>3, <1>4, <1>7, <1>9
  <2>2. ASSUME ~l.fresh, r.at # End PROVE r.at \in S /\ \A n \in S : r.at <= n
    BY <2>2, <1>4, <1>7
  <2> QED
    BY <2>1, <2>2, <1>7
<1> QED
  BY <1>1, <1>5, <1>7, <1>8, <1>10, <1>11

(* What a step does to the levels: it cuts the innermost ones off, ...      *)
Cut(k) ==
    /\ k \in 1..Len(levels) /\ Len(levels') = k
    /\ levels' \in Seq(Level)
    /\ \A i \in 1..k : levels'[i] = levels[i]
    /\ up' = up /\ lists' = lists

(* ... or advances one and cuts off those below, which have nothing more, ...*)
Advanced(k) ==
    /\ k \in 1..Len(levels) /\ Len(levels') = k
    /\ levels' \in Seq(Level)
    /\ \A i \in 1 .. k - 1 : levels'[i] = levels[i]
    /\ levels'[k] = Stepped(levels[k])
    /\ k > 1 => ~CursAtEnd(levels'[k])
    /\ \A i \in k + 1 .. Len(levels) : CursAtEnd(Stepped(levels[i]))
    /\ up' = up /\ lists' = lists

(* ... or opens one more.                                                   *)
Descended ==
    /\ Len(levels') = Len(levels) + 1 /\ Len(levels) <= MaxDepth
    /\ levels' \in Seq(Level)
    /\ \A i \in 1..Len(levels) : levels'[i] = levels[i]
    /\ levels'[Len(levels) + 1] = Opened(Top.at, TRUE)
    /\ ~AtEnd /\ Kids(Top.at) # {}
    /\ up' = up /\ lists' = lists

LEMMA CutShape ==
    ASSUME TypeOK, NEW k \in 1..Len(levels), levels' = SubSeq(levels, 1, k),
           UNCHANGED <<up, lists>>
    PROVE  Cut(k)
<1>1. Len(levels) \in Nat /\ \A i \in 1..Len(levels) : levels[i] \in Level
  BY LevelFacts
<1>2. \A i \in 1..k : levels[i] \in Level
  BY <1>1
<1>3. /\ SubSeq(levels, 1, k) \in Seq(Level)
      /\ Len(SubSeq(levels, 1, k)) = k
      /\ \A i \in 1..k : SubSeq(levels, 1, k)[i] = levels[i]
  BY <1>1, <1>2, SubSeqProperties
<1> QED
  BY <1>3 DEF Cut

LEMMA NextShape ==
    ASSUME WalkerInv, WalkerNext
    PROVE  \E k \in 1..Len(levels) : Advanced(k)
<1> DEFINE more == {i \in 1..Len(levels) : ~CursAtEnd(Stepped(levels[i]))}
           stop == IF more = {} THEN 1 ELSE Max(more)
<1>1. /\ Len(levels) \in Nat \ {0} /\ DOMAIN levels = 1..Len(levels)
      /\ \A i \in 1..Len(levels) : levels[i] \in Level
  BY LevelFacts DEF WalkerInv
<1>2. more # {} => Max(more) \in more /\ \A i \in more : Max(more) >= i
  BY <1>1, MaxIsGreatest
<1>3. PICK k \in 1..Len(levels) : k = stop
  <2>1. more = {} => stop = 1
    OBVIOUS
  <2>2. more # {} => stop = Max(more) /\ stop \in 1..Len(levels)
    BY <1>2
  <2> HIDE DEF stop
  <2> QED
    BY <1>1, <2>1, <2>2
<1>4. \A i \in k + 1 .. Len(levels) : i \notin more
  BY <1>1, <1>2, <1>3
<1>5. k > 1 => k \in more
  BY <1>2, <1>3
<1>6. /\ levels' = Append(SubSeq(levels, 1, k - 1), Stepped(levels[k]))
      /\ UNCHANGED <<up, lists>>
  BY <1>3 DEF WalkerNext
<1>7. PICK r \in Level : r = Stepped(levels[k])
  BY <1>3, SteppedFacts DEF WalkerInv, WalkerIInv
<1>8. PICK q \in Seq(Level) : /\ q = SubSeq(levels, 1, k - 1)
                              /\ Len(q) = k - 1
                              /\ \A i \in 1 .. k - 1 : q[i] = levels[i]
  <2>1. \A i \in 1 .. k - 1 : levels[i] \in Level
    BY <1>1
  <2>2. /\ SubSeq(levels, 1, k - 1) \in Seq(Level)
        /\ Len(SubSeq(levels, 1, k - 1)) = IF 1 <= k - 1 THEN k - 1 - 1 + 1 ELSE 0
        /\ \A i \in 1 .. k - 1 - 1 + 1 : SubSeq(levels, 1, k - 1)[i] = levels[1 + i - 1]
    BY <2>1, <1>1, SubSeqProperties
  <2>3. Len(SubSeq(levels, 1, k - 1)) = k - 1
    BY <2>2, <1>1
  <2>4. \A i \in 1 .. k - 1 : SubSeq(levels, 1, k - 1)[i] = levels[i]
    BY <2>2, <1>1
  <2> QED
    BY <2>2, <2>3, <2>4
<1>9. levels' = Append(q, r)
  BY <1>6, <1>7, <1>8
<1>10. /\ levels' \in Seq(Level) /\ Len(levels') = k
       /\ \A i \in 1 .. k - 1 : levels'[i] = levels[i]
       /\ levels'[k] = r
  BY <1>8, <1>9, <1>1, AppendProperties
<1> QED
  BY <1>1, <1>4, <1>5, <1>6, <1>7, <1>10 DEF Advanced

LEMMA PushShape ==
    ASSUME WalkerInv, Push
    PROVE  \/ PushAnswer # "S_OK" /\ levels' = levels /\ Cut(Len(levels))
           \/ PushAnswer = "S_OK" /\ Descended
<1>1. /\ Len(levels) \in Nat \ {0} /\ levels \in Seq(Level)
      /\ Top = levels[Len(levels)] /\ Top.at \in 1..End
      /\ MaxDepth \in Nat
  BY LevelFacts, MaxDepthAssumption DEF WalkerInv, TypeOK
<1>2. CASE PushAnswer # "S_OK"
  BY <1>1, <1>2 DEF Push, Cut
<1>3. CASE PushAnswer = "S_OK"
  <2>1. Len(levels) <= MaxDepth /\ ~AtEnd /\ Kids(Top.at) # {}
    <3>1. ~(Len(levels) > MaxDepth)
      BY <1>3, Zenon DEF PushAnswer
    <3>2. Len(levels) <= MaxDepth
      BY <3>1, <1>1
    <3>3. ~AtEnd
      BY <1>3, <3>1, <3>2, Zenon DEF PushAnswer
    <3>4. Kids(Top.at) # {}
      BY <1>3, <3>1, <3>2, <3>3, Zenon DEF PushAnswer
    <3> QED
      BY <3>2, <3>3, <3>4
  <2>2. PICK r : r = Opened(Top.at, TRUE)
    OBVIOUS
  <2>3. r \in Level
    <3>1. Top.at \in 0..N
      BY <1>1, <2>1, NAssumption DEF AtEnd, CursAtEnd, End
    <3>2. FirstOf(Kids(Top.at)) \in 1..End
      BY NodeFacts, FirstOfFacts DEF WalkerInv, TypeOK
    <3> QED
      BY <2>2, <3>1, <3>2 DEF Opened, Level
  <2>4. levels' = Append(levels, r) /\ up' = up /\ lists' = lists
    BY <1>3, <2>2 DEF Push
  <2>5. /\ levels' \in Seq(Level) /\ Len(levels') = Len(levels) + 1
        /\ \A i \in 1..Len(levels) : levels'[i] = levels[i]
        /\ levels'[Len(levels) + 1] = r
    BY <1>1, <2>3, <2>4, AppendProperties
  <2> QED
    BY <1>3, <2>1, <2>2, <2>4, <2>5 DEF Descended
<1> QED
  BY <1>2, <1>3

LEMMA PopShape ==
    ASSUME WalkerInv, Pop \/ Break
    PROVE  \E k \in 1..Len(levels) : Cut(k)
<1>1. Len(levels) \in Nat \ {0} /\ levels \in Seq(Level)
  BY LevelFacts DEF WalkerInv, TypeOK
<1>2. CASE Break
  BY <1>1, <1>2, CutShape DEF Break, WalkerInv
<1>3. CASE Pop /\ Depth = 0
  BY <1>1, <1>3 DEF Pop, Cut
<1>4. CASE Pop /\ Depth # 0
  <2>1. Depth \in 1..Len(levels)
    <3>1. PICK n \in Nat : n = Len(levels) /\ n > 0
      BY <1>1
    <3>2. n - 1 # 0 /\ Depth = n - 1
      BY <1>4, <3>1 DEF Depth
    <3>3. n - 1 \in 1..n
      BY <3>1, <3>2
    <3> QED
      BY <3>1, <3>2, <3>3
  <2> QED
    BY <1>4, <2>1, CutShape DEF Pop, WalkerInv
<1> QED
  BY <1>2, <1>3, <1>4

-----------------------------------------------------------------------------
(* Every step keeps the levels one path: the invariant, of any levels.      *)
OnePath(q) ==
    /\ q[1].of = 0
    /\ \A i \in 1..Len(q) : q[i].at \in Kids(q[i].of) \cup {End}
    /\ \A i \in 2..Len(q) : q[i].of = q[i - 1].at /\ q[i].at \in Kids(q[i].of)
    /\ \A i, j \in 1..Len(q) : i <= j => q[i].at <= q[j].at
    /\ \A i \in 1..Len(q) : q[i].fresh => q[i].at = FirstOf(Kids(q[i].of))

LEMMA IInvIsOnePath ==
    ASSUME up' = up
    PROVE  /\ WalkerIInv <=> OnePath(levels)
           /\ WalkerIInv' <=> OnePath(levels')
<1>1. WalkerIInv <=> OnePath(levels)
  BY DEF WalkerIInv, OnePath, LevelsAreAPath
<1>2. WalkerIInv' <=> OnePath(levels')
  <2>1. \A o : {n \in DOMAIN up' : up'[n] = o} = Kids(o)
    BY DEF Kids, Node
  <2>2. \A i \in 1..Len(levels') : {n \in DOMAIN up' : up'[n] = levels'[i].of} = Kids(levels'[i].of)
    BY <2>1
  <2> QED
    BY DEF WalkerIInv, OnePath, LevelsAreAPath, Kids, Node
<1> QED
  BY <1>1, <1>2

LEMMA TypeStays ==
    ASSUME TypeOK, up' = up, lists' = lists, levels' \in Seq(Level),
           Len(levels') \in 1 .. MaxDepth + 1
    PROVE  TypeOK'
<1>1. up' \in Outlines
  BY DEF TypeOK, Outlines
<1> QED
  BY <1>1 DEF TypeOK, Node

LEMMA CutKeeps ==
    ASSUME WalkerInv, NEW k \in 1..Len(levels), Cut(k)
    PROVE  WalkerInv'
<1>1. Len(levels) \in Nat \ {0} /\ Len(levels) \in 1 .. MaxDepth + 1 /\ MaxDepth \in Nat
  BY LevelFacts, MaxDepthAssumption DEF WalkerInv
<1>2. TypeOK'
  BY <1>1, TypeStays DEF WalkerInv, Cut
<1>3. PICK q : q = levels
  OBVIOUS
<1>4. PICK r : r = levels'
  OBVIOUS
<1>5. Len(r) = k /\ k \in 1..Len(q) /\ Len(q) \in Nat /\ \A i \in 1..k : r[i] = q[i]
  BY <1>1, <1>3, <1>4 DEF Cut
<1>6. OnePath(q)
  BY <1>3, IInvIsOnePath DEF WalkerInv, Cut
<1>7. OnePath(r)
  <2>1. \A i \in 1..k : i \in 1..Len(q) /\ r[i] = q[i]
    BY <1>5
  <2>2. r[1].of = 0 /\ \A i \in 1..k : r[i].at \in Kids(r[i].of) \cup {End}
    BY <2>1, <1>5, <1>6 DEF OnePath
  <2>3. ASSUME NEW i \in 2..k PROVE r[i].of = r[i - 1].at /\ r[i].at \in Kids(r[i].of)
    <3>1. i \in 1..k /\ i - 1 \in 1..k /\ i \in 2..Len(q)
      BY <1>5
    <3>2. r[i] = q[i] /\ r[i - 1] = q[i - 1]
      BY <3>1, <2>1
    <3> QED
      BY <3>1, <3>2, <1>6 DEF OnePath
  <2>4. \A i, j \in 1..k : i <= j => r[i].at <= r[j].at
    BY <2>1, <1>6 DEF OnePath
  <2>5. \A i \in 1..k : r[i].fresh => r[i].at = FirstOf(Kids(r[i].of))
    BY <2>1, <1>6 DEF OnePath
  <2> QED
    BY <1>5, <2>2, <2>3, <2>4, <2>5 DEF OnePath
<1> QED
  BY <1>2, <1>4, <1>7, IInvIsOnePath DEF WalkerInv, Cut

LEMMA AdvancedKeeps ==
    ASSUME WalkerInv, NEW k \in 1..Len(levels), Advanced(k)
    PROVE  WalkerInv'
<1>1. Len(levels) \in Nat \ {0} /\ Len(levels) \in 1 .. MaxDepth + 1 /\ MaxDepth \in Nat
  BY LevelFacts, MaxDepthAssumption DEF WalkerInv
<1>2. TypeOK'
  BY <1>1, TypeStays DEF WalkerInv, Advanced
<1>3. PICK q : q = levels
  OBVIOUS
<1>4. PICK r : r = levels'
  OBVIOUS
<1>5. /\ Len(r) = k /\ k \in 1..Len(q) /\ Len(q) \in Nat
      /\ \A i \in 1 .. k - 1 : r[i] = q[i]
      /\ k > 1 => r[k].at # End
  BY <1>1, <1>3, <1>4 DEF Advanced, CursAtEnd
<1>6. OnePath(q)
  BY <1>3, IInvIsOnePath DEF WalkerInv, Advanced
<1>7. /\ r[k].of = q[k].of /\ ~r[k].fresh /\ r[k].at \in Kids(r[k].of) \cup {End} /\ r[k].at >= q[k].at
  BY <1>3, <1>4, SteppedFacts DEF WalkerInv, WalkerIInv, Advanced
<1>8. \A i \in 1..k : q[i].at \in Nat /\ r[i].at \in Nat
  <2>1. \A i \in 1..k : i \in 1..Len(levels) /\ i \in 1..Len(levels')
    BY <1>3, <1>4, <1>5
  <2>2. \A i \in 1..Len(levels) : levels[i].at \in 1..End
    BY LevelFacts DEF WalkerInv
  <2>3. \A i \in 1..Len(levels') : levels'[i] \in Level
    BY DEF Advanced
  <2> QED
    BY <2>1, <2>2, <2>3, <1>3, <1>4, NAssumption DEF Level, End
<1>9. OnePath(r)
  <2>1. r[1].of = 0
    BY <1>5, <1>6, <1>7 DEF OnePath
  <2>2. \A i \in 1..k : r[i].at \in Kids(r[i].of) \cup {End}
    BY <1>5, <1>6, <1>7 DEF OnePath
  <2>3. ASSUME NEW i \in 2..k PROVE r[i].of = r[i - 1].at /\ r[i].at \in Kids(r[i].of)
    <3>1. i - 1 \in 1 .. k - 1 /\ i \in 2..Len(q) /\ r[i - 1] = q[i - 1]
      BY <1>5
    <3>2. q[i].of = q[i - 1].at /\ q[i].at \in Kids(q[i].of)
      BY <3>1, <1>6 DEF OnePath
    <3>3. CASE i < k
      <4>1. r[i] = q[i]
        BY <3>3, <1>5
      <4> QED
        BY <4>1, <3>1, <3>2
    <3>4. CASE i = k
      <4>1. r[k].at # End /\ r[k].of = q[k].of /\ r[k].at \in Kids(r[k].of)
        BY <3>4, <1>5, <1>7
      <4> QED
        BY <3>4, <4>1, <3>1, <3>2
    <3> QED
      BY <3>3, <3>4, <1>5
  <2>4. \A i \in 1..k : i \in 1..Len(q) /\ q[i].at <= r[i].at
    BY <1>5, <1>7, <1>8
  <2>5. \A i \in 1..k : q[i].at <= q[k].at
    BY <1>5, <1>6, <2>4 DEF OnePath
  <2>6. ASSUME NEW i \in 1..k, NEW j \in 1..k, i <= j PROVE r[i].at <= r[j].at
    <3>1. CASE j < k
      <4>1. r[i] = q[i] /\ r[j] = q[j]
        BY <2>6, <3>1, <1>5
      <4> QED
        BY <4>1, <2>6, <2>4, <1>6 DEF OnePath
    <3>2. CASE j = k /\ i < k
      <4>1. r[i] = q[i]
        BY <3>2, <1>5
      <4>2. q[i].at <= q[k].at /\ q[k].at <= r[k].at
        BY <2>4, <2>5, <1>5
      <4> QED
        BY <3>2, <4>1, <4>2, <1>5, <1>8
    <3>3. CASE i = k /\ j = k
      BY <3>3, <1>8
    <3> QED
      BY <2>6, <3>1, <3>2, <3>3, <1>5
  <2>7. \A i \in 1..k : r[i].fresh => r[i].at = FirstOf(Kids(r[i].of))
    BY <1>5, <1>6, <1>7 DEF OnePath
  <2> QED
    BY <1>5, <2>1, <2>2, <2>3, <2>6, <2>7 DEF OnePath
<1> QED
  BY <1>2, <1>4, <1>9, IInvIsOnePath DEF WalkerInv, Advanced

LEMMA DescendedKeeps ==
    ASSUME WalkerInv, Descended
    PROVE  WalkerInv'
<1>1. Len(levels) \in Nat \ {0} /\ Len(levels) \in 1 .. MaxDepth + 1 /\ MaxDepth \in Nat
  BY LevelFacts, MaxDepthAssumption DEF WalkerInv
<1>2. TypeOK'
  BY <1>1, TypeStays DEF WalkerInv, Descended
<1>3. PICK q : q = levels
  OBVIOUS
<1>4. PICK r : r = levels'
  OBVIOUS
<1>5. PICK k \in Nat : k = Len(q) /\ k > 0
  BY <1>1, <1>3
<1>6. /\ Len(r) = k + 1 /\ \A i \in 1..k : r[i] = q[i]
      /\ r[k + 1].of = q[k].at /\ r[k + 1].at = FirstOf(Kids(q[k].at))
      /\ Kids(q[k].at) # {}
  BY <1>3, <1>4, <1>5 DEF Descended, Opened, Top
<1>7. OnePath(q)
  BY <1>3, IInvIsOnePath DEF WalkerInv, Descended
<1>8. r[k + 1].at \in Kids(q[k].at)
  BY <1>6, NodeFacts, FirstOfFacts DEF WalkerInv, TypeOK
<1>9. r[k + 1].at \in Nat /\ q[k].at \in Nat /\ r[k + 1].at > q[k].at
  BY <1>8, NodeFacts DEF WalkerInv, TypeOK, Kids
<1>10. OnePath(r)
  <2>1. r[1].of = 0
    BY <1>5, <1>6, <1>7 DEF OnePath
  <2>2. \A i \in 1 .. k + 1 : r[i].at \in Kids(r[i].of) \cup {End}
    BY <1>5, <1>6, <1>7, <1>8 DEF OnePath
  <2>3. \A i \in 2 .. k + 1 : r[i].of = r[i - 1].at /\ r[i].at \in Kids(r[i].of)
    BY <1>5, <1>6, <1>7, <1>8 DEF OnePath
  <2>4. \A i \in 1..k : q[i].at <= q[k].at /\ q[i].at \in Nat
    <3>1. \A i \in 1..k : q[i].at \in 1..End
      BY <1>3, <1>5, LevelFacts DEF WalkerInv
    <3> QED
      BY <3>1, <1>5, <1>7, NAssumption DEF OnePath, End
  <2>5. \A i, j \in 1 .. k + 1 : i <= j => r[i].at <= r[j].at
    BY <1>5, <1>6, <1>7, <1>9, <2>4 DEF OnePath
  <2>6. \A i \in 1 .. k + 1 : r[i].fresh => r[i].at = FirstOf(Kids(r[i].of))
    BY <1>5, <1>6, <1>7 DEF OnePath
  <2> QED
    BY <1>6, <2>1, <2>2, <2>3, <2>5, <2>6 DEF OnePath
<1> QED
  BY <1>2, <1>4, <1>10, IInvIsOnePath DEF WalkerInv, Descended

LEMMA WalkerStep ==
    ASSUME WalkerInv, WalkerNext \/ Push \/ Pop \/ Break
    PROVE  WalkerInv' /\ up' = up
<1>1. CASE WalkerNext
  BY <1>1, NextShape, AdvancedKeeps DEF Advanced
<1>2. CASE Push
  BY <1>2, PushShape, CutKeeps, DescendedKeeps, LevelFacts DEF Cut, Descended, WalkerInv
<1>3. CASE Pop \/ Break
  BY <1>3, PopShape, CutKeeps DEF Cut
<1> QED
  BY <1>1, <1>2, <1>3

LEMMA WalkerStart == Init => WalkerInv
<1> SUFFICES ASSUME Init PROVE WalkerInv
  OBVIOUS
<1>1. up \in Outlines /\ lists \subseteq Node
  BY DEF Init
<1>2. FirstOf(Kids(0)) \in 1..End /\ FirstOf(Kids(0)) \in Kids(0) \cup {End}
  BY <1>1, NodeFacts, FirstOfFacts
<1>3. PICK l : l = Opened(0, FALSE)
  OBVIOUS
<1>4. l = [of |-> 0, at |-> FirstOf(Kids(0)), fresh |-> FALSE]
  BY <1>3 DEF Opened
<1>9. l \in Level /\ l.of = 0 /\ ~l.fresh /\ l.at = FirstOf(Kids(0))
  BY <1>2, <1>4, NAssumption DEF Level
<1>5. levels = <<l>>
  BY <1>3 DEF Init
<1>6. levels \in Seq(Level) /\ Len(levels) = 1 /\ levels[1] = l
  BY <1>5, <1>9
<1>7. TypeOK
  BY <1>1, <1>6, MaxDepthAssumption DEF TypeOK
<1>8. WalkerIInv
  <2>1. l.at \in Nat
    BY <1>2, <1>9, NAssumption DEF End
  <2> QED
    BY <1>2, <1>9, <1>6, <2>1 DEF WalkerIInv, LevelsAreAPath
<1> QED
  BY <1>7, <1>8 DEF WalkerInv

-----------------------------------------------------------------------------
(* The names the COM walker keeps.                                          *)
Names == Seq(Node \cup {NoName})

ComInv ==
    /\ WalkerInv
    /\ ancestry \in Names
    /\ told \in {NoDepth} \cup 0..MaxDepth
    /\ ComIInv

LEMMA ResizedFacts ==
    ASSUME ancestry \in Names, NEW n \in Nat
    PROVE  /\ Resized(n) \in Names
           /\ Len(Resized(n)) = n
           /\ \A i \in 1..n : i <= Len(ancestry) => Resized(n)[i] = ancestry[i]
<1>1. PICK S : S = Node \cup {NoName}
  OBVIOUS
<1>2. ancestry \in Seq(S) /\ NoName \in S
  BY <1>1 DEF Names
<1>3. \A i \in 1..Len(ancestry) : ancestry[i] \in S
  BY <1>2
<1>4. Resized(n) \in [1..n -> S]
  BY <1>2, <1>3 DEF Resized
<1>5. Resized(n) \in Seq(S) /\ Len(Resized(n)) = n
  BY <1>4, IsASeq
<1>6. \A i \in 1..n : i <= Len(ancestry) => Resized(n)[i] = ancestry[i]
  BY DEF Resized
<1> QED
  BY <1>1, <1>5, <1>6 DEF Names

LEMMA TrackKeeps ==
    ASSUME ComInv, WalkerInv', Track, up' = up,
           NEW k \in 1..Len(levels), Len(levels') = k,
           \A i \in 1 .. k - 1 : levels'[i] = levels[i]
    PROVE  ancestry' \in Names' /\ ComIInv'
<1>1. /\ Len(levels) \in Nat \ {0} /\ k \in Nat /\ k > 0
      /\ Names' = Names /\ Node' = Node
  BY LevelFacts DEF ComInv, WalkerInv, Names, Node
<1>2. PICK t : t = levels'[k]
  OBVIOUS
<1>3. /\ Top' = t /\ Depth' = k - 1
      /\ AtEnd' <=> t.at = End
      /\ Pending' <=> t.fresh
  BY <1>2 DEF Top, Depth, AtEnd, CursAtEnd, Pending
<1>4. \A i \in 1 .. k - 1 :
        ~levels'[i].fresh /\ levels'[i].at # End =>
           i <= Len(ancestry) /\ ancestry[i] = levels'[i].at
  BY <1>1 DEF ComInv, ComIInv, CursAtEnd
<1>7. WalkerIInv'
  BY DEF WalkerInv
<1>5. CASE t.at = End
  <2>1. ancestry' = ancestry
    BY <1>3, <1>5 DEF Track
  <2>2. \A i \in 1..k : ~levels'[i].fresh /\ levels'[i].at # End =>
           i <= Len(ancestry) /\ ancestry[i] = levels'[i].at
    BY <1>1, <1>2, <1>4, <1>5
  <2> QED
    BY <1>1, <1>3, <1>5, <1>7, <2>1, <2>2 DEF ComInv, ComIInv, CursAtEnd
<1>6. CASE t.at # End
  <2>1. t.at \in Node
    <3>1. t.at \in Kids(t.of)' \cup {End}
      BY <1>1, <1>2 DEF WalkerInv, WalkerIInv
    <3> QED
      BY <3>1, <1>6 DEF Kids, Node
  <2>2. PICK a \in Names : /\ a = Resized(k - 1) /\ Len(a) = k - 1
                           /\ \A i \in 1 .. k - 1 : i <= Len(ancestry) => a[i] = ancestry[i]
    BY <1>1, ResizedFacts DEF ComInv
  <2>3. PICK b : b = ancestry'
    OBVIOUS
  <2>4. b = Append(a, t.at)
    BY <1>3, <1>6, <2>2, <2>3 DEF Track
  <2>5. b \in Names /\ Len(b) = k /\ \A i \in 1 .. k - 1 : b[i] = a[i]
    BY <2>1, <2>2, <2>4, <1>1, AppendProperties DEF Names
  <2>6. b[k] = t.at /\ b # <<>>
    BY <2>1, <2>2, <2>4, <2>5, <1>1, AppendProperties DEF Names
  <2>7. \A i \in 1..k : ~levels'[i].fresh /\ levels'[i].at # End =>
           i <= Len(b) /\ b[i] = levels'[i].at
    BY <1>1, <1>2, <1>4, <2>2, <2>5, <2>6
  <2> QED
    BY <1>1, <1>7, <2>3, <2>5, <2>6, <2>7 DEF ComInv, ComIInv, CursAtEnd
<1> QED
  BY <1>5, <1>6

LEMMA PushKeeps ==
    ASSUME ComInv, ComPush
    PROVE  ancestry' \in Names' /\ ComIInv'
<1>1. Push /\ ancestry' = ancestry
  BY DEF ComPush
<1>2. WalkerInv' /\ up' = up
  BY <1>1, WalkerStep DEF ComInv
<1>3. Names' = Names /\ Node' = Node
  BY <1>2 DEF Names, Node
<1>4. WalkerIInv'
  BY <1>2 DEF WalkerInv
<1>5. CASE levels' = levels
  BY <1>1, <1>3, <1>4, <1>5 DEF ComInv, ComIInv, CursAtEnd, Pending, AtEnd, Top
<1>6. CASE Descended
  <2>1. PICK k \in Nat : k = Len(levels) /\ k > 0
    BY LevelFacts DEF ComInv, WalkerInv
  <2>2. /\ Len(levels') = k + 1 /\ \A i \in 1..k : levels'[i] = levels[i]
        /\ levels'[k + 1].fresh
    BY <1>6, <2>1 DEF Descended, Opened
  <2>3. Pending'
    BY <2>1, <2>2 DEF Pending, Top
  <2>4. \A i \in 1 .. k + 1 : ~levels'[i].fresh /\ levels'[i].at # End =>
           i <= Len(ancestry) /\ ancestry[i] = levels'[i].at
    BY <2>1, <2>2 DEF ComInv, ComIInv, CursAtEnd
  <2> QED
    BY <1>1, <1>3, <1>4, <2>2, <2>3, <2>4 DEF ComInv, ComIInv, CursAtEnd
<1> QED
  BY <1>1, <1>5, <1>6, PushShape DEF ComInv

(* Every call of the client is a call on the walker.                        *)
LEMMA ComCalls ==
    ASSUME ComNext
    PROVE  WalkerNext \/ Push \/ Pop \/ Break
BY DEF ComNext, MoveNext, ComPush, PopRefused, ComPop, ComBreak

LEMMA ComStep ==
    ASSUME ComInv, ComNext
    PROVE  ComInv'
<1>1. WalkerInv' /\ up' = up
  BY WalkerStep, ComCalls DEF ComInv
<1>2. Depth \in 0..MaxDepth /\ Depth' \in 0..MaxDepth
  <2>1. Len(levels) \in 1 .. MaxDepth + 1 /\ Len(levels') \in 1 .. MaxDepth + 1
    BY <1>1 DEF ComInv, WalkerInv, TypeOK
  <2> QED
    BY <2>1, MaxDepthAssumption DEF Depth
<1>3. told' \in {NoDepth} \cup 0..MaxDepth
  <2>1. CASE ComPush
    <3>1. told' = DepthAnswered
      BY <2>1 DEF ComPush
    <3>2. DepthAnswered \in {NoDepth, Depth, Depth', 0}
      BY DEF DepthAnswered
    <3> QED
      BY <1>2, <3>1, <3>2, MaxDepthAssumption
  <2>2. CASE ~ComPush
    BY <2>2, <1>2 DEF ComNext, MoveNext, PopRefused, ComPop, ComBreak
  <2> QED
    BY <2>1, <2>2
<1>4. ancestry' \in Names' /\ ComIInv'
  <2>1. CASE MoveNext
    <3>1. PICK k \in 1..Len(levels) : Advanced(k)
      BY <2>1, NextShape DEF MoveNext, ComInv
    <3> QED
      BY <2>1, <3>1, <1>1, TrackKeeps DEF MoveNext, Advanced
  <2>2. CASE ComPop \/ ComBreak
    <3>1. PICK k \in 1..Len(levels) : Cut(k)
      BY <2>2, PopShape DEF ComPop, ComBreak, ComInv
    <3>2. \A i \in 1 .. k - 1 : i \in 1..k
      BY LevelFacts DEF ComInv, WalkerInv
    <3> QED
      BY <2>2, <3>1, <3>2, <1>1, TrackKeeps DEF ComPop, ComBreak, Cut
  <2>3. CASE PopRefused
    <3>1. levels' = levels /\ ancestry' = ancestry
      BY <2>3 DEF PopRefused, Pop
    <3>2. Names' = Names /\ Node' = Node /\ WalkerIInv'
      BY <1>1 DEF Names, Node, WalkerInv
    <3> QED
      BY <3>1, <3>2 DEF ComInv, ComIInv, CursAtEnd, Pending, AtEnd, Top
  <2>4. CASE ComPush
    BY <2>4, PushKeeps
  <2> QED
    BY <2>1, <2>2, <2>3, <2>4 DEF ComNext
<1> QED
  BY <1>1, <1>3, <1>4 DEF ComInv

LEMMA ComStart == ComInit => ComInv
<1> SUFFICES ASSUME ComInit PROVE ComInv
  OBVIOUS
<1>1. WalkerInv /\ up \in Outlines
  BY WalkerStart DEF ComInit, Init
<1>2. PICK l : l = Opened(0, FALSE)
  OBVIOUS
<1>3. levels = <<l>> /\ Len(levels) = 1 /\ levels[1] = l /\ Top = l
  BY <1>2 DEF ComInit, Init, Top
<1>4. l.at = FirstOf(Kids(0)) /\ ~l.fresh
  BY <1>2 DEF Opened
<1>5. l.at # End => l.at \in Node
  BY <1>1, <1>4, NodeFacts, FirstOfFacts
<1>6. Node # {} => l.at # End
  <2>1. Node # {} => 1 \in Kids(0)
    BY <1>1, NodeFacts DEF Kids
  <2> QED
    BY <2>1, <1>1, <1>4, NodeFacts, FirstOfFacts
<1>7. AtEnd <=> l.at = End
  BY <1>3 DEF AtEnd, CursAtEnd
<1>8. CASE l.at = End
  <2>1. ancestry = <<>>
    BY <1>3, <1>7, <1>8 DEF ComInit
  <2>2. Node = {}
    BY <1>6, <1>8
  <2> QED
    BY <1>1, <1>3, <1>7, <1>8, <2>1, <2>2
    DEF ComInv, ComIInv, WalkerInv, Names, ComInit, CursAtEnd
<1>9. CASE l.at # End
  <2>1. ancestry = <<l.at>>
    BY <1>3, <1>7, <1>9 DEF ComInit
  <2>2. ancestry \in Names /\ Len(ancestry) = 1 /\ ancestry[1] = l.at /\ ancestry # <<>>
    BY <2>1, <1>5, <1>9 DEF Names
  <2> QED
    BY <1>1, <1>3, <2>2
    DEF ComInv, ComIInv, WalkerInv, ComInit, CursAtEnd
<1> QED
  BY <1>8, <1>9

(* The walks the model has are well typed and their levels one path through
   the tree, and every name a level was stepped onto is in place.           *)
THEOREM WalkInvariant == ComSpec => [](ComTypeOK /\ ComIInv)
<1>1. ComInit => ComInv
  BY ComStart
<1>2. ComInv /\ [ComNext]_vars => ComInv'
  <2> SUFFICES ASSUME ComInv, [ComNext]_vars PROVE ComInv'
    OBVIOUS
  <2>1. CASE ComNext
    BY <2>1, ComStep
  <2>2. CASE UNCHANGED vars
    <3>1. up' = up /\ lists' = lists /\ levels' = levels /\ ancestry' = ancestry /\ told' = told
      BY <2>2 DEF vars
    <3>2. WalkerInv'
      <4>1. TypeOK'
        BY <3>1, TypeStays DEF ComInv, WalkerInv, TypeOK
      <4>2. WalkerIInv'
        BY <3>1, IInvIsOnePath DEF ComInv, WalkerInv
      <4> QED
        BY <4>1, <4>2 DEF WalkerInv
    <3>3. Names' = Names /\ Node' = Node /\ WalkerIInv'
      BY <3>1, <3>2 DEF Names, Node, WalkerInv
    <3> QED
      BY <3>1, <3>2, <3>3 DEF ComInv, ComIInv, CursAtEnd, Pending, AtEnd, Top
  <2> QED
    BY <2>1, <2>2
<1>3. ComInv => ComTypeOK /\ ComIInv
  BY DEF ComInv, ComTypeOK, WalkerInv, WalkerIInv, Names
<1> QED
  BY <1>1, <1>2, <1>3, PTL DEF ComSpec

(* At every stop of a walk that pushed once between two moves, Path leads to
   the element the walker stands on, in a tree of any size and shape.       *)
THEOREM PathLeadsToTheStop == ComSpec => []PathIsTheStop
<1>1. ComTypeOK /\ ComIInv => PathIsTheStop
  <2> SUFFICES ASSUME ComTypeOK, ComIInv PROVE PathIsTheStop
    OBVIOUS
  <2>1. ASSUME PushedOnce, ~Pending, ~AtEnd PROVE Field = Top.at
    <3>1. PICK n \in Nat : n = Len(levels) /\ n > 0
      BY LevelFacts DEF ComTypeOK
    <3>2. \A i \in 1..n : ~levels[i].fresh
      BY <2>1, <3>1 DEF PushedOnce, Pending, Depth, Top
    <3>3. \A i \in 1..n : levels[i].at \in Kids(levels[i].of)
      <4>1. \A i \in 1..n : levels[i].at \in Kids(levels[i].of) \cup {End}
        BY <3>1 DEF ComIInv, WalkerIInv
      <4>2. levels[n].at # End
        BY <2>1, <3>1 DEF AtEnd, CursAtEnd, Top
      <4>3. ASSUME NEW i \in 1..n, i # n PROVE levels[i].at # End
        <5>1. i + 1 \in 2..n
          BY <4>3
        <5>2. levels[i + 1].of = levels[(i + 1) - 1].at /\ (i + 1) - 1 = i
          BY <5>1, <3>1 DEF ComTypeOK, LevelsAreAPath
        <5>3. levels[i + 1].of \in 0..N
          BY <5>1, <3>1, LevelFacts DEF ComTypeOK
        <5> QED
          BY <5>2, <5>3, NAssumption DEF End
      <4> QED
        BY <4>1, <4>2, <4>3
    <3>4. \A i \in 1..n : levels[i].at \in Node /\ up[levels[i].at] = levels[i].of
      BY <3>3 DEF Kids
    <3>5. Len(ancestry) = n /\ \A i \in 1..n : ancestry[i] = levels[i].at
      <4>1. Len(ancestry) = n
        BY <2>1, <3>1 DEF ComIInv
      <4>2. \A i \in 1..n : levels[i].at # End
        BY <3>4, NodeFacts DEF ComTypeOK, TypeOK
      <4> QED
        BY <4>1, <4>2, <3>1, <3>2 DEF ComIInv, CursAtEnd
    <3>6. DOMAIN ancestry = 1..n /\ ancestry # <<>>
      BY <3>1, <3>5 DEF ComTypeOK
    <3>7. \A i \in 1..n : ancestry[i] # NoName
      BY <3>4, <3>5, NodeFacts DEF ComTypeOK, TypeOK, NoName
    <3>8. \A i \in 1..n : up[ancestry[i]] = IF i = 1 THEN 0 ELSE ancestry[i - 1]
      <4>1. levels[1].of = 0
        BY DEF ComIInv, WalkerIInv
      <4>2. ASSUME NEW i \in 2..n PROVE levels[i].of = ancestry[i - 1]
        <5>1. i - 1 \in 1..n /\ levels[i].of = levels[i - 1].at
          BY <3>1 DEF ComTypeOK, LevelsAreAPath
        <5> QED
          BY <5>1, <3>5
      <4> QED
        BY <3>4, <3>5, <4>1, <4>2
    <3>9. Field = ancestry[Len(ancestry)]
      BY <3>6, <3>7, <3>8 DEF Field
    <3> QED
      BY <3>1, <3>5, <3>9 DEF Top
  <2> QED
    BY <2>1 DEF PathIsTheStop, ComIInv
<1> QED
  BY <1>1, WalkInvariant, PTL

-----------------------------------------------------------------------------
(* The order of a walk.                                                     *)

(* The first element under one is the next line of the outline.             *)
LEMMA FirstChildIsNext ==
    ASSUME up \in Outlines, NEW o \in 0..N, Kids(o) # {}
    PROVE  FirstOf(Kids(o)) = o + 1
<1>1. PICK c \in Kids(o) : c = FirstOf(Kids(o)) /\ \A y \in Kids(o) : c <= y
  BY NodeFacts, FirstOfFacts
<1>2. c \in Node /\ c \in 1..N /\ up[c] = o /\ o < c
  BY <1>1, NodeFacts DEF Kids
<1>3. CASE c > o + 1
  <2>1. o + 1 \in Node
    BY <1>2, <1>3, NodeFacts
  <2>2. up[o + 1] >= o
    BY <1>2, <1>3, <2>1, NodeFacts
  <2>3. up[o + 1] < o + 1 /\ up[o + 1] \in 0..N
    BY <2>1, NodeFacts
  <2>4. o + 1 \in Kids(o)
    BY <2>1, <2>2, <2>3 DEF Kids
  <2> QED
    BY <1>1, <1>2, <1>3, <2>4
<1> QED
  BY <1>1, <1>2, <1>3

(* An element past this one that is not under it is the next sibling of this
   one or of an element above it: of the last open level whose owner comes
   no later than its parent.                                                *)
LEMMA PastIsSibling ==
    ASSUME WalkerInv, ~AtEnd, NEW m \in Node, m > Top.at, up[m] < Top.at
    PROVE  \E i \in 1..Len(levels) :
             /\ m \in Kids(levels[i].of) /\ m > levels[i].at
             /\ \A j \in i + 1 .. Len(levels) : levels[j].of > up[m]
<1>1. PICK n \in Nat : n = Len(levels) /\ n > 0
  BY LevelFacts DEF WalkerInv
<1>2. /\ up \in Outlines /\ m \in Nat /\ up[m] \in Nat
      /\ \A i \in 1..n : levels[i].of \in Nat /\ levels[i].at \in Nat
  BY <1>1, LevelFacts, NodeFacts, NAssumption DEF WalkerInv, TypeOK, End
<1> DEFINE S == {i \in 1..n : levels[i].of <= up[m]}
<1>3. 1 \in S
  BY <1>1, <1>2 DEF WalkerInv, WalkerIInv
<1>4. PICK i \in S : \A j \in S : i >= j
  <2>1. S \subseteq 1..n /\ S # {}
    BY <1>3
  <2> HIDE DEF S
  <2> QED
    BY <2>1, <1>1, MaxIsGreatest
<1>5. i \in 1..n /\ levels[i].of <= up[m]
  OBVIOUS
<1>6. \A j \in i + 1 .. n : levels[j].of > up[m]
  BY <1>2, <1>4, <1>5
<1>7. levels[i].at > up[m] /\ levels[i].at <= Top.at
  <2>1. levels[i].at <= levels[n].at /\ Top = levels[n]
    BY <1>1, <1>5 DEF WalkerInv, WalkerIInv, Top
  <2>2. CASE i = n
    BY <2>1, <2>2, <1>2
  <2>3. CASE i < n
    <3>1. i + 1 \in 2..n /\ (i + 1) - 1 = i
      BY <2>3, <1>5, <1>1
    <3>2. levels[i + 1].of = levels[i].at
      BY <3>1, <1>1 DEF WalkerInv, WalkerIInv, LevelsAreAPath
    <3> QED
      BY <3>1, <3>2, <2>1, <1>6
  <2> QED
    BY <2>2, <2>3, <1>5, <1>1
<1>8. levels[i].at \in Node /\ up[levels[i].at] = levels[i].of
  <2>1. levels[i].at \in Kids(levels[i].of) \cup {End}
    BY <1>1, <1>5 DEF WalkerInv, WalkerIInv
  <2>2. Top.at \in 1..N
    BY <1>1, LevelFacts, NAssumption DEF WalkerInv, AtEnd, CursAtEnd, End, Top
  <2>3. levels[i].at # End
    BY <1>2, <1>5, <1>7, <2>2, NAssumption DEF End
  <2> QED
    BY <2>1, <2>3 DEF Kids
<1>9. levels[i].of = up[m]
  <2>1. up[levels[i].at] >= up[m]
    <3>1. Top.at \in Nat
      BY <1>1, <1>2 DEF Top
    <3>2. up[m] < levels[i].at /\ levels[i].at < m
      BY <3>1, <1>2, <1>5, <1>7
    <3> QED
      BY <3>2, <1>2, <1>8, NodeFacts
  <2> QED
    BY <2>1, <1>2, <1>5, <1>8
<1>10. m \in Kids(levels[i].of) /\ m > levels[i].at
  <2>1. Top.at \in Nat /\ levels[i].at \in Nat
    BY <1>1, <1>2, <1>5 DEF Top
  <2> QED
    BY <1>2, <1>7, <1>9, <2>1 DEF Kids
<1> QED
  BY <1>1, <1>5, <1>6, <1>10

(* The next sibling of a level's element is past everything that element and
   the levels below it stand for.                                           *)
LEMMA SiblingIsPast ==
    ASSUME WalkerInv, ~AtEnd, NEW k \in 1..Len(levels),
           NEW s \in Kids(levels[k].of), s > levels[k].at, levels[k].at # End
    PROVE  s > Top.at /\ up[s] < Top.at
<1>1. PICK n \in Nat : n = Len(levels) /\ n > 0 /\ k \in 1..n
  BY LevelFacts DEF WalkerInv
<1>2. /\ up \in Outlines /\ s \in Node /\ s \in Nat /\ up[s] = levels[k].of
      /\ \A i \in 1..n : levels[i].of \in Nat /\ levels[i].at \in Nat
  BY <1>1, LevelFacts, NodeFacts, NAssumption DEF WalkerInv, TypeOK, End, Kids
<1>3. Top = levels[n]
  BY <1>1 DEF Top
<1>4. levels[k].of < levels[k].at /\ levels[k].at <= Top.at
  <2>1. levels[k].at \in Kids(levels[k].of)
    BY <1>1 DEF WalkerInv, WalkerIInv
  <2> QED
    BY <2>1, <1>1, <1>2, <1>3, NodeFacts DEF Kids, WalkerInv, WalkerIInv
<1>5. up[s] < Top.at
  BY <1>2, <1>4, <1>1, <1>3
<1>6. ASSUME s <= Top.at PROVE FALSE
  <2> DEFINE S == {j \in 1..n : levels[j].at >= s}
  <2>1. n \in S /\ S \subseteq Nat
    BY <1>1, <1>3, <1>6
  <2>2. PICK j \in S : \A i \in S : j <= i
    <3> HIDE DEF S
    <3> QED
      BY <2>1, LeastExists
  <2>3. j \in 1..n /\ levels[j].at >= s
    OBVIOUS
  <2>4. j > k
    <3>1. j <= k => levels[j].at <= levels[k].at
      BY <1>1, <2>3 DEF WalkerInv, WalkerIInv
    <3> QED
      BY <3>1, <2>3, <1>1, <1>2
  <2>5. j \in 2..n /\ j - 1 \in 1..n /\ j - 1 >= k /\ j - 1 \notin S
    BY <2>2, <2>3, <2>4, <1>1
  <2>6. levels[j].of = levels[j - 1].at /\ levels[j].at \in Kids(levels[j].of)
    BY <2>5, <1>1 DEF WalkerInv, WalkerIInv, LevelsAreAPath
  <2>7. levels[j - 1].at < s /\ levels[k].at <= levels[j - 1].at
    BY <2>5, <1>1, <1>2 DEF WalkerInv, WalkerIInv
  <2>8. levels[j].at \in Node /\ up[levels[j].at] = levels[j - 1].at
    BY <2>6 DEF Kids
  <2>9. CASE levels[j].at = s
    BY <2>9, <2>7, <2>8, <1>2, <1>4, <2>5, <1>1
  <2>10. CASE levels[j].at > s
    <3>1. up[s] >= levels[j - 1].at
      BY <2>7, <2>8, <2>10, <1>2, NodeFacts
    <3> QED
      BY <3>1, <2>5, <2>7, <1>2, <1>4, <1>1
  <2> QED
    BY <2>3, <2>9, <2>10, <1>2
<1> QED
  BY <1>1, <1>2, <1>3, <1>5, <1>6

LEMMA NextGoesOn ==
    ASSUME WalkerInv, WalkerInv', WalkerNext, PushedOnce, ~AtEnd
    PROVE  Here' = (IF Pending THEN Here + 1 ELSE Past(Here)) /\ ~Pending'
<1>1. PICK n \in Nat : n = Len(levels) /\ n > 0 /\ Top = levels[n]
  BY LevelFacts DEF WalkerInv
<1>2. PICK k \in 1..n : Advanced(k)
  BY <1>1, NextShape
<1>3. PICK r : r = Stepped(levels[k])
  OBVIOUS
<1>4. /\ r.of = levels[k].of /\ ~r.fresh /\ r.at \in Kids(r.of) \cup {End}
      /\ levels[k].fresh => r.at = levels[k].at
      /\ ~levels[k].fresh =>
           /\ r.at = End => \A c \in Kids(r.of) : c <= levels[k].at
           /\ r.at # End => r.at > levels[k].at /\ \A c \in Kids(r.of) :
                               c > levels[k].at => r.at <= c
  BY <1>1, <1>2, <1>3, SteppedFacts DEF WalkerInv, WalkerIInv
<1>5. Top' = r /\ ~Pending' /\ Here' = r.at
  BY <1>1, <1>2, <1>3, <1>4 DEF Advanced, Top, Pending, Here
<1>6. k > 1 => r.at # End
  BY <1>1, <1>2, <1>3 DEF Advanced, CursAtEnd
<1>7. Top.at \in Kids(Top.of) /\ Top.of \in 0..N /\ Top.at \in Nat
  BY <1>1, LevelFacts, NAssumption DEF WalkerInv, WalkerIInv, AtEnd, CursAtEnd, End
<1>8. \A i \in k + 1 .. n : Stepped(levels[i]).at = End
  BY <1>1, <1>2 DEF Advanced, CursAtEnd
<1>9. CASE Pending
  <2>1. Stepped(levels[n]).at = Top.at
    BY <1>1, <1>9, SteppedFacts DEF WalkerInv, WalkerIInv, Pending
  <2>2. k = n
    BY <2>1, <1>1, <1>2, <1>8 DEF AtEnd, CursAtEnd
  <2>3. r.at = FirstOf(Kids(Top.of))
    BY <2>1, <2>2, <1>1, <1>3, <1>9 DEF WalkerInv, WalkerIInv, Pending
  <2>4. r.at = Top.of + 1
    BY <2>3, <1>7, FirstChildIsNext DEF WalkerInv, TypeOK
  <2> QED
    BY <2>4, <1>5, <1>9 DEF Here
<1>10. CASE ~Pending
  <2>1. \A i \in 1..n : ~levels[i].fresh
    BY <1>1, <1>10 DEF PushedOnce, Pending, Depth
  <2> DEFINE P == {m \in Node : m > Top.at /\ up[m] < Top.at}
  <2>2. Here = Top.at /\ Past(Here) = FirstOf(P)
    BY <1>10 DEF Here, Past
  <2>3. \A m \in P : \E i \in 1..k :
          /\ m \in Kids(levels[i].of) /\ m > levels[i].at
          /\ \A j \in i + 1 .. n : levels[j].of > up[m]
    <3> SUFFICES ASSUME NEW m \in P PROVE \E i \in 1..k :
          /\ m \in Kids(levels[i].of) /\ m > levels[i].at
          /\ \A j \in i + 1 .. n : levels[j].of > up[m]
      OBVIOUS
    <3>1. PICK i \in 1..n :
             /\ m \in Kids(levels[i].of) /\ m > levels[i].at
             /\ \A j \in i + 1 .. n : levels[j].of > up[m]
      BY <1>1, PastIsSibling
    <3>2. Stepped(levels[i]).at # End
      <4>1. m \in Nat /\ levels[i].at \in Nat
        BY <1>1, <3>1, LevelFacts, NodeFacts, NAssumption DEF WalkerInv, TypeOK, End, Kids
      <4>2. PICK t : t = Stepped(levels[i])
        OBVIOUS
      <4>3. t.of = levels[i].of /\ (t.at = End => \A c \in Kids(t.of) : c <= levels[i].at)
        BY <4>2, <2>1, <1>1, SteppedFacts DEF WalkerInv, WalkerIInv
      <4> QED
        BY <4>1, <4>2, <4>3, <3>1
    <3>3. i <= k
      BY <3>2, <1>8, <1>1, <1>2
    <3> QED
      BY <3>1, <3>3, <1>1, <1>2
  <2>4. P \subseteq Node
    OBVIOUS
  <2>5. r.at = FirstOf(P)
    <3>1. CASE r.at = End
      <4>1. k = 1
        BY <3>1, <1>6, <1>1, <1>2
      <4>2. P = {}
        <5> SUFFICES ASSUME NEW m \in P PROVE FALSE
          OBVIOUS
        <5>1. m \in Kids(levels[k].of) /\ m > levels[k].at
          BY <2>3, <4>1
        <5>2. m <= levels[k].at
          BY <5>1, <3>1, <2>1, <1>2, <1>4
        <5>3. m \in Nat /\ levels[k].at \in Nat
          BY <1>1, <1>2, LevelFacts, NodeFacts, NAssumption DEF WalkerInv, TypeOK, End
        <5> QED
          BY <5>1, <5>2, <5>3
      <4> HIDE DEF P
      <4> QED
        BY <4>2, <3>1, <2>4, FirstOfFacts DEF WalkerInv, TypeOK
    <3>2. CASE r.at # End
      <4>1. r.at \in Kids(levels[k].of) /\ r.at > levels[k].at
        BY <3>2, <2>1, <1>2, <1>4
      <4>2. levels[k].at # End
        BY <4>1, <1>4, NodeFacts, NAssumption DEF WalkerInv, TypeOK, Kids, End
      <4>3. r.at \in P
        BY <4>1, <4>2, <1>1, <1>2, SiblingIsPast DEF Kids
      <4>4. ASSUME NEW m \in P PROVE r.at <= m
        <5>1. PICK i \in 1..k :
                /\ m \in Kids(levels[i].of) /\ m > levels[i].at
                /\ \A j \in i + 1 .. n : levels[j].of > up[m]
          BY <2>3
        <5>2. CASE i = k
          BY <5>1, <5>2, <3>2, <2>1, <1>2, <1>4
        <5>3. CASE i < k
          <6>1. levels[k].of > up[m] /\ up[r.at] = levels[k].of
            BY <5>1, <5>3, <4>1, <1>1, <1>2 DEF Kids
          <6>2. k \in 2..n /\ k - 1 \in 1..n
            BY <5>3, <1>1, <1>2
          <6>3. levels[k].of = levels[k - 1].at /\ levels[k - 1].at <= Top.at
            BY <6>2, <1>1 DEF WalkerInv, WalkerIInv, LevelsAreAPath
          <6>4. /\ m \in Node /\ r.at \in Node /\ m \in Nat /\ r.at \in Nat
                /\ up[m] \in Nat /\ levels[k].of \in Nat
            BY <4>1, <4>3, <6>1, NodeFacts DEF WalkerInv, TypeOK, Kids
          <6>5. ASSUME m < r.at PROVE FALSE
            <7>1. up[r.at] < m
              BY <6>1, <6>3, <6>4, <1>7
            <7>2. up[m] >= up[r.at]
              BY <6>4, <6>5, <7>1, NodeFacts DEF WalkerInv, TypeOK
            <7> QED
              BY <7>2, <6>1, <6>4
          <6> QED
            BY <6>4, <6>5
        <5> QED
          BY <5>2, <5>3, <1>2
      <4>5. FirstOf(P) \in P /\ \A y \in P : FirstOf(P) <= y
        <5> HIDE DEF P
        <5> QED
          BY <4>3, <2>4, FirstOfFacts DEF WalkerInv, TypeOK
      <4>6. P \subseteq Nat
        BY <2>4, NodeFacts DEF WalkerInv, TypeOK
      <4>7. PICK f : f = FirstOf(P)
        OBVIOUS
      <4>8. r.at <= f /\ f <= r.at
        BY <4>3, <4>4, <4>5, <4>7
      <4>9. r.at \in Nat /\ f \in Nat
        BY <4>3, <4>5, <4>6, <4>7
      <4> QED
        BY <4>7, <4>8, <4>9
    <3> QED
      BY <3>1, <3>2
  <2> QED
    BY <2>2, <2>5, <1>5, <1>10
<1> QED
  BY <1>5, <1>9, <1>10

(* A walk that has ended stays ended, and only a Next ends it.              *)
LEMMA EndIsFinal ==
    ASSUME WalkerInv, WalkerInv', WalkerNext \/ Push \/ Pop \/ Break
    PROVE  /\ AtEnd => AtEnd' /\ Depth' = 0
           /\ AtEnd' /\ ~AtEnd => WalkerNext
<1>1. PICK n \in Nat : n = Len(levels) /\ n > 0 /\ Top = levels[n]
  BY LevelFacts DEF WalkerInv
<1>2. \A i \in 1 .. n - 1 : levels[i].at # End
  <2> SUFFICES ASSUME NEW i \in 1 .. n - 1 PROVE levels[i].at # End
    OBVIOUS
  <2>1. i + 1 \in 2..n /\ (i + 1) - 1 = i
    BY <1>1
  <2>2. levels[i + 1].of = levels[i].at /\ levels[i + 1].of \in 0..N
    BY <2>1, <1>1, LevelFacts DEF WalkerInv, WalkerIInv, LevelsAreAPath
  <2> QED
    BY <2>2, NAssumption DEF End
<1>3. AtEnd => n = 1
  <2>1. n # 1 => n \in 2..n
    BY <1>1
  <2>2. n # 1 => Top.at \in Kids(Top.of)
    BY <2>1, <1>1 DEF WalkerInv, WalkerIInv, LevelsAreAPath
  <2> QED
    BY <2>2, NodeFacts DEF Kids, AtEnd, CursAtEnd, WalkerInv, TypeOK
<1>4. ASSUME NEW k \in 1..n, Cut(k)
      PROVE  (AtEnd => AtEnd' /\ Depth' = 0) /\ (AtEnd' => AtEnd)
  <2>1. Top' = levels[k] /\ Len(levels') = k
    BY <1>1, <1>4 DEF Cut, Top
  <2>2. AtEnd' => k = n
    BY <2>1, <1>1, <1>2 DEF AtEnd, CursAtEnd
  <2>3. AtEnd => k = 1 /\ n = 1
    BY <1>3
  <2> QED
    BY <2>1, <2>2, <2>3, <1>1 DEF AtEnd, CursAtEnd, Depth
<1>5. CASE Pop \/ Break
  BY <1>1, <1>4, <1>5, PopShape
<1>6. CASE Push
  <2>1. CASE Cut(Len(levels))
    BY <2>1, <1>1, <1>4
  <2>2. CASE Descended
    <3>1. Top'.at = FirstOf(Kids(Top.at)) /\ Kids(Top.at) # {} /\ ~AtEnd
      BY <2>2, <1>1 DEF Descended, Opened, Top
    <3>2. Top'.at # End
      BY <3>1, NodeFacts, FirstOfFacts DEF WalkerInv, TypeOK
    <3> QED
      BY <3>1, <3>2 DEF AtEnd, CursAtEnd
  <2> QED
    BY <2>1, <2>2, <1>6, PushShape
<1>7. CASE WalkerNext
  <2>1. PICK k \in 1..n : Advanced(k)
    BY <1>1, <1>7, NextShape
  <2>2. Len(levels') = k /\ Top' = Stepped(levels[k])
    BY <2>1 DEF Advanced, Top
  <2>3. ASSUME AtEnd PROVE AtEnd' /\ Depth' = 0
    <3>1. k = 1 /\ n = 1 /\ levels[k].at = End
      <4>1. n = 1 /\ levels[n].at = End
        BY <2>3, <1>1, <1>3 DEF AtEnd, CursAtEnd
      <4>2. k \in 1..1
        BY <4>1
      <4> QED
        BY <4>1, <4>2
    <3>2. PICK t : t = Stepped(levels[k])
      OBVIOUS
    <3>3. t.at \in Kids(t.of) \cup {End} /\ t.at >= End
      BY <3>1, <3>2, <1>1, SteppedFacts DEF WalkerInv, WalkerIInv
    <3>4. t.at \in Kids(t.of) => t.at \in 1..N
      BY NodeFacts DEF WalkerInv, TypeOK, Kids
    <3>5. t.at = End
      BY <3>3, <3>4, NAssumption DEF End
    <3> QED
      BY <3>1, <3>2, <3>5, <2>2 DEF AtEnd, CursAtEnd, Depth
  <2> QED
    BY <2>3, <1>7
<1> QED
  BY <1>5, <1>6, <1>7

(* A walk meets the elements in outline order, skips only what is under an
   element the client did not push into, and ends by a Next alone.          *)
THEOREM WalkMeetsAllInOrder == ComSpec => WalkIsInOrder
<1>1. (ComTypeOK /\ ComIInv) /\ (ComTypeOK /\ ComIInv)' /\ [ComNext]_vars =>
        [ /\ WalkerNext /\ PushedOnce /\ ~AtEnd =>
               /\ Here' = IF Pending THEN Here + 1 ELSE Past(Here)
               /\ ~Pending'
          /\ AtEnd => AtEnd' /\ Depth' = 0
          /\ AtEnd' /\ ~AtEnd => WalkerNext ]_levels
  <2> SUFFICES ASSUME ComTypeOK, ComIInv, ComTypeOK', ComIInv', ComNext
      PROVE  /\ WalkerNext /\ PushedOnce /\ ~AtEnd =>
                  /\ Here' = IF Pending THEN Here + 1 ELSE Past(Here)
                  /\ ~Pending'
             /\ AtEnd => AtEnd' /\ Depth' = 0
             /\ AtEnd' /\ ~AtEnd => WalkerNext
    BY DEF vars
  <2>1. WalkerInv /\ WalkerInv'
    BY DEF ComTypeOK, ComIInv, WalkerInv
  <2> QED
    BY <2>1, ComCalls, NextGoesOn, EndIsFinal
<1> QED
  BY <1>1, WalkInvariant, PTL DEF ComSpec, WalkIsInOrder

(* A Push that answers more than the depth it was asked at has descended, and
   after any other the walker is at the stop it was at.                     *)
THEOREM PushTellsWhetherItDescended == ComSpec => PushTellsDescent
<1>1. (ComTypeOK /\ ComIInv) /\ (ComTypeOK /\ ComIInv)' /\ [ComNext]_vars =>
        [ComPush => /\ told' > Depth <=> Depth' > Depth
                    /\ Depth' = Depth => levels' = levels]_vars
  <2> SUFFICES ASSUME ComTypeOK, ComIInv, ComTypeOK', ComPush
      PROVE  /\ told' > Depth <=> Depth' > Depth
             /\ Depth' = Depth => levels' = levels
    OBVIOUS
  <2>1. Push /\ told' = DepthAnswered
    BY DEF ComPush
  <2>2. PICK d \in Nat : d = Depth
    <3>1. PICK n \in Nat : n = Len(levels) /\ n > 0
      BY LevelFacts DEF ComTypeOK
    <3>2. n - 1 \in Nat /\ Depth = n - 1
      BY <3>1 DEF Depth
    <3> QED
      BY <3>2
  <2>3. PICK a : a = PushAnswer
    OBVIOUS
  <2>4. CASE a = "S_OK"
    <3>1. Depth' = d + 1
      BY <2>1, <2>2, <2>3, <2>4, PushShape DEF ComTypeOK, ComIInv, WalkerInv, Descended, Depth
    <3>2. told' = Depth'
      BY <2>1, <2>3, <2>4 DEF DepthAnswered
    <3> QED
      BY <3>1, <3>2, <2>2
  <2>5. CASE a # "S_OK"
    <3>1. levels' = levels /\ Depth' = d
      BY <2>1, <2>2, <2>3, <2>5 DEF Push, Depth
    <3>2. told' \in {NoDepth, d, 0}
      BY <2>1, <2>2, <2>3, <2>5 DEF DepthAnswered
    <3> QED
      BY <3>1, <3>2, <2>2 DEF NoDepth
  <2> QED
    BY <2>4, <2>5
<1> QED
  BY <1>1, WalkInvariant, PTL DEF ComSpec, PushTellsDescent
=============================================================================
