-------------------------- MODULE MemoryGameProofs --------------------------
(***************************************************************************)
(* Proofs about MemoryGame, for any set of symbols, any delays of the      *)
(* timers and any number of them: type correctness, that the count of      *)
(* pairs is right, and that the board shows the turn under way.            *)
(***************************************************************************)
EXTENDS MemoryGame, FiniteSetTheorems, SequenceTheorems, TLAPS

(* The cards are a finite set. *)
LEMMA CardsFinite == IsFiniteSet(Cards)
<1>1. IsFiniteSet({1})
  BY FS_Singleton
<1>2. IsFiniteSet({1} \cup {2})
  BY <1>1, FS_AddElement
<1>3. {1} \cup {2} = {1, 2}
  OBVIOUS
<1> QED
  BY <1>2, <1>3, FS_Product, GameAssumption DEF Cards

(* Two cards of one symbol that are not the same card are both of its      *)
(* cards.                                                                  *)
LEMMA BothOfASymbol ==
    ASSUME NEW a \in Cards, NEW b \in Cards, a # b, Symbol(a) = Symbol(b)
    PROVE  {a, b} = {Symbol(a)} \X {1, 2}
BY DEF Cards, Symbol

(* What MatchedArePairs needs to be inductive: the first card of a turn is *)
(* one that is still in play. That a timer of an earlier game may come at  *)
(* any moment does no harm, as timers only ever forget the turn.           *)
PairsInv ==
    /\ listening \subseteq Cards
    /\ matchedPairs \in Nat
    /\ firstCard \in listening \cup {None}
    /\ hasFlippedCard = TRUE => firstCard # None
    /\ MatchedArePairs

(* A pair leaves play as a whole, and is counted once. *)
LEMMA MatchKeepsPairs ==
    ASSUME PairsInv, NEW card \in Cards, FlipMatch(card)
    PROVE  PairsInv'
<1> DEFINE a == firstCard
           s == Symbol(card)
<1>1. /\ card \in listening /\ a \in listening /\ card # a
      /\ Symbol(a) = s /\ a \in Cards
  BY DEF FlipMatch, CanFlip, IsPair, PairsInv
<1>2. {a, card} = {s} \X {1, 2}
  BY <1>1, BothOfASymbol
<1>3. /\ listening' = listening \ {a, card} /\ matchedPairs' = matchedPairs + 1
      /\ firstCard' = None /\ hasFlippedCard' = FALSE
  BY DEF FlipMatch, ResetBoard, ResetTurn
<1>4. Matched' = (Matched \cup {a}) \cup {card}
  BY <1>1, <1>3 DEF Matched
<1>5. IsFiniteSet(Matched) /\ a \notin Matched /\ card \notin Matched \cup {a}
  BY <1>1, CardsFinite, FS_Subset DEF Matched
<1>6. /\ IsFiniteSet(Matched \cup {a})
      /\ Cardinality(Matched \cup {a}) = Cardinality(Matched) + 1
  BY <1>5, FS_AddElement
<1>7. Cardinality((Matched \cup {a}) \cup {card}) = Cardinality(Matched \cup {a}) + 1
  BY <1>5, <1>6, FS_AddElement
<1>8. Cardinality(Matched') = 2 * matchedPairs'
  BY <1>3, <1>4, <1>6, <1>7 DEF PairsInv, MatchedArePairs
<1>9. \A c \in Matched' : {Symbol(c)} \X {1, 2} \subseteq Matched'
  <2> SUFFICES ASSUME NEW c \in Matched' PROVE {Symbol(c)} \X {1, 2} \subseteq Matched'
    OBVIOUS
  <2>1. CASE c \in Matched
    BY <2>1, <1>4 DEF PairsInv, MatchedArePairs
  <2>2. CASE c \in {a, card}
    BY <2>2, <1>1, <1>2, <1>4
  <2> QED
    BY <2>1, <2>2, <1>4
<1> QED
  BY <1>3, <1>8, <1>9 DEF PairsInv, MatchedArePairs

(* On a new board nothing is matched. *)
LEMMA NewBoard ==
    ASSUME listening = Cards, matchedPairs = 0
    PROVE  MatchedArePairs
<1>1. Matched = {}
  BY DEF Matched
<1>2. Cardinality(Matched) = 0
  BY <1>1, FS_EmptySet
<1> QED
  BY <1>1, <1>2 DEF MatchedArePairs

(* Every step keeps it. *)
LEMMA PairsInvInductive == PairsInv /\ [Next]_vars => PairsInv'
<1> SUFFICES ASSUME PairsInv, [Next]_vars PROVE PairsInv'
  OBVIOUS
<1>1. ASSUME StartGameOnFirstClick \/ ConfettiEnds \/ Tick \/ UNCHANGED vars PROVE PairsInv'
  BY <1>1 DEF StartGameOnFirstClick, ConfettiEnds, Tick, vars, turn, board, PairsInv,
     MatchedArePairs, Matched
<1>2. ASSUME ResetGame PROVE PairsInv'
  <2>1. /\ listening' = Cards /\ matchedPairs' = 0
        /\ firstCard' = None /\ hasFlippedCard' = FALSE
    BY <1>2 DEF ResetGame, ResetTurn, ResetPairs
  <2>2. Matched' = {}
    BY <2>1 DEF Matched
  <2>3. Cardinality(Matched') = 0
    BY <2>2, FS_EmptySet
  <2> QED
    BY <2>1, <2>2, <2>3 DEF PairsInv, MatchedArePairs
<1>3. ASSUME NEW card \in Cards, FlipFirst(card) PROVE PairsInv'
  BY <1>3, GameAssumption DEF Cards, FlipFirst, CanFlip, PairsInv, MatchedArePairs, Matched
<1>4. ASSUME NEW card \in Cards, FlipMismatch(card) PROVE PairsInv'
  BY <1>4 DEF FlipMismatch, PairsInv, MatchedArePairs, Matched
<1>5. ASSUME NEW i \in DOMAIN timers, EndReveal(i) \/ ShowFinalScore(i) \/ CelebrateWin(i)
      PROVE  PairsInv'
  BY <1>5 DEF EndReveal, ShowFinalScore, CelebrateWin, turn, board, PairsInv,
     MatchedArePairs, Matched
<1>6. ASSUME NEW i \in DOMAIN timers, Unflip(i) PROVE PairsInv'
  BY <1>6 DEF Unflip, ResetBoard, ResetTurn, turn, PairsInv, MatchedArePairs, Matched
<1> QED
  BY <1>1, <1>2, <1>3, <1>4, <1>5, <1>6, MatchKeepsPairs DEF Next, Player, FlipCard, Fire

(* The pairs that are out of play are pairs of one symbol, and matchedPairs*)
(* is their number, however many games, resets and timers have gone by.    *)
THEOREM PairsAreCounted == Spec => []MatchedArePairs
<1>1. Init => PairsInv
  BY NewBoard DEF Init, PairsInv
<1>2. PairsInv => MatchedArePairs
  BY DEF PairsInv
<1> QED
  BY <1>1, <1>2, PairsInvInductive, PTL DEF Spec

----------------------------------------------------------------------------
(* Type correctness. *)
LEMMA TimerType ==
    /\ Timer("reveal", RevealTime) \in Timers
    /\ Timer("unflip", UnflipTime) \in Timers
    /\ Timer("score", ResultTime) \in Timers
    /\ Timer("confetti", ResultTime) \in Timers
<1>1. /\ RevealTime \in 0 .. RevealTime /\ UnflipTime \in 0 .. RevealTime
      /\ ResultTime \in 0 .. RevealTime
  BY GameAssumption
<1> QED
  BY <1>1 DEF Timer, Timers

(* What is left of the timers when one has fired. *)
LEMMA Removed ==
    ASSUME NEW S, NEW s \in Seq(S), NEW i \in 1 .. Len(s)
    PROVE  /\ RemoveAt(s, i) \in Seq(S) /\ Len(RemoveAt(s, i)) = Len(s) - 1
           /\ \A j \in 1 .. Len(s) - 1 :
                 RemoveAt(s, i)[j] = s[IF j < i THEN j ELSE j + 1]
<1> DEFINE a == SubSeq(s, 1, i - 1)
           b == SubSeq(s, i + 1, Len(s))
<1>1. Len(s) \in Nat
  OBVIOUS
<1>2. /\ a \in Seq(S) /\ Len(a) = i - 1 /\ \A j \in 1 .. i - 1 : a[j] = s[j]
  BY <1>1
<1>3. /\ b \in Seq(S) /\ Len(b) = Len(s) - i
      /\ \A j \in 1 .. Len(s) - i : b[j] = s[j + i]
  BY <1>1
<1>4. RemoveAt(s, i) = a \o b
  BY DEF RemoveAt
<1> HIDE DEF a, b
<1>5. /\ a \o b \in Seq(S) /\ Len(a \o b) = Len(s) - 1
      /\ \A j \in 1 .. Len(s) - 1 :
            (a \o b)[j] = IF j <= i - 1 THEN a[j] ELSE b[j - (i - 1)]
  <2>1. Len(a) + Len(b) = Len(s) - 1
    BY <1>1, <1>2, <1>3
  <2>2. /\ a \o b \in Seq(S) /\ Len(a \o b) = Len(a) + Len(b)
        /\ \A j \in 1 .. Len(a) + Len(b) :
              (a \o b)[j] = IF j <= Len(a) THEN a[j] ELSE b[j - Len(a)]
    BY <1>2, <1>3, ConcatProperties, Zenon
  <2>3. Len(a) = i - 1
    BY <1>2
  <2> QED
    BY <2>1, <2>2, <2>3
<1>6. \A j \in 1 .. Len(s) - 1 : (a \o b)[j] = s[IF j < i THEN j ELSE j + 1]
  <2> SUFFICES ASSUME NEW j \in 1 .. Len(s) - 1
               PROVE  (a \o b)[j] = s[IF j < i THEN j ELSE j + 1]
    OBVIOUS
  <2>1. CASE j < i
    BY <2>1, <1>1, <1>2, <1>5
  <2>2. CASE ~(j < i)
    <3>1. (a \o b)[j] = b[j - (i - 1)]
      <4>1. ~(j <= i - 1)
        BY <2>2, <1>1
      <4>2. (a \o b)[j] = IF j <= i - 1 THEN a[j] ELSE b[j - (i - 1)]
        BY <1>5
      <4> QED
        BY <4>1, <4>2
    <3>2. j - (i - 1) \in 1 .. Len(s) - i /\ (j - (i - 1)) + i = j + 1
      BY <2>2, <1>1
    <3> QED
      BY <3>1, <3>2, <2>2, <1>3
  <2> QED
    BY <2>1, <2>2
<1> QED
  BY <1>4, <1>5, <1>6

(* No more pairs are matched than there are. *)
LEMMA PairsBounded == PairsInv => matchedPairs \in 0 .. Cardinality(Symbols)
<1> SUFFICES ASSUME PairsInv PROVE matchedPairs \in 0 .. Cardinality(Symbols)
  OBVIOUS
<1>1. IsFiniteSet({1, 2}) /\ Cardinality({1, 2}) = 2
  <2>1. IsFiniteSet({1}) /\ Cardinality({1}) = 1
    BY FS_Singleton
  <2>2. {1, 2} = {1} \cup {2} /\ 2 \notin {1}
    OBVIOUS
  <2> QED
    BY <2>1, <2>2, FS_AddElement
<1>2. Cardinality(Symbols) \in Nat
  BY FS_CardinalityType, GameAssumption
<1>3. Cardinality(Cards) = Cardinality(Symbols) * 2
  BY <1>1, FS_Product, GameAssumption DEF Cards
<1>4. Matched \subseteq Cards /\ Cardinality(Matched) <= Cardinality(Cards)
  BY CardsFinite, FS_Subset DEF Matched
<1> QED
  BY <1>2, <1>3, <1>4 DEF PairsInv, MatchedArePairs

LEMMA TypeInductive == PairsInv' /\ TypeOK /\ [Next]_vars => TypeOK'
<1> SUFFICES ASSUME PairsInv', TypeOK, [Next]_vars PROVE TypeOK'
  OBVIOUS
<1> USE DEF TypeOK
<1>0. /\ matchedPairs' \in 0 .. Cardinality(Symbols)
      /\ timers \in Seq(Timers) /\ Len(timers) \in Nat /\ DOMAIN timers = 1 .. Len(timers)
  <2>1. (PairsInv => matchedPairs \in 0 .. Cardinality(Symbols))'
    BY PairsBounded, PTL
  <2> QED
    BY <2>1
<1>1. CASE StartGameOnFirstClick
  BY <1>0, <1>1, TimerType DEF StartGameOnFirstClick, turn, result
<1>2. CASE ResetGame
  <2> DEFINE old == [i \in DOMAIN timers |-> [timers[i] EXCEPT !.current = FALSE]]
  <2>1. old \in Seq(Timers)
    <3>1. ASSUME NEW i \in 1 .. Len(timers)
          PROVE  [timers[i] EXCEPT !.current = FALSE] \in Timers
      <4>1. timers[i] \in Timers
        BY <1>0
      <4> QED
        BY <4>1 DEF Timers
    <3> QED
      BY <1>0, <3>1
  <2>2. timers' = Append(old, Timer("reveal", RevealTime))
    BY <1>2 DEF ResetGame
  <2> HIDE DEF old
  <2>3. timers' \in Seq(Timers)
    BY <2>1, <2>2, TimerType
  <2>4. hurried' \in BOOLEAN
    BY <1>2, Zenon DEF ResetGame
  <2>5. {gameStarted', lockBoard', hasFlippedCard', overlay'} \subseteq BOOLEAN
    BY <1>2 DEF ResetGame, ResetTurn
  <2>6. /\ firstCard' = None /\ secondCard' = None /\ score' = StartScore
        /\ flipped' = Cards /\ listening' = Cards /\ confetti' \in Nat
    BY <1>2 DEF ResetGame, ResetTurn
  <2> QED
    BY <1>0, <2>3, <2>4, <2>5, <2>6, GameAssumption
<1>3. ASSUME NEW card \in Cards, FlipFirst(card) PROVE TypeOK'
  BY <1>0, <1>3 DEF FlipFirst, result
<1>4. ASSUME NEW card \in Cards, FlipMatch(card) PROVE TypeOK'
  <2>1. timers' \in Seq(Timers)
    <3>1. <<Timer("score", ResultTime), Timer("confetti", ResultTime)>> \in Seq(Timers)
      BY TimerType
    <3> QED
      BY <1>0, <1>4, <3>1, ConcatProperties DEF FlipMatch
  <2>2. {gameStarted', lockBoard', hasFlippedCard', overlay', hurried'} \subseteq BOOLEAN
    BY <1>4 DEF FlipMatch, ResetBoard, ResetTurn, result
  <2>3. /\ firstCard' = None /\ secondCard' = None /\ score' = score
        /\ flipped' \subseteq Cards /\ listening' \subseteq Cards /\ confetti' = confetti
    BY <1>4 DEF FlipMatch, ResetBoard, ResetTurn, result
  <2> QED
    BY <1>0, <2>1, <2>2, <2>3
<1>5. ASSUME NEW card \in Cards, FlipMismatch(card) PROVE TypeOK'
  <2>1. score' \in 0 .. StartScore
    BY <1>5, GameAssumption DEF FlipMismatch
  <2>2. timers' \in Seq(Timers)
    BY <1>0, <1>5, TimerType DEF FlipMismatch
  <2>3. {gameStarted', lockBoard', hasFlippedCard', overlay', hurried'} \subseteq BOOLEAN
    BY <1>5 DEF FlipMismatch, result
  <2>4. /\ firstCard' = firstCard /\ secondCard' = card
        /\ flipped' \subseteq Cards /\ listening' = listening /\ confetti' = confetti
    BY <1>5 DEF FlipMismatch, result
  <2> QED
    BY <1>0, <2>1, <2>2, <2>3, <2>4
<1>6. ASSUME NEW i \in DOMAIN timers,
             EndReveal(i) \/ Unflip(i) \/ ShowFinalScore(i) \/ CelebrateWin(i)
      PROVE  TypeOK'
  <2>1. timers' \in Seq(Timers)
    BY <1>0, <1>6, Removed DEF EndReveal, Unflip, ShowFinalScore, CelebrateWin, Due
  <2>2. {gameStarted', lockBoard', hasFlippedCard', overlay', hurried'} \subseteq BOOLEAN
    BY <1>6 DEF EndReveal, Unflip, ShowFinalScore, CelebrateWin, ResetBoard, ResetTurn,
       turn, board, result
  <2>3. /\ {firstCard', secondCard'} \subseteq Cards \cup {None} /\ score' = score
        /\ flipped' \subseteq Cards /\ listening' = listening /\ confetti' \in Nat
    BY <1>6 DEF EndReveal, Unflip, ShowFinalScore, CelebrateWin, ResetBoard, ResetTurn,
       turn, board, result
  <2> QED
    BY <1>0, <2>1, <2>2, <2>3
<1>7. CASE ConfettiEnds
  BY <1>0, <1>7 DEF ConfettiEnds, turn, board
<1>8. CASE Tick
  <2>1. \A i \in 1 .. Len(timers) : [timers[i] EXCEPT !.left = @ - 1] \in Timers
    <3> SUFFICES ASSUME NEW i \in 1 .. Len(timers)
                 PROVE  [timers[i] EXCEPT !.left = @ - 1] \in Timers
      OBVIOUS
    <3>1. timers[i] \in Timers /\ timers[i].left > 0
      BY <1>0, <1>8 DEF Tick
    <3>2. timers[i].left - 1 \in 0 .. RevealTime
      BY <3>1, GameAssumption DEF Timers
    <3> QED
      BY <3>1, <3>2 DEF Timers
  <2>2. timers' \in Seq(Timers)
    BY <1>0, <1>8, <2>1 DEF Tick
  <2> QED
    BY <1>0, <1>8, <2>2 DEF Tick, turn, board, result
<1>9. CASE UNCHANGED vars
  BY <1>0, <1>9 DEF vars, turn, board, result
<1> QED
  BY <1>1, <1>2, <1>3, <1>4, <1>5, <1>6, <1>7, <1>8, <1>9 DEF Next, Player, FlipCard, Fire

LEMMA InitTypes == Init => TypeOK
<1> SUFFICES ASSUME Init PROVE TypeOK
  OBVIOUS
<1>1. {gameStarted, lockBoard, hasFlippedCard, overlay, hurried} \subseteq BOOLEAN
  BY DEF Init
<1>2. Cardinality(Symbols) \in Nat
  BY FS_CardinalityType, GameAssumption
<1>3. StartScore \in 0 .. StartScore /\ 0 \in 0 .. Cardinality(Symbols)
  BY <1>2, GameAssumption
<1>4. timers \in Seq(Timers)
  BY DEF Init
<1> QED
  BY <1>1, <1>3, <1>4 DEF Init, TypeOK

(* Every variable keeps its type, and no more pairs are matched than the   *)
(* board has.                                                              *)
THEOREM TypeCorrect == Spec => []TypeOK
<1>1. Init => PairsInv
  BY NewBoard DEF Init, PairsInv
<1> QED
  BY <1>1, InitTypes, PairsInvInductive, TypeInductive, PTL DEF Spec

----------------------------------------------------------------------------
(* What is on the board. *)
NoTurn == hasFlippedCard = FALSE /\ firstCard = None /\ secondCard = None

(* Before the first click. *)
Fresh == lockBoard = TRUE /\ flipped = {} /\ timers = <<>>

(* During a reveal, which every turn-back of an earlier game precedes. *)
Revealing ==
    /\ lockBoard = TRUE
    /\ Pending("reveal") # {}
    /\ \A i, j \in Pending("reveal") : i = j
    /\ \A i \in Pending("reveal") : timers[i].current = TRUE
    /\ \A i \in Pending("reveal"), j \in Pending("unflip") : timers[j].left < timers[i].left

(* In the turns: the board is locked for as long as two cards are up that  *)
(* do not match, and one timer is pending that will turn them back.        *)
Playing ==
    /\ Pending("reveal") = {}
    /\ flipped = Matched \cup ({firstCard, secondCard} \ {None})
    /\ {firstCard, secondCard} \subseteq listening \cup {None}
    /\ hasFlippedCard = TRUE <=> firstCard # None
    /\ secondCard # None => firstCard # None
    /\ secondCard # None <=> lockBoard = TRUE
    /\ secondCard # None <=> Pending("unflip") # {}
    /\ \A i, j \in Pending("unflip") : i = j

BoardInv ==
    /\ TypeOK
    /\ \A i \in Pending("unflip") : timers[i].left <= UnflipTime
    /\ gameStarted = FALSE => hurried = FALSE /\ Fresh /\ NoTurn /\ listening = Cards
    /\ hurried = FALSE /\ gameStarted = TRUE =>
          (Revealing /\ NoTurn /\ listening = Cards) \/ Playing

LEMMA BoardShown == BoardInv => BoardShowsTurn
BY DEF BoardInv, Fresh, Revealing, NoTurn, Playing, BoardShowsTurn, TypeOK, Matched, Pending

(* A timer that fires leaves the others, moved up.                         *)
Before(i, j) == IF j < i THEN j ELSE j + 1
LEMMA OthersPend ==
    ASSUME TypeOK, NEW i \in DOMAIN timers, Due(i), NEW kind
    PROVE  /\ \A j \in Pending(kind)' :
                 Before(i, j) \in Pending(kind) \ {i} /\ timers'[j] = timers[Before(i, j)]
           /\ \A m \in Pending(kind) \ {i} : \E j \in Pending(kind)' : Before(i, j) = m
           /\ \A j, k \in Pending(kind)' : Before(i, j) = Before(i, k) => j = k
<1>1. /\ timers \in Seq(Timers) /\ Len(timers) \in Nat /\ i \in 1 .. Len(timers)
      /\ DOMAIN timers = 1 .. Len(timers)
  BY DEF TypeOK
<1>2. /\ DOMAIN timers' = 1 .. Len(timers) - 1
      /\ \A j \in 1 .. Len(timers) - 1 : timers'[j] = timers[Before(i, j)]
  <2>1. timers' = RemoveAt(timers, i)
    BY DEF Due
  <2>2. /\ timers' \in Seq(Timers) /\ Len(timers') = Len(timers) - 1
        /\ \A j \in 1 .. Len(timers) - 1 : timers'[j] = timers[IF j < i THEN j ELSE j + 1]
    BY <1>1, <2>1, Removed
  <2>3. DOMAIN timers' = 1 .. Len(timers')
    BY <2>2
  <2> QED
    BY <2>2, <2>3 DEF Before
<1>3. \A j \in 1 .. Len(timers) - 1 : Before(i, j) \in 1 .. Len(timers) /\ Before(i, j) # i
  BY <1>1 DEF Before
<1>4. \A m \in 1 .. Len(timers) : m # i =>
          \E j \in 1 .. Len(timers) - 1 : Before(i, j) = m
  <2> SUFFICES ASSUME NEW m \in 1 .. Len(timers), m # i
               PROVE  \E j \in 1 .. Len(timers) - 1 : Before(i, j) = m
    OBVIOUS
  <2>1. CASE m < i
    BY <2>1, <1>1 DEF Before
  <2>2. CASE m > i
    <3>1. m - 1 \in 1 .. Len(timers) - 1 /\ Before(i, m - 1) = m
      BY <2>2, <1>1 DEF Before
    <3> QED
      BY <3>1
  <2> QED
    BY <2>1, <2>2, <1>1
<1>5. \A j, k \in 1 .. Len(timers) - 1 : Before(i, j) = Before(i, k) => j = k
  BY <1>1 DEF Before
<1> QED
  BY <1>1, <1>2, <1>3, <1>4, <1>5 DEF Pending

(* A timer that is set comes after the others. *)
LEMMA OneMorePends ==
    ASSUME TypeOK, NEW t \in Timers, timers' = Append(timers, t), NEW kind
    PROVE  /\ Pending(kind)' = Pending(kind) \cup (IF t.kind = kind THEN {Len(timers) + 1} ELSE {})
           /\ Len(timers) + 1 \notin Pending(kind) /\ timers'[Len(timers) + 1] = t
           /\ \A j \in Pending(kind) : timers'[j] = timers[j]
<1>1. /\ timers \in Seq(Timers) /\ Len(timers) \in Nat /\ DOMAIN timers = 1 .. Len(timers)
  BY DEF TypeOK
<1>2. /\ DOMAIN timers' = 1 .. Len(timers) + 1
      /\ timers'[Len(timers) + 1] = t
      /\ \A j \in 1 .. Len(timers) : timers'[j] = timers[j]
  BY <1>1
<1> QED
  BY <1>1, <1>2 DEF Pending

LEMMA FireKeepsBoard ==
    ASSUME BoardInv, NEW i \in DOMAIN timers, TypeOK',
           EndReveal(i) \/ Unflip(i) \/ ShowFinalScore(i) \/ CelebrateWin(i)
    PROVE  BoardInv'
<1>1. Due(i)
  BY DEF EndReveal, Unflip, ShowFinalScore, CelebrateWin
<1>2. /\ timers \in Seq(Timers) /\ DOMAIN timers = 1 .. Len(timers) /\ timers # <<>>
      /\ timers[i] \in Timers /\ timers[i].left = 0
  BY <1>1 DEF BoardInv, TypeOK, Due
<1>3. gameStarted = TRUE /\ gameStarted' = TRUE /\ hurried' = hurried /\ listening' = listening
  <2>1. gameStarted = TRUE
    BY <1>2 DEF BoardInv, TypeOK, Fresh
  <2> QED
    BY <2>1 DEF EndReveal, Unflip, ShowFinalScore, CelebrateWin, board
<1>4. \A j \in Pending("unflip")' : timers'[j].left <= UnflipTime
  BY <1>1, OthersPend DEF BoardInv
<1>5. ASSUME Revealing, NoTurn, listening = Cards, timers[i].kind # "reveal"
      PROVE  Revealing' /\ NoTurn' /\ listening' = Cards
  <2>1. lockBoard' = lockBoard /\ NoTurn'
    BY <1>5 DEF EndReveal, Unflip, ShowFinalScore, CelebrateWin, NoTurn, turn
  <2>2. i \notin Pending("reveal")
    BY <1>5 DEF Pending
  <2>3. Pending("reveal")' # {}
    BY <1>1, <1>5, <2>2, OthersPend DEF Revealing, BoardInv
  <2>4. \A j, k \in Pending("reveal")' : j = k
    BY <1>1, <1>5, OthersPend DEF Revealing, BoardInv
  <2>5. \A j \in Pending("reveal")' : timers'[j].current = TRUE
    BY <1>1, <1>5, OthersPend DEF Revealing, BoardInv
  <2>6. \A j \in Pending("reveal")', k \in Pending("unflip")' : timers'[k].left < timers'[j].left
    BY <1>1, <1>5, OthersPend DEF Revealing, BoardInv
  <2> QED
    BY <1>3, <1>5, <2>1, <2>3, <2>4, <2>5, <2>6 DEF Revealing
<1>6. ASSUME Revealing, NoTurn, listening = Cards, timers[i].kind = "reveal"
      PROVE  Playing'
  <2>1. i \in Pending("reveal") /\ timers[i].current = TRUE /\ EndReveal(i)
    BY <1>6 DEF Pending, Revealing, Unflip, ShowFinalScore, CelebrateWin
  <2>2. Pending("unflip") = {}
    <3> SUFFICES ASSUME NEW j \in Pending("unflip") PROVE FALSE
      OBVIOUS
    <3>1. timers[j].left < 0
      BY <1>2, <1>6, <2>1 DEF Revealing
    <3>2. timers[j] \in Timers
      BY <1>2 DEF Pending
    <3>3. timers[j].left \in 0 .. RevealTime
      BY <3>2 DEF Timers
    <3> QED
      BY <3>1, <3>3, GameAssumption
  <2>3. Pending("reveal")' = {} /\ Pending("unflip")' = {}
    BY <1>1, <1>6, <2>1, <2>2, OthersPend DEF Revealing, BoardInv
  <2>4. /\ flipped' = {} /\ lockBoard' = FALSE
        /\ hasFlippedCard' = FALSE /\ firstCard' = None /\ secondCard' = None
    BY <1>6, <2>1 DEF EndReveal, NoTurn, turn
  <2>5. Matched' = {}
    BY <1>3, <1>6 DEF Matched
  <2> QED
    BY <2>3, <2>4, <2>5 DEF Playing
<1>7. ASSUME Playing PROVE Playing'
  <2>1. timers[i].kind # "reveal" /\ Pending("reveal")' = {}
    BY <1>1, <1>7, OthersPend DEF Pending, Playing, BoardInv
  <2>2. \A j, k \in Pending("unflip")' : j = k
    BY <1>1, <1>7, OthersPend DEF Playing, BoardInv
  <2>3. Matched' = Matched
    BY <1>3 DEF Matched
  <2>4. CASE Unflip(i)
    <3>1. i \in Pending("unflip")
      BY <2>4 DEF Unflip, Pending
    <3>2. Pending("unflip")' = {}
      BY <1>1, <1>7, <3>1, OthersPend DEF Playing, BoardInv
    <3>3. secondCard # None /\ firstCard # None /\ {firstCard, secondCard} \subseteq listening
      BY <1>7, <3>1 DEF Playing
    <3>4. /\ flipped' = flipped \ {firstCard, secondCard} /\ lockBoard' = FALSE
          /\ hasFlippedCard' = FALSE /\ firstCard' = None /\ secondCard' = None
      BY <2>4, <3>3 DEF Unflip, ResetBoard, ResetTurn
    <3>5. flipped' = Matched
      BY <1>7, <3>3, <3>4 DEF Playing, Matched
    <3> QED
      BY <2>1, <2>3, <3>2, <3>4, <3>5 DEF Playing
  <2>5. CASE ShowFinalScore(i) \/ CelebrateWin(i)
    <3>1. i \notin Pending("unflip")
      BY <2>5 DEF ShowFinalScore, CelebrateWin, Pending
    <3>2. Pending("unflip")' # {} <=> Pending("unflip") # {}
      BY <1>1, <3>1, OthersPend DEF BoardInv
    <3>3. /\ flipped' = flipped /\ lockBoard' = lockBoard
          /\ hasFlippedCard' = hasFlippedCard /\ firstCard' = firstCard
          /\ secondCard' = secondCard
      BY <2>5 DEF ShowFinalScore, CelebrateWin, turn, board
    <3> QED
      BY <1>3, <1>7, <2>1, <2>2, <2>3, <3>2, <3>3 DEF Playing
  <2> QED
    BY <2>1, <2>4, <2>5 DEF EndReveal
<1> QED
  BY <1>3, <1>4, <1>5, <1>6, <1>7 DEF BoardInv

LEMMA BoardInvInductive == BoardInv /\ TypeOK' /\ [Next]_vars => BoardInv'
<1> SUFFICES ASSUME BoardInv, TypeOK', [Next]_vars PROVE BoardInv'
  OBVIOUS
<1>0. /\ TypeOK /\ timers \in Seq(Timers) /\ Len(timers) \in Nat
      /\ DOMAIN timers = 1 .. Len(timers) /\ listening \subseteq Cards /\ None \notin Cards
      /\ {firstCard, secondCard} \subseteq Cards \cup {None}
  BY GameAssumption DEF BoardInv, TypeOK, Cards
<1>1. CASE StartGameOnFirstClick
  <2>1. /\ gameStarted = FALSE /\ hurried = FALSE /\ Fresh /\ NoTurn /\ listening = Cards
    BY <1>1, <1>0 DEF StartGameOnFirstClick, BoardInv, TypeOK
  <2>2. \A k : Pending(k) = {}
    BY <2>1 DEF Fresh, Pending
  <2>3. timers' = Append(timers, Timer("reveal", RevealTime))
    BY <1>1 DEF StartGameOnFirstClick
  <2>4. /\ Pending("reveal")' = {Len(timers) + 1} /\ Pending("unflip")' = {}
        /\ timers'[Len(timers) + 1].current = TRUE
    BY <1>0, <2>2, <2>3, TimerType, OneMorePends DEF Timer
  <2>5. /\ lockBoard' = lockBoard /\ gameStarted' = TRUE /\ listening' = listening
        /\ NoTurn'
    BY <1>1, <2>1 DEF StartGameOnFirstClick, turn, NoTurn
  <2> QED
    BY <2>1, <2>4, <2>5 DEF BoardInv, Revealing, Fresh
<1>2. CASE ResetGame
  <2> DEFINE old == [i \in DOMAIN timers |-> [timers[i] EXCEPT !.current = FALSE]]
             new == Len(timers) + 1
  <2>1. /\ DOMAIN timers' = 1 .. new
        /\ timers'[new] = Timer("reveal", RevealTime)
        /\ \A i \in 1 .. Len(timers) : timers'[i] = [timers[i] EXCEPT !.current = FALSE]
    <3>1. ASSUME NEW i \in 1 .. Len(timers)
          PROVE  [timers[i] EXCEPT !.current = FALSE] \in Timers
      <4>1. timers[i] \in Timers
        BY <1>0
      <4> QED
        BY <4>1 DEF Timers
    <3>2. old \in Seq(Timers) /\ Len(old) = Len(timers)
      BY <1>0, <3>1
    <3>3. \A i \in 1 .. Len(timers) : old[i] = [timers[i] EXCEPT !.current = FALSE]
      BY <1>0
    <3>4. timers' = Append(old, Timer("reveal", RevealTime))
      BY <1>2 DEF ResetGame
    <3> HIDE DEF old
    <3> QED
      BY <1>0, <3>2, <3>3, <3>4
  <2>2. \A i \in 1 .. Len(timers) :
            timers'[i].kind = timers[i].kind /\ timers'[i].left = timers[i].left
    <3> SUFFICES ASSUME NEW i \in 1 .. Len(timers)
                 PROVE timers'[i].kind = timers[i].kind /\ timers'[i].left = timers[i].left
      OBVIOUS
    <3>1. timers[i] \in Timers
      BY <1>0
    <3> QED
      BY <3>1, <2>1 DEF Timers
  <2>3. \A i \in 1 .. new : i = new \/ i \in 1 .. Len(timers)
    BY <1>0
  <2>4. /\ Pending("unflip")' = Pending("unflip")
        /\ Pending("reveal")' = Pending("reveal") \cup {new}
    <3>1. new \in 1 .. new /\ 1 .. Len(timers) \subseteq 1 .. new
      BY <1>0
    <3> QED
      BY <1>0, <2>1, <2>2, <2>3, <3>1 DEF Pending, Timer
  <2>5. \A i \in Pending("unflip")' : timers'[i].left <= UnflipTime
    BY <1>0, <2>2, <2>4 DEF BoardInv, Pending
  <2>6. hurried' = FALSE => Pending("reveal") = {}
    BY <1>2 DEF ResetGame
  <2>7. /\ gameStarted' = TRUE /\ lockBoard' = TRUE /\ listening' = Cards /\ NoTurn'
    BY <1>2 DEF ResetGame, ResetTurn, NoTurn
  <2>8. ASSUME Pending("reveal") = {} PROVE Revealing'
    <3>1. \A i \in Pending("unflip")' : timers'[i].left < timers'[new].left
      <4> SUFFICES ASSUME NEW i \in Pending("unflip")'
                   PROVE  timers'[i].left < timers'[new].left
        OBVIOUS
      <4>1. timers'[i].left <= UnflipTime
        BY <2>5
      <4>2. timers[i] \in Timers /\ timers'[i].left = timers[i].left
        BY <2>2, <2>4, <1>0 DEF Pending
      <4>3. timers[i].left \in 0 .. RevealTime
        BY <4>2 DEF Timers
      <4>4. timers'[new].left = RevealTime
        BY <2>1 DEF Timer
      <4> QED
        BY <4>1, <4>2, <4>3, <4>4, GameAssumption
    <3>2. timers'[new].current = TRUE
      BY <2>1 DEF Timer
    <3>3. Pending("reveal")' = {new}
      BY <2>4, <2>8
    <3> HIDE DEF new
    <3> QED
      BY <3>1, <3>2, <3>3, <2>7 DEF Revealing
  <2> QED
    BY <2>5, <2>6, <2>7, <2>8 DEF BoardInv
<1>3. ASSUME NEW card \in Cards, FlipCard(card) PROVE BoardInv'
  <2>1. /\ CanFlip(card) /\ card \in listening /\ lockBoard # TRUE
    BY <1>3 DEF FlipCard, FlipFirst, FlipMatch, FlipMismatch, CanFlip
  <2>2. gameStarted = TRUE /\ gameStarted' = TRUE /\ hurried' = hurried
    <3>1. gameStarted = TRUE
      BY <1>0, <2>1 DEF BoardInv, TypeOK, Fresh
    <3> QED
      BY <3>1, <1>3 DEF FlipCard, FlipFirst, FlipMatch, FlipMismatch
  <2>3. CASE FlipFirst(card)
    <3>1. /\ timers' = timers /\ lockBoard' = lockBoard /\ listening' = listening
          /\ hasFlippedCard' = TRUE /\ firstCard' = card /\ secondCard' = secondCard
          /\ flipped' = flipped \cup {card} /\ hasFlippedCard # TRUE
      BY <2>3 DEF FlipFirst
    <3>2. /\ Pending("reveal")' = Pending("reveal") /\ Pending("unflip")' = Pending("unflip")
          /\ Matched' = Matched
      BY <3>1 DEF Pending, Matched
    <3>3. Playing => Playing'
      BY <1>0, <2>1, <3>1, <3>2 DEF Playing
    <3> QED
      BY <2>1, <2>2, <3>1, <3>2, <3>3 DEF BoardInv, Revealing
  <2>4. CASE FlipMatch(card)
    <3>1. /\ lockBoard' = FALSE /\ listening' = listening \ {firstCard, card}
          /\ hasFlippedCard' = FALSE /\ firstCard' = None /\ secondCard' = None
          /\ flipped' = flipped \cup {card} /\ hasFlippedCard = TRUE
      BY <2>4 DEF FlipMatch, ResetBoard, ResetTurn
    <3>2. /\ Pending("reveal")' = Pending("reveal") /\ Pending("unflip")' = Pending("unflip")
          /\ \A j \in Pending("unflip") : timers'[j] = timers[j]
      <4>1. CASE timers' = timers
        BY <4>1 DEF Pending
      <4>2. CASE timers' = timers \o <<Timer("score", ResultTime), Timer("confetti", ResultTime)>>
        <5> DEFINE two == <<Timer("score", ResultTime), Timer("confetti", ResultTime)>>
        <5>1. two \in Seq(Timers) /\ Len(two) = 2 /\ two[1].kind = "score" /\ two[2].kind = "confetti"
          BY TimerType DEF Timer
        <5>2. timers' = timers \o two
          BY <4>2
        <5> HIDE DEF two
        <5>3. /\ DOMAIN timers' = 1 .. Len(timers) + 2
              /\ \A j \in 1 .. Len(timers) + 2 :
                    timers'[j] = IF j <= Len(timers) THEN timers[j] ELSE two[j - Len(timers)]
          <6>1. /\ timers' \in Seq(Timers) /\ Len(timers') = Len(timers) + Len(two)
                /\ \A j \in 1 .. Len(timers) + Len(two) :
                      timers'[j] = IF j <= Len(timers) THEN timers[j] ELSE two[j - Len(timers)]
            BY <1>0, <5>1, <5>2, ConcatProperties, Zenon
          <6>2. DOMAIN timers' = 1 .. Len(timers')
            BY <6>1
          <6> QED
            BY <6>1, <6>2, <5>1
        <5>4. \A j \in 1 .. Len(timers) + 2 :
                 \/ j \in 1 .. Len(timers) /\ timers'[j] = timers[j]
                 \/ j \notin 1 .. Len(timers) /\ timers'[j].kind \in {"score", "confetti"}
          <6> SUFFICES ASSUME NEW j \in 1 .. Len(timers) + 2
                       PROVE  \/ j \in 1 .. Len(timers) /\ timers'[j] = timers[j]
                              \/ /\ j \notin 1 .. Len(timers)
                                 /\ timers'[j].kind \in {"score", "confetti"}
            OBVIOUS
          <6>1. CASE j <= Len(timers)
            BY <6>1, <1>0, <5>3
          <6>2. CASE ~(j <= Len(timers))
            <7>1. j - Len(timers) \in {1, 2} /\ timers'[j] = two[j - Len(timers)]
              BY <6>2, <1>0, <5>3
            <7> QED
              BY <6>2, <1>0, <7>1, <5>1
          <6> QED
            BY <6>1, <6>2
        <5>5. 1 .. Len(timers) \subseteq 1 .. Len(timers) + 2
          BY <1>0
        <5> QED
          BY <1>0, <5>3, <5>4, <5>5 DEF Pending
      <4> QED
        BY <2>4, <4>1, <4>2 DEF FlipMatch
    <3>3. Playing => Playing'
      <4> SUFFICES ASSUME Playing PROVE Playing'
        OBVIOUS
      <4>1. secondCard = None /\ firstCard # None /\ firstCard \in listening
        BY <2>1, <3>1 DEF Playing
      <4>2. Matched' = Matched \cup {firstCard, card}
        BY <1>0, <2>1, <3>1, <4>1 DEF Matched
      <4>3. flipped' = Matched'
        BY <1>0, <3>1, <4>1, <4>2 DEF Playing
      <4>4. Pending("unflip")' = {} /\ Pending("reveal")' = {}
        BY <3>2, <4>1 DEF Playing
      <4> QED
        BY <3>1, <4>3, <4>4 DEF Playing
    <3> QED
      BY <2>1, <2>2, <3>1, <3>2, <3>3 DEF BoardInv, Revealing
  <2>5. CASE FlipMismatch(card)
    <3>1. /\ timers' = Append(timers, Timer("unflip", UnflipTime))
          /\ lockBoard' = TRUE /\ listening' = listening
          /\ hasFlippedCard' = hasFlippedCard /\ firstCard' = firstCard /\ secondCard' = card
          /\ flipped' = flipped \cup {card} /\ hasFlippedCard = TRUE
      BY <2>5 DEF FlipMismatch
    <3> DEFINE new == Len(timers) + 1
    <3>2. /\ Pending("reveal")' = Pending("reveal")
          /\ Pending("unflip")' = Pending("unflip") \cup {new}
          /\ timers'[new].left = UnflipTime
          /\ \A j \in Pending("unflip") : timers'[j] = timers[j]
      <4> DEFINE t == Timer("unflip", UnflipTime)
      <4>1. t \in Timers /\ t.kind = "unflip" /\ t.left = UnflipTime
        BY TimerType DEF Timer
      <4>2. timers' = Append(timers, t)
        BY <3>1
      <4> HIDE DEF t
      <4>3. /\ Pending("reveal")' =
                  Pending("reveal") \cup (IF t.kind = "reveal" THEN {Len(timers) + 1} ELSE {})
            /\ Pending("unflip")' =
                  Pending("unflip") \cup (IF t.kind = "unflip" THEN {Len(timers) + 1} ELSE {})
            /\ timers'[Len(timers) + 1] = t
            /\ \A j \in Pending("unflip") : timers'[j] = timers[j]
        BY <1>0, <4>1, <4>2, OneMorePends
      <4> QED
        BY <4>1, <4>3
    <3> HIDE DEF new
    <3>3. Matched' = Matched
      BY <3>1 DEF Matched
    <3>4. Playing => Playing'
      <4> SUFFICES ASSUME Playing PROVE Playing'
        OBVIOUS
      <4>1. secondCard = None /\ firstCard # None /\ Pending("unflip") = {}
        BY <2>1, <3>1 DEF Playing
      <4>2. flipped' = Matched' \cup ({firstCard', secondCard'} \ {None})
        BY <1>0, <3>1, <3>3, <4>1 DEF Playing
      <4>3. {firstCard', secondCard'} \subseteq listening' \cup {None}
        BY <2>1, <3>1 DEF Playing
      <4>4. card # None
        BY <1>0
      <4> QED
        BY <3>1, <3>2, <4>1, <4>2, <4>3, <4>4 DEF Playing
    <3>5. \A j \in Pending("unflip")' : timers'[j].left <= UnflipTime
      BY <3>2, GameAssumption DEF BoardInv
    <3> QED
      BY <2>1, <2>2, <3>4, <3>5 DEF BoardInv, Revealing
  <2> QED
    BY <1>3, <2>3, <2>4, <2>5 DEF FlipCard
<1>4. CASE ConfettiEnds \/ UNCHANGED vars
  BY <1>4 DEF ConfettiEnds, vars, turn, board, BoardInv, Fresh, NoTurn, Revealing, Playing,
     Pending, Matched
<1>5. CASE Tick
  <2>1. /\ DOMAIN timers' = DOMAIN timers
        /\ \A i \in DOMAIN timers : /\ timers'[i].kind = timers[i].kind
                                    /\ timers'[i].current = timers[i].current
                                    /\ timers'[i].left = timers[i].left - 1
                                    /\ timers[i].left \in Nat
    <3> SUFFICES ASSUME NEW i \in DOMAIN timers
                 PROVE  /\ DOMAIN timers' = DOMAIN timers
                        /\ timers'[i].kind = timers[i].kind
                        /\ timers'[i].current = timers[i].current
                        /\ timers'[i].left = timers[i].left - 1
                        /\ timers[i].left \in Nat
      BY <1>5 DEF Tick
    <3>1. timers[i] \in Timers
      BY <1>0
    <3>2. timers' = [j \in DOMAIN timers |-> [timers[j] EXCEPT !.left = @ - 1]]
      BY <1>5 DEF Tick
    <3> QED
      BY <3>1, <3>2, GameAssumption DEF Timers
  <2>2. \A k : Pending(k)' = Pending(k)
    BY <2>1 DEF Pending
  <2>3. /\ gameStarted' = gameStarted /\ lockBoard' = lockBoard /\ hurried' = hurried
        /\ hasFlippedCard' = hasFlippedCard /\ firstCard' = firstCard /\ secondCard' = secondCard
        /\ flipped' = flipped /\ listening' = listening /\ Matched' = Matched
    BY <1>5 DEF Tick, turn, board, Matched
  <2>4. gameStarted = TRUE
    BY <1>0, <1>5 DEF BoardInv, TypeOK, Fresh, Tick
  <2>5. \A i \in Pending("unflip")' : timers'[i].left <= UnflipTime
    BY <2>1, <2>2, GameAssumption DEF BoardInv, Pending
  <2>6. Revealing => Revealing'
    <3> SUFFICES ASSUME Revealing PROVE Revealing'
      OBVIOUS
    <3>1. \A i \in Pending("reveal")', j \in Pending("unflip")' : timers'[j].left < timers'[i].left
      BY <2>1, <2>2 DEF Revealing, Pending
    <3>2. \A i \in Pending("reveal")' : timers'[i].current = TRUE
      BY <2>1, <2>2 DEF Revealing, Pending
    <3> QED
      BY <2>2, <2>3, <3>1, <3>2 DEF Revealing
  <2>7. Playing => Playing'
    BY <2>2, <2>3 DEF Playing
  <2>8. NoTurn => NoTurn'
    BY <2>3 DEF NoTurn
  <2> QED
    BY <2>3, <2>4, <2>5, <2>6, <2>7, <2>8 DEF BoardInv
<1> QED
  BY <1>1, <1>2, <1>3, <1>4, <1>5, FireKeepsBoard DEF Next, Player, Fire

(* Outside a reveal the cards that are face up are the matched ones and    *)
(* those of the turn under way, whatever timers of an earlier game are     *)
(* pending: unflipCards' timer has always fired when the reveal of the     *)
(* next game ends. Only a reset in the middle of a reveal breaks this.     *)
THEOREM BoardIsShown == Spec => []BoardShowsTurn
<1>1. Init => BoardInv
  <2> SUFFICES ASSUME Init PROVE BoardInv
    OBVIOUS
  <2>1. TypeOK
    BY InitTypes
  <2>2. Pending("unflip") = {}
    BY DEF Init, Pending
  <2> QED
    BY <2>1, <2>2 DEF Init, BoardInv, Fresh, NoTurn
<1>2. BoardInv /\ TypeOK' /\ [Next]_vars => BoardInv'
  BY BoardInvInductive
<1> QED
  BY <1>1, <1>2, BoardShown, TypeCorrect, PTL DEF Spec

====
