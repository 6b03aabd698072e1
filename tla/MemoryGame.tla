----------------------------- MODULE MemoryGame -----------------------------
(***************************************************************************)
(* The memory game in the footer of every page: the board, the player's    *)
(* clicks, and the timers that show the cards at the start of a game, turn *)
(* a pair back that does not match, and show the result of a won game.     *)
(*                                                                         *)
(* JavaScript runs one handler or timer at a time. No timer is ever        *)
(* cancelled: a timer that a game has set may fire in the next one.        *)
(***************************************************************************)
EXTENDS Naturals, FiniteSets, Sequences, SequencesExt

CONSTANTS Symbols,      \* one pair of cards shows each
          StartScore,   \* 1000
          Penalty,      \* 50
          RevealTime,   \* 1500 ms, in ticks
          UnflipTime,   \* 1000 ms
          ResultTime,   \* 500 ms
          MaxTimers,    \* bound: timers pending
          MaxConfetti,  \* bound: showers of confetti on the page
          None          \* null

ASSUME GameAssumption ==
    /\ IsFiniteSet(Symbols) /\ Symbols # {}
    /\ {StartScore, Penalty, MaxTimers, MaxConfetti} \subseteq Nat
    /\ {RevealTime, UnflipTime, ResultTime} \subseteq Nat \ {0}
    /\ UnflipTime < RevealTime /\ ResultTime < RevealTime
    /\ None \notin Symbols \X {1, 2}

(* A card is one of the two that show its symbol; where the shuffle puts   *)
(* it does not matter.                                                     *)
Cards == Symbols \X {1, 2}
Symbol(card) == card[1]

VARIABLES
    gameStarted, lockBoard, hasFlippedCard, firstCard, secondCard,
    matchedPairs, score,
    flipped,    \* cards of the board with the class "flipped"
    listening,  \* cards of the board that flipCard listens to
    overlay,    \* the final score is on the page
    confetti,   \* confetti containers on the page
    timers,     \* pending timers, in the order they were set
    hurried     \* history: the game was begun in the middle of a reveal

turn == <<hasFlippedCard, firstCard, secondCard>>
board == <<flipped, listening>>
result == <<overlay, confetti>>
vars == <<gameStarted, lockBoard, turn, matchedPairs, score, board, result,
          timers, hurried>>

Timers == [kind : {"reveal", "unflip", "score", "confetti"},
           left : 0 .. RevealTime, current : BOOLEAN]
Timer(kind, time) == [kind |-> kind, left |-> time, current |-> TRUE]

(* Timers that are pending for the game on the board (current), or for one *)
(* of the games before it.                                                 *)
Pending(kind) == {i \in DOMAIN timers : timers[i].kind = kind}

----------------------------------------------------------------------------
(* initGame, once the page has loaded. *)
Init ==
    /\ gameStarted = FALSE /\ lockBoard = TRUE
    /\ hasFlippedCard = FALSE /\ firstCard = None /\ secondCard = None
    /\ matchedPairs = 0 /\ score = StartScore
    /\ flipped = {} /\ listening = Cards
    /\ overlay = FALSE /\ confetti = 0
    /\ timers = <<>>
    /\ hurried = FALSE

(* startGameOnFirstClick: a click anywhere on the board. The click reaches *)
(* the card first, and flipCard finds the board locked.                    *)
StartGameOnFirstClick ==
    /\ ~gameStarted
    /\ Len(timers) < MaxTimers
    /\ gameStarted' = TRUE
    /\ flipped' = Cards
    /\ timers' = Append(timers, Timer("reveal", RevealTime))
    /\ UNCHANGED <<lockBoard, turn, matchedPairs, score, listening, result, hurried>>

(* Faulty: the selected cards stay selected. *)
KeepTurn == UNCHANGED turn
ResetTurn == hasFlippedCard' = FALSE /\ firstCard' = None /\ secondCard' = None

(* Faulty: the board is not unlocked. *)
ResetTurnOnly == ResetTurn /\ UNCHANGED lockBoard

(* resetBoard *)
ResetBoard == ResetTurn /\ lockBoard' = FALSE

(* Faulty: the count of the game before goes on. *)
KeepPairs == UNCHANGED matchedPairs
ResetPairs == matchedPairs' = 0

(* resetGame: the first confetti container on the page is removed, the     *)
(* board is made anew (the cards of pending reveals are off the page), and *)
(* the reveal begins.                                                      *)
ResetGame ==
    /\ Len(timers) < MaxTimers
    /\ confetti' = IF confetti > 0 THEN confetti - 1 ELSE 0
    /\ gameStarted' = TRUE /\ lockBoard' = TRUE
    /\ ResetTurn
    /\ ResetPairs /\ score' = StartScore
    /\ flipped' = Cards /\ listening' = Cards
    /\ overlay' = FALSE
    /\ timers' = Append([i \in DOMAIN timers |-> [timers[i] EXCEPT !.current = FALSE]],
                        Timer("reveal", RevealTime))
    /\ hurried' = (Pending("reveal") # {})

(* What flipCard's early returns leave. *)
CanFlip(card) == card \in listening /\ ~lockBoard /\ card # firstCard

(* flipCard, the first card of a turn. *)
FlipFirst(card) ==
    /\ CanFlip(card)
    /\ ~hasFlippedCard
    /\ hasFlippedCard' = TRUE
    /\ firstCard' = card
    /\ flipped' = flipped \cup {card}
    /\ UNCHANGED <<gameStarted, lockBoard, secondCard, matchedPairs, score,
                   listening, result, timers, hurried>>

(* Faulty: any two cards are a pair. *)
AnyPair(a, b) == TRUE

(* checkForMatch *)
IsPair(a, b) == Symbol(a) = Symbol(b)

(* flipCard, the second card: a pair; disableCards. *)
FlipMatch(card) ==
    /\ CanFlip(card)
    /\ hasFlippedCard
    /\ IsPair(firstCard, card)
    /\ Len(timers) + 2 <= MaxTimers /\ confetti < MaxConfetti
    /\ flipped' = flipped \cup {card}
    /\ listening' = listening \ {firstCard, card}
    /\ ResetBoard
    /\ matchedPairs' = matchedPairs + 1
    /\ timers' = IF matchedPairs' = Cardinality(Symbols)
                 THEN timers \o <<Timer("score", ResultTime), Timer("confetti", ResultTime)>>
                 ELSE timers
    /\ UNCHANGED <<gameStarted, score, result, hurried>>

(* flipCard, the second card: no pair; unflipCards. *)
FlipMismatch(card) ==
    /\ CanFlip(card)
    /\ hasFlippedCard
    /\ ~IsPair(firstCard, card)
    /\ Len(timers) < MaxTimers
    /\ flipped' = flipped \cup {card}
    /\ secondCard' = card
    /\ score' = IF score > Penalty THEN score - Penalty ELSE 0
    /\ lockBoard' = TRUE
    /\ timers' = Append(timers, Timer("unflip", UnflipTime))
    /\ UNCHANGED <<gameStarted, hasFlippedCard, firstCard, matchedPairs,
                   listening, result, hurried>>

----------------------------------------------------------------------------
(* A timer is due. Timers of the same kind have the same delay, and fire   *)
(* in the order they were set.                                             *)
Due(i) ==
    /\ timers[i].left = 0
    /\ timers' = RemoveAt(timers, i)

(* The reveal ends: the cards it has shown are turned back, which are off  *)
(* the page if the game has been reset meanwhile; the board is unlocked.   *)
EndReveal(i) ==
    /\ Due(i)
    /\ timers[i].kind = "reveal"
    /\ flipped' = IF timers[i].current THEN {} ELSE flipped
    /\ lockBoard' = FALSE
    /\ UNCHANGED <<gameStarted, turn, matchedPairs, score, listening, result, hurried>>

(* unflipCards' timer works on the two cards that are selected when it     *)
(* fires. If there is none, or no second, it throws there.                 *)
Unflip(i) ==
    /\ Due(i)
    /\ timers[i].kind = "unflip"
    /\ flipped' = IF firstCard # None THEN flipped \ {firstCard, secondCard} ELSE flipped
    /\ IF firstCard # None /\ secondCard # None
       THEN ResetBoard
       ELSE UNCHANGED <<turn, lockBoard>>
    /\ UNCHANGED <<gameStarted, matchedPairs, score, listening, result, hurried>>

(* showFinalScore *)
ShowFinalScore(i) ==
    /\ Due(i)
    /\ timers[i].kind = "score"
    /\ overlay' = TRUE
    /\ UNCHANGED <<gameStarted, lockBoard, turn, matchedPairs, score, board,
                   confetti, hurried>>

(* celebrateWin *)
CelebrateWin(i) ==
    /\ Due(i)
    /\ timers[i].kind = "confetti"
    /\ confetti' = confetti + 1
    /\ UNCHANGED <<gameStarted, lockBoard, turn, matchedPairs, score, board,
                   overlay, hurried>>

(* animateConfetti removes its container when all pieces have fallen, or   *)
(* after 600 frames.                                                       *)
ConfettiEnds ==
    /\ confetti > 0
    /\ confetti' = confetti - 1
    /\ UNCHANGED <<gameStarted, lockBoard, turn, matchedPairs, score, board,
                   overlay, timers, hurried>>

Tick ==
    /\ timers # <<>>
    /\ \A i \in DOMAIN timers : timers[i].left > 0
    /\ timers' = [i \in DOMAIN timers |-> [timers[i] EXCEPT !.left = @ - 1]]
    /\ UNCHANGED <<gameStarted, lockBoard, turn, matchedPairs, score, board,
                   result, hurried>>

----------------------------------------------------------------------------
FlipCard(card) == FlipFirst(card) \/ FlipMatch(card) \/ FlipMismatch(card)

Player == StartGameOnFirstClick \/ ResetGame \/ \E card \in Cards : FlipCard(card)

Fire ==
    \E i \in DOMAIN timers :
        /\ \A j \in 1 .. i - 1 : timers[j].kind # timers[i].kind
        /\ EndReveal(i) \/ Unflip(i) \/ ShowFinalScore(i) \/ CelebrateWin(i)

Next == Player \/ Fire \/ ConfettiEnds \/ Tick

Spec == Init /\ [][Next]_vars

(* Time passes and the browser runs the timers that are due. Nothing is    *)
(* assumed of the player.                                                  *)
FairSpec == Spec /\ WF_vars(Tick) /\ WF_vars(Fire)

----------------------------------------------------------------------------
TypeOK ==
    /\ {gameStarted, lockBoard, hasFlippedCard, overlay, hurried} \subseteq BOOLEAN
    /\ {firstCard, secondCard} \subseteq Cards \cup {None}
    /\ matchedPairs \in 0 .. Cardinality(Symbols)
    /\ score \in 0 .. StartScore
    /\ flipped \subseteq Cards /\ listening \subseteq Cards
    /\ confetti \in Nat
    /\ timers \in Seq(Timers)

(* matchedPairs, on which the win depends, counts the pairs that are out   *)
(* of play, and these are pairs of one symbol each: whatever timers of     *)
(* earlier games do to the board and to the turn under way.                *)
Matched == Cards \ listening
MatchedArePairs ==
    /\ Cardinality(Matched) = 2 * matchedPairs
    /\ \A card \in Matched : {Symbol(card)} \X {1, 2} \subseteq Matched

(* What the player sees is what the game goes by: outside a reveal, the    *)
(* cards that are face up are the matched ones and those of the turn under *)
(* way, even if the game before was reset in the middle of a turn. It is   *)
(* promised only of a game that was not begun in the middle of a reveal.   *)
BoardShowsTurn ==
    ~hurried /\ Pending("reveal") = {} =>
        flipped = Matched \cup ({firstCard, secondCard} \ {None})

(* The board never stays locked: a turn that does not match, a reset at    *)
(* any moment and a timer that throws are all followed by an unlocked      *)
(* board, on which the player can go on.                                   *)
LockIsReleased == (gameStarted /\ lockBoard) ~> ~lockBoard

(* "Enable clicking on cards after the initial reveal": a card can be      *)
(* clicked only after the cards of the board have been turned back.        *)
UnlockedAfterReveal ==
    ~lockBoard => \A i \in Pending("reveal") : ~timers[i].current
=============================================================================
