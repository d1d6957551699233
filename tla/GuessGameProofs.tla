-------------------------- MODULE GuessGameProofs --------------------------
(* The number game for every upper bound and every number in its range.    *)
EXTENDS GuessGame, TLAPS

USE DEF Answers, Results

\* Half the sum of two bounds is a bound.
LEMMA MiddleType ==
  ASSUME NEW low \in 0..Upper, NEW high \in 0..Upper
  PROVE  Middle(low, high) \in 0..Upper
  BY GameAssumption DEF Middle

\* The values of both processes keep their types, for every upper bound and
\* however the two processes hurry.
THEOREM TypeCorrect == Spec => []TypeOK
<1>1. Init => TypeOK
  <2> SUFFICES ASSUME Init PROVE TypeOK
    OBVIOUS
  <2>1. 0 \in 0..Upper /\ Upper \in 0..Upper /\ 0 \in 0..MaxRestarts
    BY GameAssumption
  <2>2. QED
    BY <2>1, Zenon DEF Init, TypeOK
<1>2. TypeOK /\ [Next]_vars => TypeOK'
  <2> SUFFICES ASSUME TypeOK, [Next]_vars PROVE TypeOK'
    OBVIOUS
  <2>1. CASE SetGuess
    <3>1. min' \in 0..Upper /\ upper_bound' \in 0..Upper
      BY <2>1, GameAssumption DEF TypeOK, SetGuess, MinAfter, UpperAfter
    <3>2. guess' \in 0..Upper
      BY <2>1, <3>1, MiddleType DEF SetGuess
    <3>3. QED
      BY <2>1, <3>1, <3>2 DEF TypeOK, SetGuess, gameVars
  <2>2. CASE SendSignal
    BY <2>2 DEF TypeOK, SendSignal, gameVars
  <2>3. CASE Bingo
    BY <2>3 DEF TypeOK, Bingo, gameVars
  <2>4. CASE Restart
    BY <2>4, GameAssumption DEF TypeOK, Restart, gameVars
  <2>5. CASE HandlerRead
    BY <2>5 DEF TypeOK, HandlerRead, guessVars
  <2>6. CASE HandlerStartsToWrite
    BY <2>6 DEF TypeOK, HandlerStartsToWrite, guessVars
  <2>7. CASE HandlerReturns
    BY <2>7 DEF TypeOK, HandlerReturns, Answer, guessVars
  <2>8. CASE CtrlC
    BY <2>8 DEF TypeOK, CtrlC, guessVars
  <2>9. CASE GameExits
    BY <2>9 DEF TypeOK, GameExits, guessVars
  <2>10. CASE UNCHANGED vars
    BY <2>10 DEF TypeOK, vars, gameVars, guessVars
  <2>11. QED
    BY <2>1, <2>2, <2>3, <2>4, <2>5, <2>6, <2>7, <2>8, <2>9, <2>10 DEF Next, GuessStep, GameStep
<1>3. QED
  BY <1>1, <1>2, PTL DEF Spec

\* The answer to a guess other than the number keeps the number in the interval.
LEMMA SetGuessKeepsNumber ==
  ASSUME TypeOK, GuessInv, SetGuess, ~misled'
  PROVE  min' < number /\ number <= upper_bound'
<1>1. number \in 1..Upper
  BY GameAssumption DEF TypeOK
<1>2. min < number /\ number <= upper_bound
  BY DEF GuessInv, NumberInInterval, SetGuess
<1>3. min' = MinAfter(result) /\ upper_bound' = UpperAfter(result)
  BY DEF SetGuess
<1>4. CASE ~OwnAnswer
  <2>1. min' = min /\ upper_bound' = upper_bound
    BY <1>4 DEF SetGuess
  <2>2. QED
    BY <2>1, <1>2
<1>5. CASE OwnAnswer
  <2>1. result = "bigger" => guess < number
    BY <1>1, <1>5 DEF OwnAnswer, GuessInv, AnswerIsTrue, Answer, TypeOK
  <2>2. result = "smaller" => guess >= number
    BY <1>1, <1>5 DEF OwnAnswer, GuessInv, AnswerIsTrue, Answer, TypeOK
  <2>3. min' < number
    BY <1>1, <1>2, <1>3, <2>1 DEF MinAfter, TypeOK
  <2>4. number <= upper_bound'
    BY <1>1, <1>2, <1>3, <2>2 DEF UpperAfter, TypeOK
  <2>5. QED
    BY <2>3, <2>4
<1>6. QED
  BY <1>4, <1>5

\* A guess that is the number is not replaced while its "bingo" is on the way.
LEMMA SetGuessKeepsHit ==
  ASSUME TypeOK, GuessInv, SetGuess, ~misled',
         game_pc \in {"read", "write"}, seen = number
  PROVE  guess' = number
<1>1. number \in 1..Upper
  BY GameAssumption DEF TypeOK
<1>2. guess = number /\ ~misled
  BY DEF GuessInv, SetGuess
<1>3. CASE ~OwnAnswer
  BY <1>2, <1>3 DEF SetGuess
<1>4. CASE result = "unstart"
  <2>1. upper_bound = Upper /\ guess = Middle(0, Upper)
    BY <1>1, <1>2, <1>4 DEF GuessInv, FirstGuess
  <2>2. min' = 0 /\ upper_bound' = Upper
    BY <1>4, <2>1 DEF SetGuess, MinAfter, UpperAfter
  <2>3. QED
    BY <1>2, <2>1, <2>2 DEF SetGuess
<1>5. CASE result \in Answers /\ about = guess
  BY <1>1, <1>2, <1>5 DEF SetGuess, GuessInv, AnswerIsTrue, Answer, TypeOK
<1>6. QED
  BY <1>3, <1>4, <1>5 DEF OwnAnswer

\* Until the first answer set_guess stays with the middle of the whole range.
LEMMA SetGuessKeepsFirst ==
  ASSUME TypeOK, GuessInv, SetGuess
  PROVE  FirstGuess'
<1> SUFFICES ASSUME result = "unstart"
             PROVE  upper_bound' = Upper /\ guess' = Middle(0, Upper)
  BY DEF FirstGuess, SetGuess, Middle
<1>1. upper_bound = Upper
  BY DEF GuessInv, FirstGuess
<1>2. min' = 0 /\ upper_bound' = Upper
  BY <1>1 DEF SetGuess, MinAfter, UpperAfter
<1>3. QED
  BY <1>2 DEF SetGuess

\* The game's invariant is kept by every step of both programs.
LEMMA GuessInvStep ==
  ASSUME TypeOK, GuessInv, [Next]_vars
  PROVE  GuessInv'
<1> USE DEF GuessInv, NumberInInterval, BingoIsRight, AnswerIsTrue, FirstGuess
<1>1. CASE SetGuess
  <2>1. result' = result /\ result # "bingo" /\ number' = number /\ seen' = seen
        /\ about' = about /\ game_pc' = game_pc /\ guess_pc' = "kill"
    BY <1>1 DEF SetGuess, gameVars
  <2>2. NumberInInterval'
    BY <1>1, <2>1, SetGuessKeepsNumber
  <2>3. FirstGuess'
    BY <1>1, SetGuessKeepsFirst
  <2>4. (~misled /\ game_pc \in {"read", "write"} /\ seen = number => guess = number)'
    BY <1>1, <2>1, SetGuessKeepsHit
  <2>5. AnswerIsTrue' /\ BingoIsRight'
    BY <2>1 DEF Answer
  <2>6. QED
    BY <2>1, <2>2, <2>3, <2>4, <2>5
<1>2. CASE SendSignal
  BY <1>2 DEF SendSignal, gameVars, Answer
<1>3. CASE Bingo
  BY <1>3 DEF Bingo, gameVars, Answer
<1>4. CASE Restart
  <2>1. number \in 1..Upper /\ min' = 0 /\ upper_bound' = Upper
    BY <1>4, GameAssumption DEF Restart, TypeOK
  <2>2. NumberInInterval'
    BY <1>4, <2>1 DEF Restart, gameVars
  <2>3. QED
    BY <1>4, <2>1, <2>2 DEF Restart, gameVars, Answer
<1>5. CASE HandlerRead
  BY <1>5 DEF HandlerRead, guessVars, Answer
<1>6. CASE HandlerStartsToWrite
  BY <1>6 DEF HandlerStartsToWrite, guessVars
<1>7. CASE HandlerReturns
  <2>1. result' = Answer(seen) /\ about' = seen /\ number' = number
    BY <1>7 DEF HandlerReturns
  <2>2. result' = "bingo" => seen = number
    BY <2>1, GameAssumption DEF Answer, TypeOK
  <2>3. AnswerIsTrue'
    BY <2>1 DEF Answer
  <2>4. QED
    BY <1>7, <2>1, <2>2, <2>3 DEF HandlerReturns, guessVars, Answer
<1>8. CASE CtrlC
  BY <1>8 DEF CtrlC, guessVars, Answer
<1>9. CASE GameExits
  BY <1>9 DEF GameExits, guessVars, Answer
<1>10. CASE UNCHANGED vars
  BY <1>10 DEF vars, gameVars, guessVars, Answer
<1>11. QED
  BY <1>1, <1>2, <1>3, <1>4, <1>5, <1>6, <1>7, <1>8, <1>9, <1>10 DEF Next, GuessStep, GameStep

LEMMA GuessInvAlways == Spec => []GuessInv
<1>1. Init => GuessInv
  <2> SUFFICES ASSUME Init PROVE GuessInv
    OBVIOUS
  <2>1. number \in 1..Upper
    BY GameAssumption DEF Init
  <2>2. NumberInInterval
    BY <2>1 DEF Init, NumberInInterval
  <2>3. QED
    BY <2>2 DEF Init, GuessInv, BingoIsRight, AnswerIsTrue, FirstGuess
<1>2. TypeOK /\ GuessInv /\ [Next]_vars => GuessInv'
  BY GuessInvStep
<1>3. QED
  BY <1>1, <1>2, TypeCorrect, PTL DEF Spec

\* The halving of guess.c loses the number only to an answer that is not the one
\* to its guess: for every upper bound and every number up to it, at whatever
\* pace the two programs go and wherever guess.c is stopped (guess.c: set_guess).
THEOREM NumberStaysInInterval == Spec => []NumberInInterval
<1>1. GuessInv => NumberInInterval
  BY DEF GuessInv
<1>2. QED
  BY <1>1, GuessInvAlways, PTL

\* A guess.c that was not misled ends with the number as its guess.
THEOREM BingoIsAlwaysRight == Spec => []BingoIsRight
<1>1. GuessInv => BingoIsRight
  BY DEF GuessInv
<1>2. QED
  BY <1>1, GuessInvAlways, PTL

\* Once no signal is on the way, the answer is the one to the last guess.
LEMMA HasteInvStep ==
  ASSUME TypeOK, HasteInv, [Next]_vars
  PROVE  HasteInv'
<1> USE DEF HasteInv, OwnAnswer
<1>0. restarts \in Nat
  BY GameAssumption DEF TypeOK
<1>1. CASE SetGuess
  BY <1>1 DEF SetGuess, gameVars
<1>2. CASE SendSignal
  BY <1>2 DEF SendSignal, gameVars
<1>3. CASE Bingo
  BY <1>3 DEF Bingo, gameVars
<1>4. CASE Restart
  BY <1>0, <1>4 DEF Restart
<1>5. CASE HandlerRead
  BY <1>5 DEF HandlerRead, guessVars
<1>6. CASE HandlerStartsToWrite
  BY <1>6 DEF HandlerStartsToWrite, guessVars
<1>7. CASE HandlerReturns
  BY <1>7 DEF HandlerReturns, guessVars, Answer
<1>8. CASE CtrlC
  BY <1>8 DEF CtrlC, guessVars
<1>9. CASE GameExits
  BY <1>9 DEF GameExits, guessVars
<1>10. CASE UNCHANGED vars
  BY <1>10 DEF vars, gameVars, guessVars
<1>11. QED
  BY <1>1, <1>2, <1>3, <1>4, <1>5, <1>6, <1>7, <1>8, <1>9, <1>10 DEF Next, GuessStep, GameStep

\* No signal is lost: without a restart, only a guess.c that goes on before the
\* game is done with its signal can be misled (guess.c:24-43, game.c: sig_handler).
THEOREM OnlyHasteMisleads == Spec => MisledByHaste
<1>1. Init => HasteInv
  BY DEF Init, HasteInv, OwnAnswer
<1>2. TypeOK /\ HasteInv /\ [Next]_vars => HasteInv'
  BY HasteInvStep
<1>3. TypeOK /\ HasteInv /\ [Next]_vars
        => [~misled /\ misled' => pending \/ game_pc # "sleep" \/ restarts > 0]_vars
  <2> SUFFICES ASSUME TypeOK, HasteInv, [Next]_vars, ~misled, misled', ~pending, game_pc = "sleep"
               PROVE  restarts > 0
    OBVIOUS
  <2>1. SetGuess
    BY DEF Next, GuessStep, GameStep, SendSignal, Bingo, Restart, HandlerRead,
           HandlerStartsToWrite, HandlerReturns, CtrlC, GameExits, vars, guessVars
  <2>2. guess_pc = "sleep" /\ ~OwnAnswer
    BY <2>1 DEF SetGuess
  <2>3. restarts # 0
    BY <2>2 DEF HasteInv
  <2>4. QED
    BY <2>3, GameAssumption DEF TypeOK
<1>4. QED
  BY <1>1, <1>2, <1>3, TypeCorrect, PTL DEF Spec, MisledByHaste
=============================================================================
