----------------------------- MODULE GuessGame -----------------------------
(***************************************************************************)
(* The number game of lab7: game.c knows a number, guess.c looks for it by *)
(* halving an interval.  They share a segment with the guess and the       *)
(* answer.  Once a second guess.c reads the answer, writes its next guess  *)
(* and signals SIGUSR1; game.c compares and writes the answer in its       *)
(* signal handler.  Nothing tells guess.c whether the answer it reads is   *)
(* the one to its last guess: all it does about that is sleep(1), and it   *)
(* may be stopped and started again between any two of its steps.          *)
(***************************************************************************)
EXTENDS Integers

CONSTANTS
  Upper,        \* the upper bound guess.c is started with
  Numbers,      \* the numbers game.c may be started with
  MaxRestarts   \* bound: how often guess.c is started again

ASSUME GameAssumption ==
  /\ Upper \in Nat
  /\ Numbers \subseteq 1..Upper
  /\ MaxRestarts \in Nat

Answers == {"bigger", "smaller", "bingo"}
\* "partial": strcpy is under way; "empty": a segment no game has initialised.
Results == Answers \cup {"unstart", "partial", "empty"}

VARIABLES
  guess, result,      \* the shared segment
  number,             \* what game.c was started with
  game_pc,            \* "sleep", "read" or "write" in the handler, "exited"
  seen,               \* the guess the handler has read
  pending,            \* SIGUSR1 is pending: further ones are not counted
  sigint,             \* Ctrl+C was pressed in the game
  guess_pc,           \* "sleep", "kill" or "exited"
  min, upper_bound,   \* the interval of guess.c
  about,              \* history: the guess the answer in the segment is about
  misled,             \* history: guess.c has gone on without an answer to its guess
  restarts            \* for MaxRestarts

gameVars == <<number, game_pc, seen, sigint, about>>
guessVars == <<guess_pc, min, upper_bound, misled>>
vars == <<guess, result, pending, gameVars, guessVars, restarts>>

TypeOK ==
  /\ guess \in 0..Upper
  /\ result \in Results
  /\ number \in Numbers
  /\ game_pc \in {"sleep", "read", "write", "exited"}
  /\ seen \in 0..Upper
  /\ pending \in BOOLEAN /\ sigint \in BOOLEAN
  /\ guess_pc \in {"sleep", "kill", "exited"}
  /\ min \in 0..Upper /\ upper_bound \in 0..Upper
  /\ about \in 0..Upper /\ misled \in BOOLEAN
  /\ restarts \in 0..MaxRestarts

Init ==
  /\ guess = 0 /\ result = "unstart"
  /\ number \in Numbers
  /\ game_pc = "sleep" /\ seen = 0 /\ pending = FALSE /\ sigint = FALSE
  /\ guess_pc = "sleep" /\ min = 0 /\ upper_bound = Upper
  /\ about = 0 /\ misled = FALSE /\ restarts = 0

-----------------------------------------------------------------------------
(* guess.c                                                                 *)

Middle(low, high) == (low + high) \div 2

\* Mutant: the interval is taken to include its lower end.
MinAfter_Inclusive(answer) ==
  CASE answer = "unstart" -> 0
    [] answer = "bigger"  -> guess + 1
    [] OTHER              -> min

MinAfter(answer) ==
  CASE answer = "unstart" -> 0
    [] answer = "bigger"  -> guess
    [] OTHER              -> min

UpperAfter(answer) == IF answer = "smaller" THEN guess ELSE upper_bound

\* For the history: there is no guess yet, or the answer in the segment is about
\* the guess beside it.
OwnAnswer == result = "unstart" \/ (result \in Answers /\ about = guess)

\* set_guess with another answer than "bingo", up to the store of the guess.
SetGuess ==
  /\ guess_pc = "sleep"
  /\ result # "bingo"
  /\ min' = MinAfter(result) /\ upper_bound' = UpperAfter(result)
  /\ guess' = Middle(min', upper_bound')
  /\ misled' = \/ misled
               \/ ~OwnAnswer /\ <<min', upper_bound', guess'>> # <<min, upper_bound, guess>>
  /\ guess_pc' = "kill"
  /\ UNCHANGED <<result, pending, gameVars, restarts>>

\* Mutant: a signal that comes while the handler runs is lost, not blocked.
SendSignal_NotBlocked ==
  /\ guess_pc = "kill"
  /\ pending' = (game_pc = "sleep")
  /\ guess_pc' = "sleep"
  /\ UNCHANGED <<guess, result, gameVars, min, upper_bound, misled, restarts>>

\* kill(pid, SIGUSR1): without effect once the game is gone.
SendSignal ==
  /\ guess_pc = "kill"
  /\ pending' = (game_pc # "exited")
  /\ guess_pc' = "sleep"
  /\ UNCHANGED <<guess, result, gameVars, min, upper_bound, misled, restarts>>

Bingo ==
  /\ guess_pc = "sleep"
  /\ result = "bingo"
  /\ guess_pc' = "exited"
  /\ UNCHANGED <<guess, result, pending, gameVars, min, upper_bound, misled, restarts>>

\* guess.c is stopped, wherever it is, and started again.  The segment is as it
\* was left, unless the game has removed it: then shmget makes a new one.
Restart ==
  /\ restarts < MaxRestarts
  /\ restarts' = restarts + 1
  /\ guess_pc' = "sleep" /\ min' = 0 /\ upper_bound' = Upper
  /\ IF game_pc = "exited" THEN guess' = 0 /\ result' = "empty"
                           ELSE UNCHANGED <<guess, result>>
  /\ UNCHANGED <<pending, gameVars, misled>>

-----------------------------------------------------------------------------
(* game.c                                                                  *)

Answer(g) == IF g < number THEN "bigger" ELSE IF g > number THEN "smaller" ELSE "bingo"

\* sig_handler is entered; SIGUSR1 is blocked until it returns.
HandlerRead ==
  /\ game_pc = "sleep" /\ pending
  /\ pending' = FALSE /\ seen' = guess /\ game_pc' = "read"
  /\ UNCHANGED <<guess, result, number, sigint, about, guessVars, restarts>>

HandlerStartsToWrite ==
  /\ game_pc = "read"
  /\ result' = "partial" /\ game_pc' = "write"
  /\ UNCHANGED <<guess, pending, number, seen, sigint, about, guessVars, restarts>>

\* Mutant: a guess that hits the number is called too small.
HandlerReturns_LessOrEqual ==
  /\ game_pc = "write"
  /\ result' = IF seen <= number THEN "bigger" ELSE "smaller"
  /\ game_pc' = "sleep" /\ about' = seen
  /\ UNCHANGED <<guess, pending, number, seen, sigint, guessVars, restarts>>

\* Mutant: the answer is about the guess in the segment plus one.
HandlerReturns_OffByOne ==
  /\ game_pc = "write"
  /\ result' = Answer(seen + 1) /\ game_pc' = "sleep" /\ about' = seen
  /\ UNCHANGED <<guess, pending, number, seen, sigint, guessVars, restarts>>

HandlerReturns ==
  /\ game_pc = "write"
  /\ result' = Answer(seen) /\ game_pc' = "sleep" /\ about' = seen
  /\ UNCHANGED <<guess, pending, number, seen, sigint, guessVars, restarts>>

CtrlC ==
  /\ game_pc # "exited" /\ ~sigint
  /\ sigint' = TRUE
  /\ UNCHANGED <<guess, result, pending, number, game_pc, seen, about, guessVars, restarts>>

\* The loop sees the flag; guess.c keeps the segment it has attached.
GameExits ==
  /\ sigint /\ game_pc = "sleep"
  /\ game_pc' = "exited" /\ pending' = FALSE
  /\ UNCHANGED <<guess, result, number, seen, sigint, about, guessVars, restarts>>

GuessStep == SetGuess \/ SendSignal \/ Bingo
GameStep == HandlerRead \/ HandlerStartsToWrite \/ HandlerReturns

Next == GuessStep \/ GameStep \/ Restart \/ CtrlC \/ GameExits

Spec == Init /\ [][Next]_vars

\* Both processes are scheduled, and guess.c, which reads once a second, does not
\* for ever meet one of the short copies; the user need not press or restart
\* anything.
FairSpec ==
  /\ Spec
  /\ WF_vars(GuessStep) /\ WF_vars(GameStep) /\ WF_vars(GameExits)
  /\ <>[][~(result = "partial" /\ SetGuess)]_vars

-----------------------------------------------------------------------------
\* Only an answer to another guess makes guess.c lose the number: through
\* repeated and merged signals, half copied answers and restarts the number is
\* in the interval of guess.c until it has gone on without the answer to its own
\* guess (set_guess reads both from the segment).
NumberInInterval == ~misled => min < number /\ number <= upper_bound

\* When guess.c ends, the guess it shows is the number, under the same condition:
\* a signal that is handled late does not put a "bingo" beside another guess.
BingoIsRight == guess_pc = "exited" /\ ~misled => guess = number

\* An answer, once it is copied, is the one to the guess it is about.
AnswerIsTrue == result \in Answers => result = Answer(about)

\* Before the first answer guess.c stays with its first guess.
FirstGuess ==
  result = "unstart" => upper_bound = Upper /\ guess \in {0, Middle(0, Upper)}

\* The inductive invariant behind the two.  The last conjunct is the reason why
\* a late handler does no harm: a guess that is the number is not replaced.
GuessInv ==
  /\ NumberInInterval /\ BingoIsRight
  /\ AnswerIsTrue /\ FirstGuess
  /\ result = "partial" => game_pc = "write"
  /\ ~misled /\ (result = "bingo" \/ (game_pc \in {"read", "write"} /\ seen = number)) =>
       guess = number

\* A guess.c that is not stopped is misled only when it goes on before the game
\* has dealt with its signal, and so within its second (guess.c:70): no signal
\* gets lost, and once none is pending the answer is to the last guess.
MisledByHaste ==
  [][~misled /\ misled' => pending \/ game_pc # "sleep" \/ restarts > 0]_vars

\* The inductive invariant behind it.
HasteInv ==
  restarts = 0 =>
    /\ result # "empty"
    /\ guess_pc # "kill" /\ ~pending =>
         /\ game_pc \in {"read", "write"} => seen = guess
         /\ game_pc = "sleep" => OwnAnswer

\* Every number below the upper bound is found, unless guess.c is misled or the
\* game ended.  The upper bound itself, although Lab 7 counts it in the range, is
\* never tried: guess.c repeats the number below it for ever (guess.c:37).
NumberIsFound ==
  /\ number < Upper /\ guess_pc # "exited" ~> guess_pc = "exited" \/ sigint \/ misled
  /\ number = Upper ~> sigint \/ misled \/ [](guess = Upper - 1 /\ guess_pc # "exited")
=============================================================================
