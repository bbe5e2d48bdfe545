---- MODULE Snake ----
(***************************************************************************)
(* 4_snake/snake.c: the game for one or two players.  readInput waits for  *)
(* a key, so there is one round of the loop of play() for each key, or for *)
(* none when the read comes back empty.  random.c takes its number from    *)
(* the tick, so food may be placed in any cell; what is drawn is left out. *)
(***************************************************************************)
EXTENDS Integers, Sequences

CONSTANTS
    GRID_SIZE,              \* 24
    INITIAL_SNAKE_LENGTH,   \* 3
    INITIAL_SPACING,        \* 4
    MaxScore                \* bound of the model: nobody plays on with a higher score

ASSUME GridAssumption ==
    /\ GRID_SIZE \in Nat \ {0} /\ INITIAL_SPACING \in 2 .. GRID_SIZE - 2 /\ MaxScore \in Nat
    /\ INITIAL_SNAKE_LENGTH \in 2 .. GRID_SIZE \div 2 + 1

VARIABLES
    game,     \* "ask", "key", "move", "check", "over", or "stuck" in placeFood
    mover,    \* whose checkSnake is next
    snakes,   \* snake1 and, with two players, snake2
    food,
    loser     \* what checkCollisions returned, 0 for nobody

snakeVars == <<game, mover, snakes, food, loser>>

Grid == (0 .. GRID_SIZE - 1) \X (0 .. GRID_SIZE - 1)
Directions == {<<0, -1>>, <<-1, 0>>, <<0, 1>>, <<1, 0>>}
Body(s) == {s.positions[j] : j \in DOMAIN s.positions}

\* initializeSnake.
NewSnake(offset) ==
    [positions |-> [j \in 1 .. INITIAL_SNAKE_LENGTH |->
                        <<GRID_SIZE \div 2 - (j - 1), GRID_SIZE \div 2 - offset>>],
     direction |-> <<1, 0>>,
     score |-> 0]
\* initializeSnakes, for one player and for two.
NewSnakes ==
    LET first == NewSnake(-(INITIAL_SPACING \div 2))
        second == NewSnake(INITIAL_SPACING \div 2)
    IN  {<<first>>, <<first, second>>}

SnakeInit == game = "ask" /\ mover = 1 /\ snakes = <<>> /\ food = <<0, 0>> /\ loser = 0

\* placeFood draws cells until one is free of both snakes, and for ever when there is none.
Free(ss) == Grid \ UNION {Body(ss[p]) : p \in DOMAIN ss}
PlaceFood(ss, next) ==
    IF Free(ss) = {} THEN game' = "stuck" /\ UNCHANGED food
    ELSE food' \in Free(ss) /\ game' = next

\* presentStartView and awaitStart.
StartGame ==
    /\ game = "ask"
    /\ snakes' \in NewSnakes
    /\ PlaceFood(snakes', "key")
    /\ mover' = 1 /\ loser' = 0

\* handleKeyPresses: w a s d for the first snake, i j k l for the second.
Turned(s, d) == IF s.direction = <<-d[1], -d[2]>> THEN s ELSE [s EXCEPT !.direction = d]
HandleKey ==
    /\ game = "key" /\ game' = "move" /\ mover' = 1
    /\ \A p \in DOMAIN snakes : snakes[p].score <= MaxScore
    /\ \/ UNCHANGED snakes
       \/ \E p \in DOMAIN snakes, d \in Directions : snakes' = [snakes EXCEPT ![p] = Turned(@, d)]
    /\ UNCHANGED <<food, loser>>

\* updateSnake; growSnake, which doubles the last piece.
Moved(s) ==
    [s EXCEPT !.positions = [j \in DOMAIN @ |->
        IF j > 1 THEN @[j - 1] ELSE <<@[1][1] + s.direction[1], @[1][2] + s.direction[2]>>]]
Grown(s) == [s EXCEPT !.positions = Append(@, @[Len(@)])]
Fed(s) == [Moved(Grown(s)) EXCEPT !.score = @ + 1]

\* checkSnake: one that eats moves twice in the round, through the cell of the food.
MoveSnake ==
    /\ game = "move" /\ mover <= Len(snakes)
    /\ LET s == Moved(snakes[mover])
       IN  IF s.positions[1] = food
           THEN /\ snakes' = [snakes EXCEPT ![mover] = Fed(s)]
                /\ PlaceFood(snakes', "move")
           ELSE snakes' = [snakes EXCEPT ![mover] = s] /\ UNCHANGED <<food, game>>
    /\ mover' = mover + 1 /\ UNCHANGED loser

checkCollisionForSnake(s) ==
    \/ s.positions[1] \notin Grid
    \/ \E j \in 2 .. Len(s.positions) : s.positions[j] = s.positions[1]
checkInterSnakeCollision(s, t) == s.positions[1] \in Body(t)
\* Variant with a bug: the second snake may run into the first.
SecondRunsFree(ss) ==
    IF checkCollisionForSnake(ss[1]) \/ (Len(ss) = 2 /\ checkInterSnakeCollision(ss[1], ss[2])) THEN 1
    ELSE IF Len(ss) = 2 /\ checkCollisionForSnake(ss[2]) THEN 2 ELSE 0
\* The first check that finds something names the loser.
checkCollisions(ss) ==
    IF checkCollisionForSnake(ss[1]) THEN 1
    ELSE IF Len(ss) = 1 THEN 0
    ELSE IF checkCollisionForSnake(ss[2]) THEN 2
    ELSE IF checkInterSnakeCollision(ss[1], ss[2]) THEN 1
    ELSE IF checkInterSnakeCollision(ss[2], ss[1]) THEN 2 ELSE 0

CheckCollisions ==
    /\ game = "move" /\ mover > Len(snakes)
    /\ loser' = checkCollisions(snakes)
    /\ game' = IF loser' = 0 THEN "key" ELSE "over"
    /\ UNCHANGED <<mover, snakes, food>>

\* endWithMessage and askReplay, when another game is wanted.
Replay == game = "over" /\ game' = "ask" /\ UNCHANGED <<mover, snakes, food, loser>>

SnakeNext == StartGame \/ HandleKey \/ MoveSnake \/ CheckCollisions \/ Replay

SnakeSpec == SnakeInit /\ [][SnakeNext]_snakeVars

----------------------------------------------------------------------------
\* Properties

\* What food, growth and the double move of a round that eats leave behind, whatever the other
\* player does meanwhile: when the next key is awaited the food is on no snake, a snake is as long
\* as its score says, in one piece, crosses neither itself nor the other, and lies in the grid.
\* Only heads are checked for collisions, and one of the two moves of that round is not checked.
BoardIsSound ==
    game = "key" =>
        /\ food \in Free(snakes)
        /\ \A p \in DOMAIN snakes :
              LET body == snakes[p].positions
              IN  /\ Len(body) = INITIAL_SNAKE_LENGTH + snakes[p].score
                  /\ \A j \in DOMAIN body : body[j] \in Grid
                  /\ \A j, k \in DOMAIN body : body[j] = body[k] => j = k
                  /\ \A j \in 2 .. Len(body) :
                        <<body[j - 1][1] - body[j][1], body[j - 1][2] - body[j][2]>> \in Directions
        /\ \A p, q \in DOMAIN snakes : p # q => Body(snakes[p]) \cap Body(snakes[q]) = {}

====
