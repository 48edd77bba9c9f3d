------------------------------- MODULE MCSweep -------------------------------
(* Measurements for TLC.  Three-valued samples around a level per pattern:  *)
(* the level depends on the world, the scenario and the configuration, so   *)
(* that the configurations differ in grades, orderings and contrasts.  The  *)
(* runs under faults differ in number, as the patterns' paths do.           *)
EXTENDS Sweep

MCVariants == <<"rho050">>

MCPValue == [d \in 0..100 |-> IF d = 100 THEN 1 ELSE IF d >= 75 THEN 20
                              ELSE IF d >= 50 THEN 40 ELSE IF d >= 30 THEN 400 ELSE 5000]

MCWorlds == 1..4

Level(w, c, p, sc) ==
    LET load == IF c.rho = 70 THEN 1 ELSE 0
        size == IF c.n = 500 THEN 0 ELSE IF c.n = 250 THEN 1 ELSE 2
    IN  1 + ((p * w + size) % 4) + (IF sc = "S1" THEN 0 ELSE 1 + ((p * load) % 3))

Around(level, pl, wide) ==
    <<level, level + (IF wide THEN 2 ELSE 0), level + (IF pl = "bedrock" THEN 1 ELSE 2)>>

MCMeasured ==
    [w \in MCWorlds |-> [c \in Configs |->
        [latency |-> [pl \in Platforms |-> [sc \in Scenarios |-> [p \in Patterns |->
                        Around(Level(w, c, p, sc), pl, (p + w) % 2 = 0)]]],
         cost    |-> [pl \in Platforms |-> [sc \in Scenarios |-> [p \in Patterns |->
                        Around(Level(w + 1, c, 8 - p, sc), pl, w = 2)]]],
         failed  |-> [pl \in Platforms |-> [p \in Patterns |->
                        IF p = w THEN <<1, 1, 1>>
                        ELSE SubSeq(<<0, p % 2, 0, 1>>, 1, 2 + (p % 3))]]]]]
=============================================================================
