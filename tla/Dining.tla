------------------------------- MODULE Dining -------------------------------
(***************************************************************************)
(* What the dining-philosophers engine of hackthone/src promises to anyone  *)
(* who watches the table: philosophers think, get hungry, eat a bounded     *)
(* number of meals and leave, and two neighbours never eat together.  It    *)
(* says nothing of forks, permits, pauses or threads; Simulation.tla is     *)
(* shown to implement it.                                                   *)
(***************************************************************************)
EXTENDS Integers

CONSTANTS N,        \* philosophers (and forks) around the table
          MaxMeals  \* meals each may take

Phil == 0 .. N - 1
Right(i) == (i + 1) % N

VARIABLES phase,  \* what each philosopher is seen doing
          meals   \* meals each has begun
vars == <<phase, meals>>

Apart(i, j) == Right(i) # j /\ Right(j) # i

TypeOK == /\ phase \in [Phil -> {"thinking", "hungry", "eating", "gone"}]
          /\ meals \in [Phil -> 0 .. MaxMeals]

Init == /\ phase = [i \in Phil |-> "thinking"]
        /\ meals = [i \in Phil |-> 0]

GetHungry(i) == /\ phase[i] = "thinking"
                /\ meals[i] < MaxMeals
                /\ phase' = [phase EXCEPT ![i] = "hungry"]
                /\ UNCHANGED meals

Eat(i) == /\ phase[i] = "hungry"
          /\ \A j \in Phil : phase[j] = "eating" => Apart(i, j)
          /\ phase' = [phase EXCEPT ![i] = "eating"]
          /\ meals' = [meals EXCEPT ![i] = @ + 1]

FinishMeal(i) == /\ phase[i] = "eating"
                 /\ phase' = [phase EXCEPT ![i] = "thinking"]
                 /\ UNCHANGED meals

\* A philosopher leaves when it is full or when the run is stopped; never
\* from the middle of a meal.
Leave(i) == /\ phase[i] \in {"thinking", "hungry"}
            /\ phase' = [phase EXCEPT ![i] = "gone"]
            /\ UNCHANGED meals

Next == \E i \in Phil : GetHungry(i) \/ Eat(i) \/ FinishMeal(i) \/ Leave(i)

Spec == Init /\ [][Next]_vars
=============================================================================
