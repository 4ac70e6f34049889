----------------------------- MODULE MCPrograms -----------------------------
(***************************************************************************)
(* Small programs with accesses of different sizes to the two bytes of one *)
(* word, for the store-buffer interpreters.                                *)
(***************************************************************************)
EXTENDS Integers, Sequences

MCBytes == {0, 1}
MCValues == {1, 2}

Word == [addr |-> 0, size |-> 2]
Low == [addr |-> 0, size |-> 1]
High == [addr |-> 1, size |-> 1]
MCLocations == {Word, Low, High}

Load(ml) == [op |-> "load", ml |-> ml]
Store(ml, v) == [op |-> "store", ml |-> ml, val |-> v]
Atomic(ml, v) == [op |-> "atomic", ml |-> ml, val |-> v]
Fence == [op |-> "fence"]
Assume == [op |-> "assume"]
Create(u) == [op |-> "create", tid |-> u]
Join(u) == [op |-> "join", tid |-> u]

(* Thread 1 issues two stores and then something that may have to wait for *)
(* them; thread 2 races with it; the main thread has a store of its own    *)
(* pending when it joins thread 1.                                         *)
Program(first, second, last) ==
  <<Store(first, 1), Store(second, 2), last>>

Lasts == {Load(ml) : ml \in MCLocations} \cup {Atomic(Low, 2), Fence, Assume, Join(2)}

ProgramsOver(Pairs) ==
  {[t \in 0..2 |->
      CASE t = 0 -> <<Create(2), Create(1), Store(High, 2), Join(1), Load(Word)>>
        [] t = 1 -> Program(pair[1], pair[2], last)
        [] t = 2 -> <<Store(Word, 2), Load(Low)>>] : pair \in Pairs, last \in Lasts}

AllPrograms == ProgramsOver(MCLocations \X MCLocations)

OtherPrograms == ProgramsOver((MCLocations \X MCLocations) \ {<<Word, Low>>})
=============================================================================
