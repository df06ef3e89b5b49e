-------------------------------- MODULE Lists --------------------------------
(***************************************************************************)
(* The methods of arrays the evidence is computed with: filter, reduce and *)
(* sort.  They are recursive functions over the prefixes of a sequence, so *)
(* that what they return can be proved.                                    *)
(***************************************************************************)
EXTENDS Integers, Sequences

\* The elements of a sequence at the places in S, in their order.
Chosen(seq, S) ==
  LET taken[n \in 0..Len(seq)] ==
        IF n = 0 THEN <<>> ELSE IF n \in S THEN Append(taken[n - 1], seq[n]) ELSE taken[n - 1]
  IN taken[Len(seq)]

\* filter
Where(seq, Test(_)) == Chosen(seq, {i \in DOMAIN seq : Test(seq[i])})

\* What a loop over a sequence leaves, one turn per element.
Steps(Turn(_, _), start, seq) ==
  LET after[n \in 0..Len(seq)] == IF n = 0 THEN start ELSE Turn(after[n - 1], seq[n])
  IN after[Len(seq)]

\* The sum of a sequence of numbers, and of a value of each element.
Sum(seq) ==
  LET total[n \in 0..Len(seq)] == IF n = 0 THEN 0 ELSE total[n - 1] + seq[n]
  IN total[Len(seq)]

SumOf(seq, Value(_)) == Sum([i \in 1..Len(seq) |-> Value(seq[i])])

=============================================================================
