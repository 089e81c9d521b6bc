----------------------------- MODULE MCFizzle -----------------------------
(* Command lines for module Fizzle. *)
EXTENDS Fizzle, TLC

\* Processes differ by nothing but their names.
Twins == Permutations(Procs)

Line(name, n) == [name |-> name, flags |-> "ok", operands |-> 1, isNumber |-> TRUE,
                  number |-> n, known |-> TRUE, usable |-> TRUE]

\* One good line of each command, for processes that meet at one job.
GoodLines == {Line("start", 2)} \cup {Line(c, 0) : c \in {"stop", "status", "outputs"}}

\* Everything a single process may be run with; with CountBits = 3 the counts
\* reach both ends of the wire's range and wrap round on either side.
AllLines ==
    LET good == {Line("start", n) : n \in -9 .. 10} \cup {Line(c, 0) : c \in Commands}
    IN good
       \cup {[Line("start", 0) EXCEPT !.isNumber = FALSE]}
       \cup {[Line(c, 1) EXCEPT !.known = FALSE] : c \in Commands}
       \cup {[Line(c, 1) EXCEPT !.usable = FALSE] : c \in Commands}
       \cup {[Line(c, 1) EXCEPT !.operands = k] : c \in Commands, k \in {0, 2}}
       \cup {[Line(c, 1) EXCEPT !.flags = f] : c \in Commands, f \in {"help", "bad"}}
       \cup {Line(c, 1) : c \in {"none", "-h", "-help", "--help", "strat"}}
=============================================================================
