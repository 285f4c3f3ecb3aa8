------------------------------ MODULE MCClient ------------------------------
(***************************************************************************)
(* Client for TLC: for each kind two values, one to be fetched and one     *)
(* panic; both panics of gates and configs have the same text.             *)
(***************************************************************************)
EXTENDS Client

Value(id, pass, value, delegate, explicit) ==
    [ZeroResult EXCEPT !.id = id, !.pass = pass, !.value = value, !.delegate = delegate,
                       !.explicit = explicit]

NoValue == [k \in Keys |-> None]

Text == [k \in Keys |-> "string"]
Number == [k \in Keys |-> "float64"]

Fetched == [ZeroResult EXCEPT !.fetch = TRUE]
Panics(x) == [ZeroResult EXCEPT !.panic = x]

MCOutcomes ==
    [gate   |-> {Value("r1", TRUE, NoValue, None, {}), Fetched, Panics("depth")},
     config |-> {Value("r2", TRUE, Text, None, {}), Fetched, Panics("depth")},
     layer  |-> {Value("r3", FALSE, Text, None, {}), Value("r4", TRUE, Number, "exp", Keys),
                 Fetched, Panics("nil map")}]

MCServerValue ==
    [gate   |-> Value("s1", TRUE, NoValue, None, {}),
     config |-> Value("s2", FALSE, Text, None, {}),
     layer  |-> Value("s3", FALSE, Text, None, {})]
=============================================================================
