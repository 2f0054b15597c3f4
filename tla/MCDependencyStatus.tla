------------------------- MODULE MCDependencyStatus -------------------------
(* A chart that depends on "db" and "db-tools", whose charts/ may hold three *)
(* archives and a directory, each of them what its name says or not.        *)
EXTENDS DependencyStatus, TLC

Tools == "db" :> {"db-tools"} @@ "db-tools" :> {}

Files == {[base |-> "db", rest |-> 1], [base |-> "db", rest |-> Loose],
          [base |-> "db-tools", rest |-> 1]}

(* Requirements of exactly version 1, of any and of none, an invalid one,   *)
(* one that is but for being spelled like version 1, and one for a name     *)
(* that is no pattern.                                                      *)
Declarations ==
  {[glob |-> TRUE, text |-> 1, by |-> {1}], [glob |-> TRUE, text |-> None, by |-> {1, 2}],
   [glob |-> TRUE, text |-> None, by |-> {}], [glob |-> TRUE, text |-> None, by |-> Invalid],
   [glob |-> TRUE, text |-> 1, by |-> Invalid], [glob |-> FALSE, text |-> None, by |-> {1}]}
=============================================================================
