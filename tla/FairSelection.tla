--------------------------- MODULE FairSelection ---------------------------
(***************************************************************************)
(* What round robin promises, whatever keeps the order: members join and   *)
(* leave, and no member serves while another one waits that it has already *)
(* passed.  A departure may cost one of those who stay what it was owed:   *)
(* the one that takes the place of the last in line.  Where members may    *)
(* come back to the place they left (RejoiningSpec), an arrival may put    *)
(* one of those who are there, the last in line, back to its front.        *)
(***************************************************************************)
CONSTANT Member

VARIABLES
    members,    \* who may serve
    passed      \* whom each member saw served since it served, or joined

vars == <<members, passed>>

TypeOK ==
    /\ members \subseteq Member
    /\ passed \in [Member -> SUBSET members]

Init ==
    /\ members = {}
    /\ passed = [m \in Member |-> {}]

Join(m) ==
    /\ m \notin members
    /\ members' = members \union {m}
    /\ UNCHANGED passed

(* F gets another turn: nobody, or one of those who are there. *)
JoinAhead(m) ==
    /\ m \notin members
    /\ members' = members \union {m}
    /\ \E F \in {{}} \union {{f} : f \in members} :
          passed' = [w \in Member |-> passed[w] \ F]

Serve(m) ==
    /\ m \in members
    /\ \A w \in members \ {m} : m \notin passed[w]
    /\ passed' = [w \in Member |-> IF w \in members \ {m} THEN passed[w] \union {m} ELSE {}]
    /\ UNCHANGED members

(* F forfeits: nobody, or one of those who stay. *)
Leave(S) ==
    LET stay == members \ S
    IN  /\ members' = stay
        /\ \E F \in {{}} \union {{m} : m \in stay} :
              passed' = [w \in Member |-> IF w \in stay \ F THEN passed[w] \ S ELSE {}]

Next ==
    \/ \E m \in Member : Join(m)
    \/ \E m \in Member : Serve(m)
    \/ \E S \in SUBSET members : Leave(S)

Spec == Init /\ [][Next]_vars

RejoiningNext == Next \/ \E m \in Member : JoinAhead(m)

RejoiningSpec == Init /\ [][RejoiningNext]_vars
=============================================================================
