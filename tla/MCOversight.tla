---------------------------- MODULE MCOversight -----------------------------
EXTENDS Oversight, TLC

Tasks(t, human_ids, flawed) ==
    [id |-> t[1], depends_on |-> t[2],
     gate |-> IF t[1] \in human_ids THEN "HUMAN-REVIEW-REQUIRED" ELSE "AUTO",
     complete |-> t[1] \notin flawed]

\* Three tasks in order, out of order or with an id twice, every choice of
\* dependencies (on themselves too), and some human or flawed.
MCBacklogs ==
    {[i \in 1..3 |-> Tasks(<<ids[i], deps[i]>>, h, f)] :
        ids \in {<<1, 2, 3>>, <<2, 1, 3>>, <<1, 1, 2>>},
        deps \in [1..3 -> {{}, {1}, {1, 2}, {3}}],
        h \in {{}, {2}, {1, 3}}, f \in {{}, {3}}}

\* The runs of mark.py are alike.
Symmetry == Permutations(Marks)
=============================================================================
