------------------------------ MODULE MCAccounts ------------------------------
(* An instance of Accounts: an admin, a lecturer, a student and a free name. *)
EXTENDS Accounts

CONSTANTS adm, lec, stu, new, p1, p2, k1

Person(role) == [pw |-> p1, role |-> role, active |-> TRUE]

MCTable == [u \in {adm, lec, stu, new} |->
              CASE u = adm -> Person("admin") [] u = lec -> Person("lecturer")
                [] u = stu -> Person("student") [] OTHER -> None]

C(op, actor, target, pw, np, role) ==
    [op |-> op, actor |-> actor, target |-> target, key |-> k1, pw |-> pw, new |-> np, role |-> role]

MCCalls ==
    {C("login", stu, stu, p, p1, "student") : p \in {p1, p2}}
    \union {C("change", stu, stu, p, p2, "student") : p \in {p1, p2}}
    \union {C(op, lec, u, p1, p1, "student") : op \in {"disable", "enable"}, u \in {lec, stu}}
    \union {C("reset", lec, stu, p1, p2, "student"), C("disable", adm, lec, p1, p1, "student"),
            C("disable", stu, lec, p1, p1, "student")}
    \union {C("create", lec, new, p1, p1, "admin"), C("create", lec, new, p1, p1, "student"),
            C("create", adm, new, p1, p2, "admin"), C("login", new, new, p2, p1, "student")}
=============================================================================
