------------------------------ MODULE MCAccounts ------------------------------
(* Small instances of Accounts. *)
EXTENDS Accounts

CONSTANTS a, b, ka, kb, kn, t1, t2, t3, b1, b2

BarbersTenant == [x \in Barbers |-> IF x = b1 THEN t1 ELSE t2]

User(tenant, role, active, barber) ==
    [tenant |-> tenant, role |-> role, active |-> active, name |-> "initial", barber |-> barber]

\* a runs the first shop; b is nobody yet, works there, or runs the second shop.
Others == {None, User(t1, "staff", TRUE, b1), User(t1, "barber", TRUE, b1),
           User(t1, "barber", FALSE, b1), User(t1, "admin", TRUE, None),
           User(t2, "owner", TRUE, b2)}

Token(e) == [user |-> e, revoked |-> FALSE]
Shop == [status |-> "active", settings |-> TRUE]

Databases ==
    {[x \in Keys |->
        CASE x = a -> User(t1, "owner", TRUE, None)
          [] x = b -> other
          [] x = ka -> Token(a)
          [] x = kb -> IF other = None THEN None ELSE Token(b)
          [] x \in {kn, t3} -> None
          [] x \in {t1, t2} -> Shop] : other \in Others}
=============================================================================
